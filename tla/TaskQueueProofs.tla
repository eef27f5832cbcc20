-------------------------- MODULE TaskQueueProofs ---------------------------
(***************************************************************************)
(* What TaskQueue guarantees for any number of threads that push and pop,  *)
(* any capacity of the first ring buffer and any number of tasks: that a   *)
(* thread which wins the race for a task has read that task, that growing  *)
(* and overwriting the ring never loses one, that each Task object is      *)
(* freed once, and that the queue is first in, first out.                  *)
(***************************************************************************)
EXTENDS TaskQueue, TLAPS

Value == Index \cup {Garbage}

(* A ring buffer: capacity_ and the array behind it. *)
Buffer == UNION {[capacity : {c}, slot : [0 .. c - 1 -> Value]] : c \in Nat \ {0}}

-----------------------------------------------------------------------------
(* Arithmetic of the slots. *)

(* get and set stay inside the buffer: an index modulo the capacity is one *)
(* of its slots.                                                           *)
LEMMA ModRange ==
    ASSUME NEW a \in Nat, NEW c \in Nat \ {0}
    PROVE  a % c \in 0 .. c - 1
OBVIOUS

(* An index is its round of the ring and its slot. *)
LEMMA DivMod ==
    ASSUME NEW a \in Nat, NEW c \in Nat \ {0}
    PROVE  a = c * (a \div c) + (a % c) /\ a \div c \in Nat
OBVIOUS

(* An index's slot is determined by its remainder. *)
LEMMA ModUnique ==
    ASSUME NEW c \in Nat \ {0}, NEW q \in Nat, NEW r \in 0 .. c - 1
    PROVE  (c * q + r) % c = r
OBVIOUS

(* Fewer than c tasks in a row have different slots. *)
LEMMA ModDiff ==
    ASSUME NEW a \in Nat, NEW b \in Nat, NEW c \in Nat \ {0}, a < b, b < a + c
    PROVE  a % c # b % c
<1> SUFFICES ASSUME a % c = b % c PROVE FALSE
    OBVIOUS
<1> DEFINE k == (b \div c) - (a \div c)
<1>1. k \in Int /\ b - a = c * k
    BY DivMod
<1>2. CASE k <= 0
    BY <1>1, <1>2
<1>3. CASE k >= 1
    BY <1>1, <1>3
<1> QED BY <1>1, <1>2, <1>3

(* The slot in the old buffer follows from the one in the new buffer. *)
LEMMA ModTwice ==
    ASSUME NEW a \in Nat, NEW c \in Nat \ {0}
    PROVE  (a % (2 * c)) % c = a % c
<1> DEFINE d == 2 * c
<1>1. d \in Nat \ {0}
    OBVIOUS
<1>2. PICK r \in Nat : r = a % d
    BY <1>1, ModRange
<1>3. PICK q \in Nat : a = d * q + r
    BY <1>1, <1>2, DivMod
<1>4. PICK s \in 0 .. c - 1 : s = r % c
    BY ModRange
<1>5. PICK m \in Nat : r = c * m + s
    BY <1>4, DivMod
<1>6. PICK n \in Nat : n = 2 * q + m
    OBVIOUS
<1>7. d * q = c * (2 * q)
    OBVIOUS
<1>8. c * n = c * (2 * q) + c * m
    BY <1>6
<1>9. a = c * n + s
    BY <1>3, <1>5, <1>7, <1>8
<1>10. a % c = s
    BY <1>9, ModUnique
<1> QED BY <1>2, <1>4, <1>10

-----------------------------------------------------------------------------
(* What RingBuffer's operations do. *)

(* A buffer has a capacity of at least one and a value or garbage in each  *)
(* slot.                                                                   *)
LEMMA BufferFields ==
    ASSUME NEW b \in Buffer
    PROVE  /\ b.capacity \in Nat \ {0}
           /\ b.slot \in [0 .. b.capacity - 1 -> Value]
           /\ b = [capacity |-> b.capacity, slot |-> b.slot]
<1>1. PICK c \in Nat \ {0} : b \in [capacity : {c}, slot : [0 .. c - 1 -> Value]]
    BY DEF Buffer
<1> QED BY <1>1

(* A capacity and a function on its slots make a buffer. *)
LEMMA BufferIntro ==
    ASSUME NEW c \in Nat \ {0}, NEW f \in [0 .. c - 1 -> Value]
    PROVE  [capacity |-> c, slot |-> f] \in Buffer
<1>1. [capacity |-> c, slot |-> f] \in [capacity : {c}, slot : [0 .. c - 1 -> Value]]
    OBVIOUS
<1> QED BY <1>1 DEF Buffer

(* get reads something that new T[] or set has left in a slot. *)
LEMMA GetEntry ==
    ASSUME NEW b \in Buffer, NEW i \in Nat
    PROVE  b.slot[i % b.capacity] \in Value
BY BufferFields, ModRange

(* set changes the one slot of its index and not the capacity. *)
LEMMA SetEntry ==
    ASSUME NEW b \in Buffer, NEW i \in Nat, NEW val \in Value
    PROVE  /\ set_entry(b, i, val) \in Buffer
           /\ set_entry(b, i, val).capacity = b.capacity
           /\ set_entry(b, i, val).slot[i % b.capacity] = val
           /\ \A j \in Nat : j % b.capacity # i % b.capacity
                 => set_entry(b, i, val).slot[j % b.capacity] = b.slot[j % b.capacity]
<1>a. PICK c \in Nat \ {0} : c = b.capacity
    BY BufferFields
<1>b. PICK g \in [0 .. c - 1 -> Value] : g = b.slot
    BY <1>a, BufferFields
<1>1. b = [capacity |-> c, slot |-> g]
    BY <1>a, <1>b, BufferFields
<1>2. PICK m \in 0 .. c - 1 : m = i % c
    BY ModRange
<1> DEFINE f == [g EXCEPT ![m] = val]
<1>3. f \in [0 .. c - 1 -> Value] /\ f[m] = val
    OBVIOUS
<1>4. ASSUME NEW j \in Nat, j % c # m
      PROVE  f[j % c] = g[j % c]
    BY <1>4, ModRange
<1>5. set_entry(b, i, val) = [capacity |-> c, slot |-> f]
    <2>1. b.capacity = c
        BY <1>a
    <2>2. set_entry(b, i, val) = [b EXCEPT !.slot[m] = val]
        BY <1>2, <2>1 DEF set_entry
    <2>3. [[capacity |-> c, slot |-> g] EXCEPT !.slot[m] = val]
             = [capacity |-> c, slot |-> [g EXCEPT ![m] = val]]
        OBVIOUS
    <2> QED BY <1>1, <2>2, <2>3
<1>6. [capacity |-> c, slot |-> f] \in Buffer
    BY <1>3, BufferIntro
<1> QED BY <1>1, <1>2, <1>3, <1>4, <1>5, <1>6

(* enlarged_copy doubles the capacity and keeps every task between its two *)
(* indices at that index.                                                  *)
LEMMA EnlargedCopy ==
    ASSUME NEW b \in Buffer, NEW bot \in Nat, NEW from \in Nat
    PROVE  /\ enlarged_copy(b, bot, from) \in Buffer
           /\ enlarged_copy(b, bot, from).capacity = 2 * b.capacity
           /\ \A i \in from .. bot - 1 :
                 enlarged_copy(b, bot, from).slot[i % (2 * b.capacity)]
                   = b.slot[i % b.capacity]
<1>a. PICK c \in Nat \ {0} : c = b.capacity
    BY BufferFields
<1>b. PICK g \in [0 .. c - 1 -> Value] : g = b.slot
    BY <1>a, BufferFields
<1>1. b = [capacity |-> c, slot |-> g]
    BY <1>a, <1>b, BufferFields
<1>2. PICK d \in Nat \ {0} : d = 2 * c
    OBVIOUS
<1> DEFINE f == [s \in 0 .. d - 1 |->
                   IF \E i \in from .. bot - 1 : i % d = s
                   THEN g[s % c] ELSE Garbage]
<1>3. f \in [0 .. d - 1 -> Value]
    <2>1. Garbage \in Value
        BY DEF Value
    <2>2. ASSUME NEW s \in 0 .. d - 1 PROVE g[s % c] \in Value
        <3>1. s \in Nat
            OBVIOUS
        <3>2. s % c \in 0 .. c - 1
            BY <3>1, ModRange
        <3> QED BY <3>2
    <2> QED BY <2>1, <2>2
<1>4. ASSUME NEW i \in from .. bot - 1
      PROVE  f[i % d] = g[i % c]
    <2>1. i \in Nat
        OBVIOUS
    <2>2. PICK m \in 0 .. d - 1 : m = i % d
        BY <2>1, ModRange
    <2>3. m % c = i % c
        BY <1>2, <2>1, <2>2, ModTwice
    <2> QED BY <2>2, <2>3
<1>5. enlarged_copy(b, bot, from) = [capacity |-> d, slot |-> f]
    BY <1>1, <1>2 DEF enlarged_copy
<1>6. [capacity |-> d, slot |-> f] \in Buffer
    BY <1>3, BufferIntro
<1> HIDE DEF f
<1> QED BY <1>1, <1>2, <1>4, <1>5, <1>6

-----------------------------------------------------------------------------
(* The inductive invariant. *)

Buffers == buffers \in Seq(Buffer) /\ Len(buffers) >= 1

(* A push, and a wait that looks at the queue, hold the mutex. *)
Locked ==
    /\ \A p \in Pusher : ppc[p] \in {"grow", "set", "publish"} <=> mutex = p
    /\ pc[Owner] \in {"predicate", "block"} <=> mutex = Owner

(* The top_ that a push has read may be old, never ahead, and the buffer   *)
(* it looks at has room for what it believes to be in the queue.           *)
Room ==
    /\ top <= bottom /\ bottom - top <= capacity(buffer)
    /\ \A p \in Pusher :
          /\ ppc[p] \in {"grow", "set", "publish"} =>
                pt[p] <= top /\ bottom < MaxTasks /\ bottom - pt[p] <= capacity(buffer)
          /\ ppc[p] \in {"set", "publish"} => bottom - pt[p] < capacity(buffer)
          /\ ppc[p] = "publish" => get_entry(buffer, bottom) = bottom

(* What a thread that pops has read is right as long as it can still win.  *)
Reads ==
    \A w \in Popper :
        /\ pc[w] \in {"bottom", "buffer", "entry", "cas", "won"} => t[w] <= top
        /\ pc[w] \in {"buffer", "entry", "cas", "won"} => t[w] < bottom
        /\ pc[w] = "entry" /\ t[w] = top => get_entry(buf[w], t[w]) = t[w]
        /\ pc[w] = "cas" /\ t[w] = top => ptr[w] = t[w]
        /\ pc[w] = "won" => /\ ptr[w] = t[w] /\ t[w] < top
                            /\ \A v \in Popper \ {w} : pc[v] = "won" => t[v] # t[w]

(* The Task objects are those in the queue, those being moved out and the  *)
(* one being pushed; after the destructor nobody uses the queue.           *)
Objects ==
    /\ spc # "destroyed" =>
          \A i \in Index : i \in live <=>
              \/ top <= i /\ i < bottom
              \/ \E w \in Popper : pc[w] = "won" /\ t[w] = i
              \/ i = bottom /\ \E p \in Pusher : ppc[p] = "publish"
    /\ spc = "destroyed" =>
          /\ live = {}
          /\ \A w \in Popper : pc[w] = "left"
          /\ \A p \in Pusher : ppc[p] = "idle"

Counted == Len(taken) = top

Inv ==
    /\ TypeOK /\ Buffers /\ Locked
    /\ Room /\ NotOverfull /\ Reads /\ Objects /\ Counted

(* Growing: what is in the queue is in the new buffer; the old one stays   *)
(* as it was for the threads that have read its address.                   *)
LEMMA GrowStep ==
    ASSUME Inv, NEW p \in Pusher, PushGrow(p)
    PROVE  Inv'
<1>1. /\ bottom \in Nat /\ pt[p] \in Nat /\ pt[p] <= top /\ top \in Nat
      /\ ppc[p] = "grow" /\ buffers \in Seq(Buffer) /\ Len(buffers) >= 1
      /\ buffers[Len(buffers)] \in Buffer
    BY DEF Inv, PushGrow, TypeOK, Buffers, Room, Index
<1>2. /\ bottom - pt[p] <= buffers[Len(buffers)].capacity
      /\ bottom - top <= buffers[Len(buffers)].capacity
    BY <1>1 DEF Inv, Room, buffer, capacity
<1>3. /\ UNCHANGED <<top, bottom, mutex, stopped, live, pt, pc, t, buf, ptr, spc, taken>>
      /\ ppc' = [ppc EXCEPT ![p] = "set"]
    BY DEF PushGrow, PGoto, pop
<1>4. Locked' /\ Counted' /\ Objects'
    BY <1>1, <1>3 DEF Inv, TypeOK, Locked, Counted, Objects
<1>5. CASE ~(capacity(buffer) < bottom - pt[p] + 1)
    <2>1. UNCHANGED buffers
        BY <1>5 DEF PushGrow
    <2>2. TypeOK' /\ Buffers'
        BY <1>3, <2>1 DEF Inv, TypeOK, Buffers, capacity
    <2>3. Reads' /\ NotOverfull'
        BY <1>3, <2>1 DEF Inv, Reads, NotOverfull, get_entry, capacity, buffer
    <2>4. Room'
        BY <1>1, <1>3, <1>5, <2>1 DEF Inv, TypeOK, Room, get_entry, capacity, buffer
    <2> QED BY <1>4, <2>2, <2>3, <2>4 DEF Inv
<1>6. CASE capacity(buffer) < bottom - pt[p] + 1
    <2>1. PICK b \in Buffer : b = buffers[Len(buffers)]
        BY <1>1
    <2>2. PICK new \in Buffer :
             /\ buffers' = Append(buffers, new)
             /\ new.capacity = 2 * b.capacity
             /\ \A i \in pt[p] .. bottom - 1 :
                   new.slot[i % (2 * b.capacity)] = b.slot[i % b.capacity]
        <3>1. buffers' = Append(buffers, enlarged_copy(b, bottom, pt[p]))
            BY <1>6, <2>1 DEF PushGrow, buffer
        <3> QED BY <1>1, <3>1, EnlargedCopy
    <2>3. /\ buffers' \in Seq(Buffer) /\ Len(buffers') = Len(buffers) + 1
          /\ buffers'[Len(buffers')] = new
          /\ \A g \in 1 .. Len(buffers) : buffers'[g] = buffers[g]
        BY <1>1, <2>2
    <2>4. b.capacity \in Nat \ {0} /\ new.capacity \in Nat \ {0}
          /\ bottom - pt[p] < new.capacity /\ bottom - top <= new.capacity
        BY <1>1, <1>2, <2>1, <2>2, BufferFields
    <2>5. TypeOK'
        <3>1. ASSUME NEW g \in 1 .. Len(buffers')
              PROVE  /\ buffers'[g].capacity \in Nat \ {0}
                     /\ buffers'[g].slot \in
                           [0 .. buffers'[g].capacity - 1 -> Index \cup {Garbage}]
            BY <2>3, BufferFields DEF Value
        <3>2. buf' \in [Popper -> 1 .. Len(buffers')]
            BY <1>1, <1>3, <2>3 DEF Inv, TypeOK
        <3> QED BY <1>3, <3>1, <3>2 DEF Inv, TypeOK, capacity
    <2>6. NotOverfull'
        <3> SUFFICES ASSUME NEW i \in top .. bottom - 1
                     PROVE  new.slot[i % new.capacity] = i
            BY <1>3, <2>3 DEF NotOverfull, get_entry, capacity, buffer
        <3>1. i \in pt[p] .. bottom - 1
            BY <1>1
        <3>2. b.slot[i % b.capacity] = i
            BY <2>1 DEF Inv, NotOverfull, get_entry, capacity, buffer
        <3> QED BY <2>2, <3>1, <3>2
    <2>7. Room'
        <3>1. \A q \in Pusher : ppc[q] \in {"grow", "set", "publish"} => q = p
            BY <1>1 DEF Inv, Locked
        <3>2. capacity(buffer)' = new.capacity
            BY <2>3 DEF capacity, buffer
        <3> QED BY <1>1, <1>3, <2>4, <3>1, <3>2 DEF Inv, TypeOK, Room
    <2>8. Reads'
        BY <1>3, <2>3 DEF Inv, TypeOK, Reads, get_entry, capacity
    <2> QED BY <1>1, <1>4, <2>3, <2>5, <2>6, <2>7, <2>8 DEF Inv, Buffers
<1> QED BY <1>5, <1>6

(* Writing: the slot of the new task is not the slot of one in the queue.  *)
LEMMA SetStep ==
    ASSUME Inv, NEW p \in Pusher, PushSet(p)
    PROVE  Inv'
<1>1. /\ bottom \in Nat /\ pt[p] \in Nat /\ pt[p] <= top /\ top \in Nat
      /\ ppc[p] = "set" /\ buffers \in Seq(Buffer) /\ Len(buffers) \in Nat \ {0}
      /\ buffers[Len(buffers)] \in Buffer /\ live \subseteq Index
      /\ bottom \in Index /\ top <= bottom
    BY DEF Inv, PushSet, TypeOK, Buffers, Room, Index
<1>2. PICK b \in Buffer : b = buffers[Len(buffers)]
    BY <1>1
<1>3. PICK c \in Nat \ {0} : c = b.capacity
    BY BufferFields
<1>4. bottom - pt[p] < c /\ bottom - top <= c /\ bottom < MaxTasks
    BY <1>1, <1>2, <1>3 DEF Inv, Room, buffer, capacity
<1>5. /\ UNCHANGED <<top, bottom, mutex, stopped, pt, pc, t, buf, ptr, spc, taken>>
      /\ ppc' = [ppc EXCEPT ![p] = "publish"]
      /\ live' = live \cup {bottom}
    BY DEF PushSet, PGoto, pop
<1>6. PICK new \in Buffer :
         /\ buffers' = [buffers EXCEPT ![Len(buffers)] = new]
         /\ new.capacity = c
         /\ new.slot[bottom % c] = bottom
         /\ \A j \in Nat : j % c # bottom % c => new.slot[j % c] = b.slot[j % c]
    <2>1. buffers' = [buffers EXCEPT ![Len(buffers)] = set_entry(b, bottom, bottom)]
        BY <1>1, <1>2 DEF PushSet, buffer
    <2>2. bottom \in Value
        BY <1>1 DEF Value
    <2> DEFINE e == set_entry(b, bottom, bottom)
    <2>3. /\ e \in Buffer /\ e.capacity = c /\ e.slot[bottom % c] = bottom
          /\ \A j \in Nat : j % c # bottom % c => e.slot[j % c] = b.slot[j % c]
        <3>1. /\ e \in Buffer /\ e.capacity = b.capacity
              /\ e.slot[bottom % b.capacity] = bottom
              /\ \A j \in Nat : j % b.capacity # bottom % b.capacity
                    => e.slot[j % b.capacity] = b.slot[j % b.capacity]
            BY <1>1, <2>2, SetEntry
        <3> HIDE DEF e
        <3> QED BY <1>3, <3>1
    <2> HIDE DEF e
    <2> QED BY <2>1, <2>3 DEF e
<1>7. /\ buffers' \in Seq(Buffer) /\ Len(buffers') = Len(buffers)
      /\ buffers'[Len(buffers)] = new
      /\ \A g \in 1 .. Len(buffers) : g # Len(buffers) => buffers'[g] = buffers[g]
    BY <1>1, <1>6
<1>8. TypeOK' /\ Buffers'
    <2>1. ASSUME NEW g \in 1 .. Len(buffers')
          PROVE  /\ buffers'[g].capacity \in Nat \ {0}
                 /\ buffers'[g].slot \in
                       [0 .. buffers'[g].capacity - 1 -> Index \cup {Garbage}]
        BY <1>7, BufferFields DEF Value
    <2> QED BY <1>1, <1>5, <1>7, <2>1 DEF Inv, TypeOK, Buffers, capacity
<1>9. \A q \in Pusher : ppc[q] \in {"grow", "set", "publish"} => q = p
    BY <1>1 DEF Inv, Locked
<1>10. Locked' /\ Counted'
    BY <1>1, <1>5 DEF Inv, TypeOK, Locked, Counted
<1>11. ASSUME NEW i \in Nat, top <= i, i < bottom
       PROVE  new.slot[i % c] = b.slot[i % c]
    BY <1>1, <1>4, <1>6, <1>11, ModDiff
<1>12. NotOverfull'
    BY <1>1, <1>2, <1>3, <1>5, <1>6, <1>7, <1>11
       DEF Inv, NotOverfull, get_entry, capacity, buffer
<1>13. Room'
    <2>1. capacity(buffer)' = c /\ get_entry(buffer, bottom)' = bottom
        BY <1>1, <1>5, <1>6, <1>7 DEF capacity, buffer, get_entry
    <2> QED BY <1>1, <1>4, <1>5, <1>9, <2>1 DEF Inv, TypeOK, Room
<1>14. Reads'
    <2>1. ASSUME NEW w \in Popper, pc[w] = "entry", t[w] = top
          PROVE  get_entry(buf[w], t[w])' = t[w]
        <3>1. t[w] \in Nat /\ t[w] < bottom /\ buf[w] \in 1 .. Len(buffers)
              /\ get_entry(buf[w], t[w]) = t[w]
            BY <2>1 DEF Inv, TypeOK, Reads, Index
        <3> QED BY <1>1, <1>2, <1>3, <1>5, <1>6, <1>7, <1>11, <2>1, <3>1
                DEF get_entry, capacity
    <2> QED BY <1>5, <2>1 DEF Inv, Reads
<1>15. Objects'
    BY <1>1, <1>5, <1>9 DEF Inv, TypeOK, Objects
<1> QED BY <1>8, <1>10, <1>12, <1>13, <1>14, <1>15 DEF Inv
(* Winning: only the thread that read the top_ of now may advance it, and  *)
(* what it read then is the task.                                          *)
LEMMA CasStep ==
    ASSUME Inv, NEW w \in Popper, PopCas(w)
    PROVE  Inv'
<1>1. /\ UNCHANGED <<bottom, buffers, mutex, stopped, live, ppc, pt, t, buf, ptr, spc>>
      /\ pc[w] = "cas" /\ top \in Nat
    BY DEF PopCas, push, Inv, TypeOK
<1>2. CASE top # t[w]
    <2>1. UNCHANGED <<top, taken>> /\ pc' = [pc EXCEPT ![w] = "idle"]
        BY <1>2 DEF PopCas, Goto
    <2> QED BY <1>1, <2>1
            DEF Inv, TypeOK, Buffers, Locked, Room, NotOverfull, Reads, Objects,
                Counted, get_entry, capacity, buffer
<1>3. CASE top = t[w]
    <2>1. /\ top' = top + 1 /\ taken' = Append(taken, ptr[w])
          /\ pc' = [pc EXCEPT ![w] = "won"]
        BY <1>3 DEF PopCas, Goto
    <2>2. ptr[w] \in Index \cup {Garbage} /\ taken \in Seq(Index \cup {Garbage})
        BY DEF Inv, TypeOK
    <2>3. taken' \in Seq(Index \cup {Garbage}) /\ Len(taken') = Len(taken) + 1
        BY <2>1, <2>2
    <2>4. TypeOK' /\ Buffers' /\ Locked' /\ Counted'
        BY <1>1, <2>1, <2>3 DEF Inv, TypeOK, Buffers, Locked, Counted, capacity
    <2>5. Room' /\ NotOverfull'
        <3>1. bottom \in Nat /\ top < bottom
            BY <1>1, <1>3 DEF Inv, TypeOK, Reads
        <3>2. capacity(buffer)' = capacity(buffer) /\ capacity(buffer) \in Nat
            BY <1>1 DEF Inv, TypeOK, Buffers, capacity, buffer
        <3>3. Room'
            BY <1>1, <2>1, <3>1, <3>2 DEF Inv, TypeOK, Room, Index, get_entry, buffer, capacity
        <3>4. NotOverfull'
            BY <1>1, <2>1, <3>1 DEF Inv, NotOverfull, get_entry, capacity, buffer
        <3> QED BY <3>3, <3>4
    <2>6. Reads'
        BY <1>1, <1>3, <2>1 DEF Inv, TypeOK, Reads, Index, get_entry, capacity
    <2>7. Objects'
        <3>1. spc # "destroyed"
            BY <1>1 DEF Inv, Objects
        <3>2. \A i \in Nat :
                 (\E v \in Popper : pc'[v] = "won" /\ t[v] = i)
                   <=> i = top \/ \E v \in Popper : pc[v] = "won" /\ t[v] = i
            BY <1>1, <1>3, <2>1 DEF Inv, TypeOK
        <3>3. bottom \in Nat /\ top < bottom
            BY <1>1, <1>3 DEF Inv, TypeOK, Reads
        <3> QED BY <1>1, <2>1, <3>1, <3>2, <3>3 DEF Inv, Objects, Index
    <2> QED BY <2>4, <2>5, <2>6, <2>7 DEF Inv
<1> QED BY <1>2, <1>3

(* The destructor frees exactly the tasks that are left.                   *)
LEMMA DestroyStep ==
    ASSUME Inv, Destroy
    PROVE  Inv'
<1>1. /\ UNCHANGED <<top, bottom, buffers, mutex, stopped, ppc, pt, pc, t, buf, ptr, taken>>
      /\ spc = "join" /\ spc' = "destroyed"
      /\ \A w \in Popper : pc[w] = "left"
      /\ \A p \in Pusher : ppc[p] = "idle"
    BY DEF Destroy, push, pop
<1>2. live' = {}
    <2>1. live = top .. bottom - 1
        <3>1. live \subseteq Nat /\ top \in Nat /\ bottom \in Nat
            BY DEF Inv, TypeOK, Index
        <3>2. \A i \in Nat : i \in live <=> top <= i /\ i < bottom
            BY <1>1 DEF Inv, Objects, Index
        <3>3. \A i : i \in live <=> i \in top .. bottom - 1
            <4>1. ASSUME NEW i \in live PROVE i \in top .. bottom - 1
                BY <3>1, <3>2
            <4>2. ASSUME NEW i \in top .. bottom - 1 PROVE i \in live
                BY <3>1, <3>2
            <4> QED BY <4>1, <4>2, Zenon
        <3> QED BY <3>3, Zenon
    <2>2. {get_entry(buffer, i) : i \in top .. bottom - 1} = top .. bottom - 1
        BY DEF Inv, NotOverfull
    <2>3. live' = live \ {get_entry(buffer, i) : i \in top .. bottom - 1}
        BY DEF Destroy
    <2> QED BY <2>1, <2>2, <2>3
<1>3. TypeOK' /\ Buffers' /\ Locked' /\ Objects' /\ Counted'
    BY <1>1, <1>2 DEF Inv, TypeOK, Buffers, Locked, Objects, Counted, capacity
<1>4. Room' /\ NotOverfull' /\ Reads'
    BY <1>1 DEF Inv, Room, NotOverfull, Reads, get_entry, capacity, buffer
<1> QED BY <1>3, <1>4 DEF Inv

(* try_pop reads an entry through the buffer_ it has loaded, which may     *)
(* since have been replaced.                                               *)
LEMMA EntryStep ==
    ASSUME Inv, NEW w \in Popper, PopEntry(w)
    PROVE  Inv'
<1>1. /\ UNCHANGED <<top, bottom, buffers, mutex, stopped, live, ppc, pt, t, buf, spc, taken>>
      /\ pc[w] = "entry" /\ pc' = [pc EXCEPT ![w] = "cas"]
      /\ ptr' = [ptr EXCEPT ![w] = get_entry(buf[w], t[w])]
    BY DEF PopEntry, shared, push, Goto
<1>2. get_entry(buf[w], t[w]) \in Index \cup {Garbage}
    <2>1. buffers[buf[w]] \in Buffer /\ t[w] \in Nat
        BY DEF Inv, TypeOK, Buffers, Index
    <2> QED BY <2>1, GetEntry DEF get_entry, capacity, Value
<1>3. TypeOK' /\ Buffers' /\ Locked' /\ Objects' /\ Counted'
    BY <1>1, <1>2 DEF Inv, TypeOK, Buffers, Locked, Objects, Counted, capacity
<1>4. Room' /\ NotOverfull'
    BY <1>1 DEF Inv, Room, NotOverfull, get_entry, capacity, buffer
<1>5. Reads'
    BY <1>1, <1>2 DEF Inv, TypeOK, Reads, get_entry, capacity
<1> QED BY <1>3, <1>4, <1>5 DEF Inv

(* The predicate of wait_pop's condition variable reads only stopped_ and  *)
(* the indices, under the mutex.                                           *)
LEMMA WaitCheckStep ==
    ASSUME Inv, WaitCheck
    PROVE  Inv'
<1>1. /\ UNCHANGED <<top, bottom, buffers, stopped, live, ppc, pt, t, buf, ptr, spc, taken>>
      /\ pc[Owner] = "predicate"
      /\ \/ pc' = [pc EXCEPT ![Owner] = "ready"] /\ mutex' = "none"
         \/ pc' = [pc EXCEPT ![Owner] = "block"] /\ mutex' = mutex
    BY DEF WaitCheck, push, Goto
<1>2. TypeOK' /\ Buffers' /\ Counted'
    BY <1>1, QueueAssumption DEF Inv, TypeOK, Buffers, Counted, capacity
<1>3. Locked'
    BY <1>1, QueueAssumption DEF Inv, TypeOK, Locked
<1>4. Room' /\ NotOverfull' /\ Reads' /\ Objects'
    BY <1>1 DEF Inv, TypeOK, Room, NotOverfull, Reads, Objects, get_entry, capacity, buffer
<1> QED BY <1>2, <1>3, <1>4 DEF Inv
(* Every step keeps the invariant. *)
LEMMA InvStep ==
    ASSUME Inv, [Next]_vars
    PROVE  Inv'
<1> USE QueueAssumption
<1>1. ASSUME NEW p \in Pusher, PushLock(p) \/ PushStep(p)
      PROVE  Inv'
    <2>1. CASE PushLock(p)
        <3>1. TypeOK' /\ Buffers' /\ Locked' /\ Counted'
            BY <2>1 DEF PushLock, PGoto, pop,
                   Inv, TypeOK, Buffers, Locked, Room, Counted, Index, capacity, buffer
        <3>2. Room' /\ NotOverfull'
            BY <2>1 DEF PushLock, PGoto, pop,
                   Inv, TypeOK, Locked, Room, NotOverfull, Index, get_entry, capacity, buffer
        <3>3. Reads'
            BY <2>1 DEF PushLock, PGoto, pop,
                   Inv, TypeOK, Reads, Index, get_entry, capacity
        <3>4. Objects'
            BY <2>1 DEF PushLock, PGoto, pop,
                   Inv, TypeOK, Locked, Objects, Index
        <3> QED BY <3>1, <3>2, <3>3, <3>4 DEF Inv
    <2>2. CASE PushPublish(p)
        <3>1. /\ UNCHANGED <<top, buffers, stopped, live, pt, pc, t, buf, ptr, spc, taken>>
              /\ ppc[p] = "publish" /\ ppc' = [ppc EXCEPT ![p] = "notify"]
              /\ bottom' = bottom + 1 /\ mutex' = "none"
              /\ top \in Nat /\ bottom \in Nat /\ bottom < MaxTasks
            BY <2>2 DEF PushPublish, PGoto, pop, Inv, TypeOK, Room
        <3>2. \A q \in Pusher : ppc[q] \in {"grow", "set", "publish"} => q = p
            BY <3>1 DEF Inv, Locked
        <3>3. TypeOK' /\ Buffers' /\ Locked' /\ Counted'
            BY <3>1 DEF Inv, TypeOK, Buffers, Locked, Counted, capacity
        <3>4. NotOverfull' /\ Reads'
            <4>1. get_entry(buffer, bottom) = bottom
                BY <3>1 DEF Inv, Room
            <4>2. \A i \in top .. bottom' - 1 : i \in top .. bottom - 1 \/ i = bottom
                BY <3>1
            <4>3. NotOverfull'
                BY <3>1, <4>1, <4>2 DEF Inv, NotOverfull, get_entry, capacity, buffer
            <4>4. Reads'
                BY <3>1 DEF Inv, TypeOK, Reads, Index, get_entry, capacity
            <4> QED BY <4>3, <4>4
        <3>5. Room'
            <4>1. \A q \in Pusher : ppc'[q] \notin {"grow", "set", "publish"}
                BY <3>1, <3>2 DEF Inv, TypeOK
            <4>2. pt[p] \in Nat /\ pt[p] <= top /\ bottom - pt[p] < capacity(buffer)
                  /\ capacity(buffer) \in Nat /\ top <= bottom
                BY <3>1 DEF Inv, TypeOK, Buffers, Room, Index, buffer
            <4> QED BY <3>1, <4>1, <4>2 DEF Room, capacity, buffer
        <3>6. Objects'
            <4>1. spc # "destroyed"
                BY <3>1 DEF Inv, Objects
            <4>2. \A q \in Pusher : ppc'[q] # "publish"
                BY <3>1, <3>2 DEF Inv, TypeOK
            <4>3. \A i \in Index : top <= i /\ i < bottom'
                                     <=> (top <= i /\ i < bottom) \/ i = bottom
                BY <3>1 DEF Inv, Room, Index
            <4> QED BY <3>1, <4>1, <4>2, <4>3 DEF Inv, Objects
        <3> QED BY <3>3, <3>4, <3>5, <3>6 DEF Inv
    <2>3. CASE PushNotify(p)
        <3>1. TypeOK' /\ Buffers' /\ Locked' /\ Counted'
            BY <2>3 DEF PushNotify, PGoto, notify_one,
                   Inv, TypeOK, Buffers, Locked, Room, Counted, Index, capacity, buffer
        <3>2. Room' /\ NotOverfull'
            BY <2>3 DEF PushNotify, PGoto, notify_one,
                   Inv, TypeOK, Locked, Room, NotOverfull, Index, get_entry, capacity, buffer
        <3>3. Reads'
            BY <2>3 DEF PushNotify, PGoto, notify_one,
                   Inv, TypeOK, Reads, Index, get_entry, capacity
        <3>4. Objects'
            BY <2>3 DEF PushNotify, PGoto, notify_one,
                   Inv, TypeOK, Locked, Objects, Index
        <3> QED BY <3>1, <3>2, <3>3, <3>4 DEF Inv
    <2> QED BY <1>1, <2>1, <2>2, <2>3, GrowStep, SetStep DEF PushStep
<1>2. ASSUME NEW w \in Popper, PopTop(w) \/ TryPop(w) \/ Leave(w)
      PROVE  Inv'
    <2>1. CASE PopTop(w)
        <3>1. TypeOK' /\ Buffers' /\ Locked' /\ Counted'
            BY <2>1 DEF PopTop, Goto, shared, push,
                   Inv, TypeOK, Buffers, Locked, Room, Counted, Index, capacity, buffer
        <3>2. Room' /\ NotOverfull'
            BY <2>1 DEF PopTop, Goto, shared, push,
                   Inv, TypeOK, Locked, Room, NotOverfull, Index, get_entry, capacity, buffer
        <3>3. Reads'
            BY <2>1 DEF PopTop, Goto, shared, push,
                   Inv, TypeOK, Room, NotOverfull, Reads, Index, get_entry, capacity, buffer
        <3>4. Objects'
            BY <2>1 DEF PopTop, Goto, shared, push,
                   Inv, TypeOK, Locked, Reads, Objects, Index
        <3> QED BY <3>1, <3>2, <3>3, <3>4 DEF Inv
    <2>2. CASE PopBottom(w)
        <3>1. TypeOK' /\ Buffers' /\ Locked' /\ Counted'
            BY <2>2 DEF PopBottom, Goto, shared, push,
                   Inv, TypeOK, Buffers, Locked, Room, Counted, Index, capacity, buffer
        <3>2. Room' /\ NotOverfull'
            BY <2>2 DEF PopBottom, Goto, shared, push,
                   Inv, TypeOK, Locked, Room, NotOverfull, Index, get_entry, capacity, buffer
        <3>3. Reads'
            BY <2>2 DEF PopBottom, Goto, shared, push,
                   Inv, TypeOK, Room, NotOverfull, Reads, Index, get_entry, capacity, buffer
        <3>4. Objects'
            BY <2>2 DEF PopBottom, Goto, shared, push,
                   Inv, TypeOK, Locked, Reads, Objects, Index
        <3> QED BY <3>1, <3>2, <3>3, <3>4 DEF Inv
    <2>3. CASE PopBuffer(w)
        <3>0. /\ UNCHANGED <<top, bottom, buffers, mutex, stopped, live, ppc, pt, t, ptr, spc, taken>>
              /\ pc[w] = "buffer" /\ pc' = [pc EXCEPT ![w] = "entry"]
              /\ buf' = [buf EXCEPT ![w] = Len(buffers)]
            BY <2>3 DEF PopBuffer, Goto, shared, push, buffer
        <3>a. Len(buffers) \in 1 .. Len(buffers)
            BY DEF Inv, Buffers
        <3>b. TypeOK'
            BY <3>0, <3>a DEF Inv, TypeOK, capacity
        <3>1. TypeOK' /\ Buffers' /\ Locked' /\ Counted'
            BY <3>0, <3>b DEF Inv, TypeOK, Buffers, Locked, Counted
        <3>2. Room' /\ NotOverfull'
            BY <2>3 DEF PopBuffer, Goto, shared, push,
                   Inv, TypeOK, Locked, Room, NotOverfull, Index, get_entry, capacity, buffer
        <3>3. Reads'
            BY <2>3 DEF PopBuffer, Goto, shared, push,
                   Inv, TypeOK, Room, NotOverfull, Reads, Index, get_entry, capacity, buffer
        <3>4. Objects'
            BY <2>3 DEF PopBuffer, Goto, shared, push,
                   Inv, TypeOK, Locked, Reads, Objects, Index
        <3> QED BY <3>1, <3>2, <3>3, <3>4 DEF Inv
    <2>4. CASE PopTake(w)
        <3>1. TypeOK' /\ Buffers' /\ Locked' /\ Counted'
            BY <2>4 DEF PopTake, Goto, push,
                   Inv, TypeOK, Buffers, Locked, Room, Counted, Index, capacity, buffer
        <3>2. Room' /\ NotOverfull'
            BY <2>4 DEF PopTake, Goto, push,
                   Inv, TypeOK, Locked, Room, NotOverfull, Index, get_entry, capacity, buffer
        <3>3. Reads'
            BY <2>4 DEF PopTake, Goto, push,
                   Inv, TypeOK, Room, NotOverfull, Reads, Index, get_entry, capacity, buffer
        <3>4. Objects'
            BY <2>4 DEF PopTake, Goto, push,
                   Inv, TypeOK, Locked, Reads, Objects, Index
        <3> QED BY <3>1, <3>2, <3>3, <3>4 DEF Inv
    <2>5. CASE Leave(w)
        <3>1. TypeOK' /\ Buffers' /\ Locked' /\ Counted'
            BY <2>5 DEF Leave, Goto, shared, push,
                   Inv, TypeOK, Buffers, Locked, Room, Counted, Index, capacity, buffer
        <3>2. Room' /\ NotOverfull'
            BY <2>5 DEF Leave, Goto, shared, push,
                   Inv, TypeOK, Locked, Room, NotOverfull, Index, get_entry, capacity, buffer
        <3>3. Reads'
            BY <2>5 DEF Leave, Goto, shared, push,
                   Inv, TypeOK, Reads, Index, get_entry, capacity
        <3>4. Objects'
            BY <2>5 DEF Leave, Goto, shared, push,
                   Inv, TypeOK, Locked, Objects, Index
        <3> QED BY <3>1, <3>2, <3>3, <3>4 DEF Inv
    <2> QED BY <1>2, <2>1, <2>2, <2>3, <2>4, <2>5, EntryStep, CasStep DEF TryPop
<1>3. CASE Wait \/ SpuriousWakeup
    <2>1. CASE WaitLock
        <3>1. TypeOK' /\ Buffers' /\ Locked' /\ Counted'
            BY <2>1 DEF WaitLock, Goto, push,
                   Inv, TypeOK, Buffers, Locked, Room, Counted, Index, capacity, buffer
        <3>2. Room' /\ NotOverfull'
            BY <2>1 DEF WaitLock, Goto, push,
                   Inv, TypeOK, Locked, Room, NotOverfull, Index, get_entry, capacity, buffer
        <3>3. Reads'
            BY <2>1 DEF WaitLock, Goto, push,
                   Inv, TypeOK, Reads, Index, get_entry, capacity
        <3>4. Objects'
            <4>1. /\ UNCHANGED <<top, bottom, live, ppc, t, spc>>
                  /\ pc[Owner] \in {"idle", "woken"} /\ spc # "destroyed"
                  /\ pc' = [pc EXCEPT ![Owner] = "predicate"]
                BY <2>1 DEF WaitLock, Goto, push
            <4>2. \A v \in Popper : pc'[v] = "won" <=> pc[v] = "won"
                BY <4>1 DEF Inv, TypeOK
            <4> QED BY <4>1, <4>2 DEF Inv, Objects
        <3> QED BY <3>1, <3>2, <3>3, <3>4 DEF Inv
    <2>2. CASE WaitBlock
        <3>1. TypeOK' /\ Buffers' /\ Locked' /\ Counted'
            BY <2>2 DEF WaitBlock, Goto, push,
                   Inv, TypeOK, Buffers, Locked, Room, Counted, Index, capacity, buffer
        <3>2. Room' /\ NotOverfull'
            BY <2>2 DEF WaitBlock, Goto, push,
                   Inv, TypeOK, Locked, Room, NotOverfull, Index, get_entry, capacity, buffer
        <3>3. Reads'
            BY <2>2 DEF WaitBlock, Goto, push,
                   Inv, TypeOK, Reads, Index, get_entry, capacity
        <3>4. Objects'
            BY <2>2 DEF WaitBlock, Goto, push,
                   Inv, TypeOK, Locked, Objects, Index
        <3> QED BY <3>1, <3>2, <3>3, <3>4 DEF Inv
    <2>3. CASE SpuriousWakeup
        <3>1. TypeOK' /\ Buffers' /\ Locked' /\ Counted'
            BY <2>3 DEF SpuriousWakeup, Goto, shared, push,
                   Inv, TypeOK, Buffers, Locked, Room, Counted, Index, capacity, buffer
        <3>2. Room' /\ NotOverfull'
            BY <2>3 DEF SpuriousWakeup, Goto, shared, push,
                   Inv, TypeOK, Locked, Room, NotOverfull, Index, get_entry, capacity, buffer
        <3>3. Reads'
            BY <2>3 DEF SpuriousWakeup, Goto, shared, push,
                   Inv, TypeOK, Reads, Index, get_entry, capacity
        <3>4. Objects'
            BY <2>3 DEF SpuriousWakeup, Goto, shared, push,
                   Inv, TypeOK, Locked, Objects, Index
        <3> QED BY <3>1, <3>2, <3>3, <3>4 DEF Inv
    <2> QED BY <1>3, <2>1, <2>2, <2>3, WaitCheckStep DEF Wait
<1>4. CASE Stop
    BY <1>4 DEF Stop, push, pop,
            Inv, TypeOK, Buffers, Locked, Room, NotOverfull, Reads, Objects,
            Counted, Index, get_entry, capacity, buffer
<1>5. CASE StopNotify
    <2>1. TypeOK' /\ Buffers' /\ Locked' /\ Counted' /\ Objects'
        BY <1>5 DEF StopNotify, notify_one, push,
               Inv, TypeOK, Buffers, Locked, Counted, Objects, capacity
    <2>2. Room' /\ NotOverfull' /\ Reads'
        BY <1>5 DEF StopNotify, notify_one, push,
               Inv, TypeOK, Room, NotOverfull, Reads, get_entry, capacity, buffer
    <2> QED BY <2>1, <2>2 DEF Inv
<1>6. CASE UNCHANGED vars
    BY <1>6 DEF vars, push, pop,
            Inv, TypeOK, Buffers, Locked, Room, NotOverfull, Reads, Objects,
            Counted, Index, get_entry, capacity, buffer
<1> QED BY <1>1, <1>2, <1>3, <1>4, <1>5, <1>6, DestroyStep DEF Next
-----------------------------------------------------------------------------
(* The constructor establishes the invariant: one buffer and nothing in    *)
(* it.                                                                     *)
LEMMA InvInit == Init => Inv
<1> SUFFICES ASSUME Init PROVE Inv
    OBVIOUS
<1>1. PICK f \in [0 .. Capacity - 1 -> Value] :
          buffers = <<[capacity |-> Capacity, slot |-> f]>>
    BY DEF Init, Value
<1>2. [capacity |-> Capacity, slot |-> f] \in Buffer
    BY QueueAssumption, BufferIntro
<1>3. /\ buffers \in Seq(Buffer) /\ Len(buffers) = 1
      /\ buffers[1].capacity = Capacity /\ buffers[1].slot = f
    BY <1>1, <1>2
<1>4. TypeOK /\ Buffers
    <2>1. ASSUME NEW g \in 1 .. Len(buffers)
          PROVE  /\ capacity(g) \in Nat \ {0}
                 /\ buffers[g].slot \in [0 .. capacity(g) - 1 -> Index \cup {Garbage}]
        BY <1>3, QueueAssumption DEF capacity, Value
    <2>2. taken \in Seq(Index \cup {Garbage})
        BY DEF Init
    <2>3. top \in Nat /\ bottom \in 0 .. MaxTasks /\ mutex \in Pusher \cup {Owner, "none"}
          /\ live \subseteq Index /\ spc \in {"stop", "notify", "join", "destroyed"}
        BY QueueAssumption DEF Init
    <2>s. stopped \in BOOLEAN
        BY Zenon DEF Init
    <2>4. /\ ppc \in [Pusher -> {"idle", "grow", "set", "publish", "notify"}]
          /\ pt \in [Pusher -> Index] /\ t \in [Popper -> Index]
          /\ buf \in [Popper -> 1 .. Len(buffers)]
          /\ ptr \in [Popper -> Index \cup {Garbage}]
        BY <1>3 DEF Init, Index
    <2>5. pc \in [Popper -> {"idle", "bottom", "buffer", "entry", "cas", "won", "ready",
                             "predicate", "block", "waiting", "woken", "left"}]
        BY DEF Init
    <2> QED BY <1>3, <2>1, <2>2, <2>3, <2>4, <2>5, <2>s DEF TypeOK, Buffers
<1>5. Locked
    BY QueueAssumption DEF Init, Locked
<1>6. Room /\ NotOverfull
    BY <1>3, QueueAssumption DEF Init, Room, NotOverfull, capacity, buffer
<1>7. Reads /\ Objects /\ Counted
    BY DEF Init, Reads, Objects, Counted, Index
<1> QED BY <1>4, <1>5, <1>6, <1>7 DEF Inv

(* What Inv says of the ring, its buffers and the tasks in it holds in     *)
(* every state of the queue.                                               *)
THEOREM QueueInvariant == Spec => []Inv
BY InvInit, InvStep, PTL DEF Spec

(* The variables of the queue keep their types: slots hold indices or what *)
(* new T[] left there, and every buffer_ that a thread has read is one of  *)
(* those that exist.                                                       *)
THEOREM QueueTypes == Spec => []TypeOK
<1>1. Inv => TypeOK
    BY DEF Inv
<1> QED BY <1>1, QueueInvariant, PTL

(* A thread that wins the race in try_pop (quickpool.h:507) holds the task *)
(* of the index it won, not freed and nobody else's.                       *)
THEOREM WinnerTakesItsTask == Spec => []TakesItsTask
<1>1. Inv => TakesItsTask
    <2> SUFFICES ASSUME Inv, NEW w \in Popper, pc[w] = "won"
                 PROVE  /\ ptr[w] = t[w] /\ ptr[w] \in live
                        /\ \A v \in Popper \ {w} : pc[v] = "won" => ptr[v] # ptr[w]
        BY DEF TakesItsTask
    <2>1. t[w] \in Index /\ spc # "destroyed"
        BY DEF Inv, TypeOK, Objects
    <2> QED BY <2>1 DEF Inv, Reads, Objects
<1> QED BY <1>1, QueueInvariant, PTL

(* Neither the growth of the ring nor a push that has read an old top_     *)
(* loses a task that is in the queue.                                      *)
THEOREM RingKeepsTasks == Spec => []NotOverfull
<1>1. Inv => NotOverfull
    BY DEF Inv
<1> QED BY <1>1, QueueInvariant, PTL

(* After ~TaskQueue no Task object is left (quickpool.h:450).              *)
THEOREM DestructorFreesAll == Spec => []AllFreed
<1>1. Inv => AllFreed
    BY DEF Inv, Objects, AllFreed
<1> QED BY <1>1, QueueInvariant, PTL
-----------------------------------------------------------------------------
(* The refinement: the indices from top_ to bottom_ - 1 are the abstract   *)
(* queue.  Only the publication of bottom_ and a compare-and-swap that     *)
(* succeeds are steps of it.                                               *)

Waiting(a, b) == [k \in 1 .. b - a |-> a + k - 1]

(* The indices from top to bottom are the abstract queue: push appends     *)
(* bottom, a pop removes top.                                              *)
LEMMA WaitingSeq ==
    ASSUME NEW a \in Nat, NEW b \in Nat, a <= b
    PROVE  /\ Waiting(a, b) \in Seq(Nat) /\ Len(Waiting(a, b)) = b - a
           /\ Append(Waiting(a, b), b) = Waiting(a, b + 1)
           /\ a < b => /\ Waiting(a, b) # << >>
                       /\ Head(Waiting(a, b)) = a
                       /\ Tail(Waiting(a, b)) = Waiting(a + 1, b)
<1>1. PICK n \in Nat : n = b - a
    OBVIOUS
<1>2. PICK s : s = Waiting(a, b)
    OBVIOUS
<1>3. s = [k \in 1 .. n |-> a + k - 1] /\ s \in Seq(Nat) /\ Len(s) = n
    BY <1>1, <1>2 DEF Waiting
<1>4. Append(s, b) = Waiting(a, b + 1)
    <2>1. Append(s, b) = [k \in 1 .. n + 1 |-> a + k - 1]
        BY <1>1, <1>3
    <2> QED BY <1>1, <2>1 DEF Waiting
<1>5. ASSUME a < b
      PROVE  s # << >> /\ Head(s) = a /\ Tail(s) = Waiting(a + 1, b)
    <2>1. n >= 1 /\ s # << >> /\ Head(s) = a
        BY <1>1, <1>3, <1>5
    <2>2. Tail(s) = [k \in 1 .. n - 1 |-> a + k]
        BY <1>1, <1>3, <2>1
    <2>3. Waiting(a + 1, b) = [k \in 1 .. n - 1 |-> a + k]
        BY <1>1 DEF Waiting
    <2> QED BY <2>1, <2>2, <2>3
<1> QED BY <1>1, <1>2, <1>3, <1>4, <1>5

(* Every step of the ring is a step of TaskFifo or leaves its variables    *)
(* alone.                                                                  *)
LEMMA FifoStep ==
    ASSUME Inv, [Next]_vars
    PROVE  [Fifo!Next]_(Fifo!vars)
<1>1. top \in Nat /\ bottom \in Nat /\ top <= bottom /\ Len(taken) = top
    BY DEF Inv, TypeOK, Room, Counted
<1>2. ASSUME NEW p \in Pusher, PushPublish(p)
      PROVE  Fifo!Push
    <2>1. bottom' = bottom + 1 /\ top' = top /\ taken' = taken
        BY <1>2 DEF PushPublish
    <2>2. Waiting(top, bottom)' = Append(Waiting(top, bottom), bottom)
        BY <1>1, <2>1, WaitingSeq DEF Waiting
    <2>3. Len(taken) + Len(Waiting(top, bottom)) = bottom
        <3>1. Len(Waiting(top, bottom)) = bottom - top
            BY <1>1, WaitingSeq
        <3> QED BY <1>1, <3>1
    <2> QED BY <2>1, <2>2, <2>3 DEF Fifo!Push, Waiting
<1>3. ASSUME NEW w \in Popper, PopCas(w), top = t[w]
      PROVE  Fifo!Pop
    <2>1. bottom' = bottom /\ top' = top + 1 /\ taken' = Append(taken, ptr[w])
        BY <1>3 DEF PopCas
    <2>2. ptr[w] = top /\ top < bottom
        BY <1>3 DEF Inv, Reads, PopCas
    <2>3. /\ Waiting(top, bottom)' = Tail(Waiting(top, bottom))
          /\ Waiting(top, bottom) # << >>
          /\ Head(Waiting(top, bottom)) = top
        BY <1>1, <2>1, <2>2, WaitingSeq DEF Waiting
    <2> QED BY <2>1, <2>2, <2>3 DEF Fifo!Pop, Waiting
<1>4. ASSUME UNCHANGED <<top, bottom, taken>>
      PROVE  UNCHANGED Fifo!vars
    BY <1>4 DEF Fifo!vars
<1>5. ASSUME NEW p \in Pusher, PushLock(p) \/ PushStep(p)
      PROVE  [Fifo!Next]_(Fifo!vars)
    BY <1>2, <1>4, <1>5
       DEF PushStep, PushLock, PushGrow, PushSet, PushNotify, Fifo!Next
<1>6. ASSUME NEW w \in Popper, PopTop(w) \/ TryPop(w) \/ Leave(w)
      PROVE  [Fifo!Next]_(Fifo!vars)
    <2>1. CASE PopCas(w) /\ top # t[w]
        BY <1>4, <2>1 DEF PopCas
    <2> QED BY <1>3, <1>4, <1>6, <2>1
            DEF TryPop, PopTop, PopBottom, PopBuffer, PopEntry, PopTake, Leave,
                shared, Fifo!Next
<1>7. ASSUME Wait \/ SpuriousWakeup \/ Stop \/ StopNotify \/ Destroy
      PROVE  [Fifo!Next]_(Fifo!vars)
    BY <1>4, <1>7 DEF Wait, WaitLock, WaitCheck, WaitBlock, SpuriousWakeup, Stop,
                      StopNotify, Destroy, shared
<1>8. ASSUME UNCHANGED vars
      PROVE  [Fifo!Next]_(Fifo!vars)
    BY <1>4, <1>8 DEF vars
<1> QED BY <1>5, <1>6, <1>7, <1>8 DEF Next

(* The queue hands out the tasks in the order in which they were pushed,   *)
(* each once, however pushes, steals and growth interleave.                *)
THEOREM QueueIsFifo == Spec => ImplementsFifo
<1>1. Init => Fifo!Init
    BY DEF Init, Fifo!Init
<1> QED BY <1>1, FifoStep, QueueInvariant, PTL DEF Spec, ImplementsFifo, Fifo!Spec
=============================================================================
