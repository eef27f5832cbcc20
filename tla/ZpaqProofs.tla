------------------------------ MODULE ZpaqProofs ----------------------------
(***************************************************************************)
(* What "zpaq add" guarantees.  Its threads, for any number of threads and *)
(* of blocks: the blocks are written in the order of the input, write()    *)
(* never meets a full queue, and when add() has joined its threads there   *)
(* is one size per block.  The archive, for any files and any number of    *)
(* updates, each of which may die at any step: it reads as the last        *)
(* version that was finished, and an older version stays what it was.      *)
(***************************************************************************)
EXTENDS ZpaqPipeline, ZpaqJournal, FiniteSetTheorems, SequenceTheorems, WellFoundedInduction, TLAPS

(* Buffers that write() has filled, end marks included, and buffers that   *)
(* the writeThread has given back.                                         *)
Placed == sent + (qsize - k)
Freed == IF wpc \in {"write", "free"} THEN Len(csize) - 1 ELSE Len(csize)

(* How far a buffer is behind the front; it holds what was put as number   *)
(* Freed + Dist(i) if it is in use.                                        *)
Dist(i) == (i - front) % qsize
InUse(i) == Dist(i) < Placed - Freed

(* A semaphore that only one thread waits for: when it is woken up, there  *)
(* is a unit to take.                                                      *)
Private(s, th) ==
    /\ s.asleep \subseteq {th} /\ s.woken \subseteq {th}
    /\ s.woken # {} => s.n > 0

(* The counters of the main thread, and the semaphore "empty", which       *)
(* counts the buffers that are not in use.                                 *)
Counters ==
    /\ k < qsize => sent = Blocks
    /\ mpc \in {"wait", "fill"} <=> k > 0
    /\ mpc = "done" => wpc = "ended"
    /\ Freed \in 0 .. sent
    /\ empty.n = qsize - (Placed - Freed) - (IF mpc = "fill" THEN 1 ELSE 0)
    /\ Private(empty, Main)

(* A buffer goes through its states together with its compressThread. *)
Stage(i) ==
    /\ q[i].state = "EMPTY" <=> ~InUse(i)
    /\ q[i].state = "FULL" <=> cpc[i] \in {"check", "ended"} \/ full[i].n = 1
    /\ q[i].state = "COMPRESSING" <=> cpc[i] \in {"slot", "compress", "compressed"}
    /\ full[i].n = 1 => cpc[i] = "full"
    /\ Private(full[i], i)
Stages == \A i \in Slot : Stage(i)

(* Its content is that of one block, or the end of the input. *)
Carries(i) ==
    InUse(i) =>
        /\ q[i].last <=> Freed + Dist(i) >= sent
        /\ cpc[i] = "ended" => q[i].last
        /\ ~q[i].last =>
              IF q[i].state = "FULL" \/ cpc[i] \in {"slot", "compress"}
              THEN q[i].in = Freed + Dist(i) + 1
              ELSE q[i].out = Freed + Dist(i) + 1
        /\ q[i].last => q[i].state = "FULL"
Contents == \A i \in Slot : Carries(i)

(* "compressed" is signalled when the buffer is ready for the writeThread, *)
(* which works on the one at the front.                                    *)
Ready(i) == q[i].state = "COMPRESSED" \/ cpc[i] = "ended"
Signalled(i) ==
    /\ compressed[i].n = 1 <=> Ready(i) /\ (wpc \in {"take", "ended"} => i # front)
    /\ Private(compressed[i], Writer)
    /\ q[i].state = "WRITING" <=> i = front /\ wpc \in {"write", "free"}
    /\ wpc = "take" /\ i = front => Ready(i)
    /\ wpc = "ended" /\ i = front => cpc[i] = "ended"
Written == \A i \in Slot : Signalled(i)

(* csize and the archive are those of the blocks in the order they came. *)
Order ==
    /\ csize = [i \in 1 .. Len(csize) |-> i]
    /\ archive = [i \in 1 .. Len(archive) |-> i]
    /\ Len(archive) = IF wpc = "write" THEN Len(csize) - 1 ELSE Len(csize)
    /\ wpc = "ended" => Len(csize) = Blocks

(* Each unit that "compressors" lacks is with a thread that compresses. *)
Compressing == {i \in Slot : cpc[i] \in {"compress", "compressed"}}
Units == compressors.n + Cardinality(Compressing) = Threads

Inv == TypeOK /\ Counters /\ Stages /\ Contents /\ Written /\ Order /\ Units

-----------------------------------------------------------------------------
(* A buffer of the queue: what TypeOK says of it. *)
CJ == [state : {"EMPTY", "FULL", "COMPRESSING", "COMPRESSED", "WRITING"},
       last : BOOLEAN, in : Data, out : Data]

-----------------------------------------------------------------------------
(* Positions in the ring. *)

(* There is at least one buffer. *)
LEMMA RingSize == qsize \in Nat \ {0} /\ qsize = 2 * Threads - 1
BY PipelineAssumption DEF qsize

(* A step back around the ring. *)
LEMMA Wraps ==
    ASSUME NEW c \in Nat \ {0}, NEW x \in Int
    PROVE  /\ x \in 0 .. c - 1 => x % c = x
           /\ x \in -c .. -1 => x % c = x + c
           /\ x = c => x % c = 0
<1>1. ASSUME x \in 0 .. c - 1 PROVE x % c = x
    BY <1>1
<1>2. ASSUME x \in -c .. -1 PROVE x % c = x + c
    BY <1>2
<1>3. ASSUME x = c PROVE x % c = 0
    BY <1>3
<1> QED BY <1>1, <1>2, <1>3

(* The distance from a front, without %. *)
LEMMA Distance ==
    ASSUME NEW f \in Slot, NEW i \in Slot
    PROVE  (i - f) % qsize = IF i >= f THEN i - f ELSE i - f + qsize
BY RingSize, Wraps DEF Slot

(* The next front. *)
LEMMA NextFront ==
    ASSUME NEW f \in Slot
    PROVE  (f + 1) % qsize = IF f = qsize - 1 THEN 0 ELSE f + 1
BY RingSize, Wraps DEF Slot

(* Every position behind the front is that of one buffer. *)
LEMMA Positions ==
    ASSUME front \in Slot
    PROVE  /\ \A i \in Slot : Dist(i) \in 0 .. qsize - 1
           /\ Dist(front) = 0
           /\ \A i, j \in Slot : Dist(i) = Dist(j) => i = j
           /\ \A d \in 0 .. qsize - 1 : \E i \in Slot : Dist(i) = d
<1>1. \A i \in Slot : Dist(i) = IF i >= front THEN i - front ELSE i - front + qsize
    BY Distance DEF Dist
<1>2. ASSUME NEW d \in 0 .. qsize - 1 PROVE \E i \in Slot : Dist(i) = d
  <2> DEFINE i == IF front + d < qsize THEN front + d ELSE front + d - qsize
  <2>1. i \in Slot
      BY RingSize DEF Slot
  <2>2. Dist(i) = d
      BY <2>1, <1>1, RingSize DEF Slot
  <2> QED BY <2>1, <2>2
<1>3. \A i \in Slot : Dist(i) \in 0 .. qsize - 1
    BY <1>1, RingSize DEF Slot
<1>4. Dist(front) = 0
    BY <1>1, RingSize DEF Slot
<1>5. \A i, j \in Slot : Dist(i) = Dist(j) => i = j
    BY <1>1, RingSize DEF Slot
<1> QED BY <1>2, <1>3, <1>4, <1>5

-----------------------------------------------------------------------------
(* Semaphores. *)

(* Semaphore::signal adds a unit, whom it wakes up or not. *)
LEMMA SignalAdds ==
    ASSUME NEW s \in Semaphore, NEW t \in signal(s)
    PROVE  t \in Semaphore /\ t.n = s.n + 1
<1>1. CASE s.asleep = {}
    BY <1>1 DEF signal, Semaphore
<1>2. CASE s.asleep # {}
    BY <1>2 DEF signal, Semaphore
<1> QED BY <1>1, <1>2

(* A signal to a semaphore with one waiter wakes that waiter. *)
LEMMA SignalPrivate ==
    ASSUME NEW s \in Semaphore, NEW th \in Thread, NEW t \in signal(s),
           Private(s, th), s.n >= 0
    PROVE  Private(t, th)
<1>1. CASE s.asleep = {}
    BY <1>1 DEF signal, Semaphore, Private
<1>2. CASE s.asleep # {}
    BY <1>2 DEF signal, Semaphore, Private
<1> QED BY <1>1, <1>2

(* Both halves of Semaphore::wait. *)
LEMMA SleepingKeeps ==
    ASSUME NEW s \in Semaphore, NEW th \in Thread
    PROVE  /\ Sleeping(s, th) \in Semaphore /\ Sleeping(s, th).n = s.n
           /\ Private(s, th) => Private(Sleeping(s, th), th)
BY DEF Sleeping, Semaphore, Private

(* A waiter that passes takes one unit; on a semaphore with one waiter     *)
(* there is one to take.                                                   *)
LEMMA PassedTakes ==
    ASSUME NEW s \in Semaphore, NEW th \in Thread, MayPass(s, th)
    PROVE  /\ Passed(s, th) \in Semaphore /\ Passed(s, th).n = s.n - 1
           /\ Private(s, th) /\ s.n >= 0 => s.n > 0 /\ Private(Passed(s, th), th)
<1>a. PICK w \in SUBSET Thread : w = s.woken \ {th}
    BY DEF Semaphore
<1>b. PICK m \in Int : m = s.n - 1
    BY DEF Semaphore
<1>c. Passed(s, th) = [s EXCEPT !.n = m, !.woken = w]
    BY <1>a, <1>b DEF Passed
<1>d. [s EXCEPT !.n = m, !.woken = w] \in Semaphore
    BY DEF Semaphore
<1>1. Passed(s, th) \in Semaphore /\ Passed(s, th).n = s.n - 1
    BY <1>b, <1>c, <1>d DEF Semaphore
<1>2. Passed(s, th).asleep = s.asleep /\ Passed(s, th).woken = s.woken \ {th}
    BY <1>a, <1>c DEF Semaphore
<1>3. ASSUME Private(s, th), s.n >= 0 PROVE s.n > 0
    BY <1>3 DEF Semaphore, Private, MayPass
<1>4. ASSUME Private(s, th) PROVE Private(Passed(s, th), th)
    BY <1>2, <1>4 DEF Private
<1> QED BY <1>1, <1>3, <1>4

-----------------------------------------------------------------------------
(* What a step leaves alone. *)

(* Steps that neither fill nor free a buffer leave the window of buffers   *)
(* in use as it is.                                                        *)
LEMMA SameWindow ==
    ASSUME UNCHANGED <<front, csize, sent, k>>,
           wpc' \in {"write", "free"} <=> wpc \in {"write", "free"}
    PROVE  /\ Freed' = Freed /\ Placed' = Placed
           /\ \A i \in Slot : Dist(i)' = Dist(i) /\ (InUse(i)' <=> InUse(i))
BY DEF Freed, Placed, Dist, InUse

(* The window of buffers in use fits into the ring, and empty.wait() has   *)
(* left room for one more while main fills.                                *)
LEMMA WindowSize ==
    ASSUME TypeOK, Counters
    PROVE  /\ Freed \in 0 .. sent /\ Placed \in Nat /\ sent \in 0 .. Blocks
           /\ empty.n \in 0 .. qsize
           /\ Placed - Freed <= qsize
           /\ mpc = "fill" => Placed - Freed < qsize
<1>1. Freed \in 0 .. sent /\ sent \in 0 .. Blocks /\ k \in 0 .. qsize
      /\ empty.n \in 0 .. qsize
    BY DEF TypeOK, Counters
<1>2. Placed \in Nat
    BY <1>1, RingSize, PipelineAssumption DEF Placed
<1>3. empty.n = qsize - (Placed - Freed) - (IF mpc = "fill" THEN 1 ELSE 0)
    BY DEF Counters
<1> QED BY <1>1, <1>2, <1>3, RingSize, PipelineAssumption

(* Steps of the compress threads leave Counters as they are. *)
LEMMA CountersFrame ==
    ASSUME Counters, UNCHANGED <<front, empty, main, wpc, csize>>
    PROVE  Counters'
BY DEF Counters, main, Freed, Placed

(* Steps that leave the buffers, their semaphores and the threads alone    *)
(* keep Stages.                                                            *)
LEMMA StagesFrame ==
    ASSUME Stages, UNCHANGED <<q, front, full, sent, k, cpc, wpc, csize>>
    PROVE  Stages'
<1>1. \A i \in Slot : InUse(i)' <=> InUse(i)
    BY SameWindow
<1> QED BY <1>1 DEF Stages, Stage

(* Steps that change no buffer and move no thread keep Contents. *)
LEMMA ContentsFrame ==
    ASSUME Contents, UNCHANGED <<q, front, sent, k, cpc, wpc, csize>>
    PROVE  Contents'
<1>1. Freed' = Freed /\ \A i \in Slot : Dist(i)' = Dist(i) /\ (InUse(i)' <=> InUse(i))
    BY SameWindow
<1> QED BY <1>1 DEF Contents, Carries

(* Steps that neither compress nor take a block keep Written. *)
LEMMA WrittenFrame ==
    ASSUME Written, UNCHANGED <<q, front, compressed, cpc, wpc>>
    PROVE  Written'
BY DEF Written, Signalled, Ready

(* Steps that do not write to the archive keep Order. *)
LEMMA OrderFrame ==
    ASSUME Order, UNCHANGED <<archive, csize, wpc>>
    PROVE  Order'
BY DEF Order

(* Steps that neither take nor return a unit of "compressors" keep Units. *)
LEMMA UnitsFrame ==
    ASSUME Units, UNCHANGED <<compressors, cpc>>
    PROVE  Units'
BY DEF Units, Compressing

-----------------------------------------------------------------------------
(* The main thread. *)

(* empty.wait() in write takes a free buffer or sleeps. *)
LEMMA MainWaitsStep ==
    ASSUME Inv, MainWaits
    PROVE  Inv'
<1>1. empty \in Semaphore /\ empty.n >= 0 /\ Private(empty, Main) /\ Main \in Thread
    BY DEF Inv, TypeOK, Counters, Thread, Main
<1>2. CASE MustSleep(empty, Main) /\ empty' = Sleeping(empty, Main) /\ UNCHANGED mpc
  <2>1. empty' \in Semaphore /\ empty'.n = empty.n /\ Private(empty', Main)
      BY <1>1, <1>2, SleepingKeeps
  <2>2. TypeOK'
      BY <1>2, <2>1 DEF Inv, TypeOK, MainWaits
  <2>3. Counters'
      BY <1>2, <2>1 DEF Inv, Counters, MainWaits, Freed, Placed
  <2> QED BY <1>2, <2>2, <2>3, StagesFrame, ContentsFrame, WrittenFrame, OrderFrame,
             UnitsFrame DEF Inv, MainWaits
<1>3. CASE MayPass(empty, Main) /\ empty' = Passed(empty, Main) /\ mpc' = "fill"
  <2>1. empty' \in Semaphore /\ empty'.n = empty.n - 1 /\ Private(empty', Main)
        /\ empty.n > 0
      BY <1>1, <1>3, PassedTakes
  <2>2. empty'.n \in 0 .. qsize
      BY <2>1, RingSize DEF Inv, TypeOK
  <2>3. TypeOK'
      BY <1>3, <2>1, <2>2 DEF Inv, TypeOK, MainWaits
  <2>4. Freed' = Freed /\ Placed' = Placed
      BY <1>3, SameWindow DEF MainWaits
  <2>5. empty'.n = qsize - (Placed' - Freed') - 1
      BY <1>3, <2>1, <2>4, WindowSize, RingSize, PipelineAssumption
      DEF Inv, Counters, MainWaits
  <2>6. Counters'
      BY <1>3, <2>1, <2>4, <2>5 DEF Inv, Counters, MainWaits
  <2> QED BY <1>3, <2>3, <2>6, StagesFrame, ContentsFrame, WrittenFrame, OrderFrame,
             UnitsFrame DEF Inv, MainWaits
<1> QED BY <1>2, <1>3 DEF MainWaits

(* Main joins the write thread and changes nothing else. *)
LEMMA JoinStep ==
    ASSUME Inv, Join
    PROVE  Inv'
<1>1. TypeOK'
    BY DEF Inv, TypeOK, Join, sems
<1>2. Counters'
    BY DEF Inv, TypeOK, Counters, Join, sems, Freed, Placed
<1> QED BY <1>1, <1>2, StagesFrame, ContentsFrame, WrittenFrame, OrderFrame,
           UnitsFrame DEF Inv, Join, sems

(* write() finds a buffer, the one behind those in use. *)
LEMMA FillPlace ==
    ASSUME Inv, mpc = "fill"
    PROVE  /\ FirstEmpty(front) # {}
           /\ \A i \in FirstEmpty(front) :
                 i \in Slot /\ Dist(i) = Placed - Freed /\ q[i].state = "EMPTY"
<1>1. /\ \A i \in Slot : Dist(i) \in 0 .. qsize - 1
      /\ \A i, j \in Slot : Dist(i) = Dist(j) => i = j
      /\ \A d \in 0 .. qsize - 1 : \E i \in Slot : Dist(i) = d
    BY Positions DEF Inv, TypeOK
<1>2. Freed \in Nat /\ Placed \in Nat /\ Placed - Freed \in 0 .. qsize - 1
  <2>1. Freed \in 0 .. sent /\ Placed \in Nat /\ sent \in 0 .. Blocks /\ Placed - Freed < qsize
      BY WindowSize DEF Inv
  <2>2. Placed >= sent
      BY RingSize DEF Inv, TypeOK, Placed
  <2> QED BY <2>1, <2>2, RingSize, PipelineAssumption
<1>3. \A i \in Slot : q[i].state = "EMPTY" <=> Dist(i) >= Placed - Freed
    BY <1>1, <1>2, RingSize DEF Inv, Stages, Stage, InUse
<1>4. PICK e \in Slot : Dist(e) = Placed - Freed
    BY <1>1, <1>2
<1>5. FirstEmpty(front) = {i \in Slot : /\ q[i].state = "EMPTY"
                                       /\ \A j \in Slot : q[j].state = "EMPTY" =>
                                            Dist(i) <= Dist(j)}
    BY DEF FirstEmpty, Dist
<1>6. e \in FirstEmpty(front)
  <2>1. q[e].state = "EMPTY"
      BY <1>1, <1>2, <1>3, <1>4
  <2>2. \A j \in Slot : q[j].state = "EMPTY" => Dist(e) <= Dist(j)
      BY <1>1, <1>2, <1>3, <1>4
  <2> QED BY <1>5, <2>1, <2>2
<1>7. ASSUME NEW i \in FirstEmpty(front)
      PROVE  i \in Slot /\ Dist(i) = Placed - Freed /\ q[i].state = "EMPTY"
  <2>1. q[e].state = "EMPTY"
      BY <1>1, <1>2, <1>3, <1>4
  <2>2. i \in Slot /\ q[i].state = "EMPTY" /\ Dist(i) <= Dist(e)
      BY <1>5, <2>1
  <2> QED BY <2>2, <1>1, <1>2, <1>3, <1>4, RingSize
<1> QED BY <1>6, <1>7

(* write puts the next block, or the end mark, into the first EMPTY buffer *)
(* and signals its "full".                                                 *)
LEMMA FillStep ==
    ASSUME Inv, Fill
    PROVE  Inv'
<1>1. mpc = "fill" /\ UNCHANGED <<front, empty, compressors, compressed, cpc, wpc, archive, csize>>
    BY DEF Fill, FillFrom
<1>2. PICK i \in Slot : Dist(i) = Placed - Freed /\ q[i].state = "EMPTY" /\ FillSlot(i)
    BY <1>1, FillPlace DEF Fill, FillFrom
<1>3. PICK s \in signal(full[i]) : full' = [full EXCEPT ![i] = s]
    BY <1>2 DEF FillSlot
<1>4. /\ sent' = IF last THEN sent ELSE sent + 1
      /\ k' = IF last THEN k - 1 ELSE k
      /\ mpc' = IF last /\ k = 1 THEN "join" ELSE "wait"
    BY DEF Fill, FillFrom
<1>5. /\ sent \in 0 .. Blocks /\ k \in 1 .. qsize /\ (~last => k = qsize /\ sent < Blocks)
      /\ Blocks \in Nat /\ qsize \in Nat \ {0}
    BY <1>1, RingSize, PipelineAssumption DEF Inv, TypeOK, Counters, last
<1>6. sent' \in 0 .. Blocks /\ k' \in 0 .. qsize - 1 \cup {k} /\ mpc' \in {"wait", "join"}
    BY <1>4, <1>5
<1>7. Freed' = Freed /\ Placed' = Placed + 1 /\ \A j \in Slot : Dist(j)' = Dist(j)
    BY <1>1, <1>4, <1>5 DEF Freed, Placed, Dist
<1>8. /\ Freed \in 0 .. sent /\ Placed \in Nat
      /\ \A j \in Slot : Dist(j) \in 0 .. qsize - 1
      /\ \A j \in Slot : Dist(j) = Dist(i) => j = i
    BY WindowSize, Positions DEF Inv, TypeOK
<1>9. \A j \in Slot : InUse(j)' <=> InUse(j) \/ j = i
    BY <1>2, <1>5, <1>7, <1>8 DEF InUse
<1>10. PICK d \in Data : d = IF last THEN None ELSE sent + 1
    BY <1>5 DEF Data, None
<1>11. last \in BOOLEAN
    BY DEF last
<1>12. q \in [Slot -> CJ]
    BY DEF Inv, TypeOK, CJ
<1>13. q' = [q EXCEPT ![i] = [state |-> "FULL", last |-> last, in |-> d, out |-> q[i].out]]
    BY <1>2, <1>10 DEF FillSlot
<1>14. q' \in [Slot -> CJ]
    BY <1>11, <1>12, <1>13 DEF CJ
<1>15. /\ q'[i].state = "FULL" /\ q'[i].last = last /\ q'[i].in = d
       /\ \A j \in Slot : j # i => q'[j] = q[j]
    BY <1>12, <1>13 DEF CJ
<1>16. full[i] \in Semaphore /\ full[i].n = 0 /\ Private(full[i], i) /\ i \in Thread
    BY <1>2 DEF Inv, TypeOK, Stages, Stage, Thread
<1>17. s \in Semaphore /\ s.n = 1 /\ Private(s, i)
    BY <1>3, <1>16, SignalAdds, SignalPrivate
<1>18. full' \in [Slot -> Semaphore] /\ full'[i] = s /\ \A j \in Slot : j # i => full'[j] = full[j]
    BY <1>3, <1>17 DEF Inv, TypeOK
<1>19. cpc[i] = "full"
    BY <1>2 DEF Inv, TypeOK, Stages, Stage
<1>20. TypeOK'
  <2>1. \A j \in Slot : full'[j].n \in {0, 1}
      BY <1>17, <1>18 DEF Inv, TypeOK
  <2> QED BY <1>1, <1>6, <1>14, <1>18, <2>1, <1>5 DEF Inv, TypeOK, CJ
<1>21. Counters'
  <2>1. k' < qsize => sent' = Blocks
      BY <1>4, <1>5 DEF last
  <2>2. mpc' \in {"wait", "fill"} <=> k' > 0
      BY <1>4, <1>5
  <2>3. empty'.n = qsize - (Placed' - Freed') - (IF mpc' = "fill" THEN 1 ELSE 0)
      BY <1>1, <1>6, <1>7, <1>8, <1>5, WindowSize DEF Inv, Counters
  <2>4. Freed' \in 0 .. sent'
      BY <1>4, <1>5, <1>7, <1>8
  <2> QED BY <1>1, <1>6, <2>1, <2>2, <2>3, <2>4 DEF Inv, Counters
<1>22. Stages'
  <2> SUFFICES ASSUME NEW j \in Slot PROVE Stage(j)'
      BY DEF Stages
  <2>1. CASE j = i
      BY <2>1, <1>1, <1>9, <1>15, <1>17, <1>18, <1>19 DEF Stage
  <2>2. CASE j # i
      BY <2>2, <1>1, <1>9, <1>15, <1>18 DEF Inv, Stages, Stage
  <2> QED BY <2>1, <2>2
<1>23. Contents'
  <2> SUFFICES ASSUME NEW j \in Slot, InUse(j)' PROVE Carries(j)'
      BY DEF Contents, Carries
  <2>1. CASE j = i
    <3>1. Placed = sent + (qsize - k)
        BY DEF Placed
    <3>2. Freed' + Dist(j)' = Placed
        BY <2>1, <1>2, <1>7, <1>8, <1>5
    <3>3. q'[j].last <=> Placed >= sent'
        BY <2>1, <3>1, <1>4, <1>5, <1>15
    <3>4. ~q'[j].last => q'[j].in = Placed + 1
        BY <2>1, <3>1, <1>5, <1>10, <1>15
    <3> QED BY <2>1, <3>2, <3>3, <3>4, <1>1, <1>15, <1>19 DEF Carries
  <2>2. CASE j # i
    <3>1. InUse(j)
        BY <2>2, <1>9
    <3>2. Freed + Dist(j) >= sent' <=> Freed + Dist(j) >= sent
        BY <3>1, <1>4, <1>5, <1>8 DEF InUse, Placed
    <3> QED BY <2>2, <3>1, <3>2, <1>1, <1>7, <1>15 DEF Inv, Contents, Carries
  <2> QED BY <2>1, <2>2
<1>24. Written'
  <2> SUFFICES ASSUME NEW j \in Slot PROVE Signalled(j)'
      BY DEF Written
  <2>1. CASE j = i
      BY <2>1, <1>1, <1>2, <1>15, <1>19 DEF Inv, Written, Signalled, Ready
  <2>2. CASE j # i
      BY <2>2, <1>1, <1>15 DEF Inv, Written, Signalled, Ready
  <2> QED BY <2>1, <2>2
<1> QED BY <1>1, <1>20, <1>21, <1>22, <1>23, <1>24, OrderFrame, UnitsFrame DEF Inv

-----------------------------------------------------------------------------
(* A compressThread. *)

(* A compress thread waits for its own buffer to be filled. *)
LEMMA WaitFullStep ==
    ASSUME Inv, NEW i \in Slot, WaitFull(i)
    PROVE  Inv'
<1>1. /\ cpc[i] = "full" /\ UNCHANGED <<q, front, empty, compressors, compressed, main, wpc,
                                        archive, csize>>
      /\ UNCHANGED <<mpc, sent, k>>
    BY DEF WaitFull, main
<1>2. full[i] \in Semaphore /\ full[i].n \in {0, 1} /\ Private(full[i], i) /\ i \in Thread
    BY DEF Inv, TypeOK, Stages, Stage, Thread
<1>3. Counters' /\ Order'
    BY <1>1, CountersFrame, OrderFrame DEF Inv
<1>4. \A j \in Slot : InUse(j)' <=> InUse(j)
    BY <1>1, SameWindow
<1>5. CASE UNCHANGED cpc /\ full' = [full EXCEPT ![i] = Sleeping(@, i)]
  <2>1. PICK s \in Semaphore : s = Sleeping(full[i], i) /\ s.n = full[i].n /\ Private(s, i)
      BY <1>2, SleepingKeeps
  <2>2. full' \in [Slot -> Semaphore] /\ full'[i] = s /\ \A j \in Slot : j # i => full'[j] = full[j]
      BY <1>5, <2>1 DEF Inv, TypeOK
  <2>3. TypeOK'
    <3>1. \A j \in Slot : full'[j].n \in {0, 1}
        BY <2>1, <2>2 DEF Inv, TypeOK
    <3> QED BY <1>1, <1>5, <2>2, <3>1 DEF Inv, TypeOK
  <2>4. Stages'
      BY <1>1, <1>4, <1>5, <2>1, <2>2 DEF Inv, Stages, Stage
  <2> QED BY <1>1, <1>3, <1>5, <2>3, <2>4, ContentsFrame, WrittenFrame, UnitsFrame DEF Inv
<1>6. CASE MayPass(full[i], i) /\ Goto(i, "check") /\ full' = [full EXCEPT ![i] = Passed(@, i)]
  <2>1. PICK s \in Semaphore : s = Passed(full[i], i) /\ s.n = 0 /\ Private(s, i) /\ full[i].n = 1
      BY <1>2, <1>6, PassedTakes
  <2>2. full' \in [Slot -> Semaphore] /\ full'[i] = s /\ \A j \in Slot : j # i => full'[j] = full[j]
      BY <1>6, <2>1 DEF Inv, TypeOK
  <2>3. cpc' = [cpc EXCEPT ![i] = "check"]
      BY <1>6 DEF Goto
  <2>4. cpc' \in [Slot -> {"full", "check", "slot", "compress", "compressed", "ended"}]
        /\ cpc'[i] = "check" /\ \A j \in Slot : j # i => cpc'[j] = cpc[j]
      BY <2>3 DEF Inv, TypeOK
  <2>5. q[i].state = "FULL"
      BY <2>1 DEF Inv, Stages, Stage
  <2>6. TypeOK'
    <3>1. \A j \in Slot : full'[j].n \in {0, 1}
        BY <2>1, <2>2 DEF Inv, TypeOK
    <3> QED BY <1>1, <2>2, <2>4, <3>1 DEF Inv, TypeOK
  <2>7. Stages'
      BY <1>1, <1>4, <2>1, <2>2, <2>4, <2>5 DEF Inv, Stages, Stage
  <2>8. Contents'
      BY <1>1, <2>4, <2>5, SameWindow DEF Inv, Contents, Carries
  <2>9. Written'
      BY <1>1, <2>4 DEF Inv, Written, Signalled, Ready
  <2>10. Units'
    <3>1. Compressing' = Compressing
        BY <1>1, <2>4 DEF Compressing
    <3> QED BY <1>1, <3>1 DEF Inv, Units
  <2> QED BY <1>3, <2>6, <2>7, <2>8, <2>9, <2>10 DEF Inv
<1> QED BY <1>5, <1>6 DEF WaitFull

(* A compress thread that finds the end mark signals "compressed" and      *)
(* ends; any other goes on to the unit.                                    *)
LEMMA CheckMethodStep ==
    ASSUME Inv, NEW i \in Slot, CheckMethod(i)
    PROVE  Inv'
<1>1. /\ cpc[i] = "check" /\ UNCHANGED <<front, empty, compressors, full, main, wpc, archive, csize>>
      /\ UNCHANGED <<mpc, sent, k>>
    BY DEF CheckMethod, main
<1>2. q[i].state = "FULL"
    BY <1>1 DEF Inv, Stages, Stage
<1>3. Counters' /\ Order'
    BY <1>1, CountersFrame, OrderFrame DEF Inv
<1>4. \A j \in Slot : InUse(j)' <=> InUse(j)
    BY <1>1, SameWindow
<1>5. ASSUME NEW to \in {"slot", "ended"}, Goto(i, to)
      PROVE  /\ cpc' \in [Slot -> {"full", "check", "slot", "compress", "compressed", "ended"}]
             /\ cpc'[i] = to /\ \A j \in Slot : j # i => cpc'[j] = cpc[j]
             /\ Units'
  <2>1. /\ cpc' \in [Slot -> {"full", "check", "slot", "compress", "compressed", "ended"}]
        /\ cpc'[i] = to /\ \A j \in Slot : j # i => cpc'[j] = cpc[j]
      BY <1>5 DEF Inv, TypeOK, Goto
  <2>2. Compressing' = Compressing
      BY <1>1, <2>1 DEF Compressing
  <2> QED BY <1>1, <2>1, <2>2 DEF Inv, Units
<1>6. CASE q[i].last
  <2>1. Goto(i, "ended") /\ UNCHANGED q
      BY <1>6 DEF CheckMethod
  <2>2. PICK s \in signal(compressed[i]) : compressed' = [compressed EXCEPT ![i] = s]
      BY <1>6 DEF CheckMethod
  <2>3. /\ cpc' \in [Slot -> {"full", "check", "slot", "compress", "compressed", "ended"}]
        /\ cpc'[i] = "ended" /\ \A j \in Slot : j # i => cpc'[j] = cpc[j]
        /\ Units'
      BY <1>5, <2>1
  <2>4. /\ compressed[i] \in Semaphore /\ compressed[i].n = 0 /\ Private(compressed[i], Writer)
        /\ Writer \in Thread
      BY <1>1, <1>2 DEF Inv, TypeOK, Written, Signalled, Ready, Thread, Writer
  <2>5. s \in Semaphore /\ s.n = 1 /\ Private(s, Writer)
      BY <2>2, <2>4, SignalAdds, SignalPrivate
  <2>6. /\ compressed' \in [Slot -> Semaphore] /\ compressed'[i] = s
        /\ \A j \in Slot : j # i => compressed'[j] = compressed[j]
      BY <2>2, <2>5 DEF Inv, TypeOK
  <2>7. TypeOK'
    <3>1. \A j \in Slot : compressed'[j].n \in {0, 1}
        BY <2>5, <2>6 DEF Inv, TypeOK
    <3> QED BY <1>1, <2>1, <2>3, <2>6, <3>1 DEF Inv, TypeOK
  <2>8. Stages'
      BY <1>1, <1>2, <1>4, <2>1, <2>3 DEF Inv, Stages, Stage
  <2>9. Contents'
      BY <1>1, <1>2, <1>6, <2>1, <2>3, SameWindow DEF Inv, Contents, Carries
  <2>10. Written'
      BY <1>1, <1>2, <2>1, <2>3, <2>5, <2>6 DEF Inv, Written, Signalled, Ready
  <2> QED BY <1>3, <2>3, <2>7, <2>8, <2>9, <2>10 DEF Inv
<1>7. CASE ~q[i].last
  <2>1. q' = [q EXCEPT ![i].state = "COMPRESSING"] /\ Goto(i, "slot") /\ UNCHANGED compressed
      BY <1>7 DEF CheckMethod
  <2>2. /\ cpc' \in [Slot -> {"full", "check", "slot", "compress", "compressed", "ended"}]
        /\ cpc'[i] = "slot" /\ \A j \in Slot : j # i => cpc'[j] = cpc[j]
        /\ Units'
      BY <1>5, <2>1
  <2>3. /\ q' \in [Slot -> CJ] /\ q'[i].state = "COMPRESSING" /\ q'[i].last = q[i].last
        /\ q'[i].in = q[i].in /\ \A j \in Slot : j # i => q'[j] = q[j]
      BY <2>1 DEF Inv, TypeOK, CJ
  <2>4. TypeOK'
      BY <1>1, <2>1, <2>2, <2>3 DEF Inv, TypeOK, CJ
  <2>5. Stages'
      BY <1>1, <1>2, <1>4, <2>2, <2>3 DEF Inv, Stages, Stage
  <2>6. Contents'
      BY <1>1, <1>2, <1>7, <2>2, <2>3, SameWindow DEF Inv, Contents, Carries
  <2>7. Written'
      BY <1>1, <1>2, <2>1, <2>2, <2>3 DEF Inv, Written, Signalled, Ready
  <2> QED BY <1>3, <2>2, <2>4, <2>5, <2>6, <2>7 DEF Inv
<1> QED BY <1>6, <1>7

(* Units that are taken and given back. *)
LEMMA UnitMoves ==
    ASSUME Inv, NEW i \in Slot,
           cpc' \in [Slot -> {"full", "check", "slot", "compress", "compressed", "ended"}],
           \A j \in Slot : j # i => cpc'[j] = cpc[j]
    PROVE  /\ cpc[i] = "slot" /\ cpc'[i] = "compress" /\ compressors'.n = compressors.n - 1
                => Units' /\ compressors'.n <= Threads
           /\ cpc[i] = "compressed" /\ cpc'[i] = "full" /\ compressors'.n = compressors.n + 1
                => Units' /\ compressors'.n <= Threads
<1>1. IsFiniteSet(Compressing) /\ Cardinality(Compressing) \in Nat
  <2>1. IsFiniteSet(Slot)
      BY RingSize, FS_Interval DEF Slot
  <2>2. IsFiniteSet(Compressing)
      BY <2>1, FS_Subset DEF Compressing
  <2> QED BY <2>2, FS_CardinalityType
<1>2. compressors.n \in Int /\ compressors.n + Cardinality(Compressing) = Threads /\ Threads \in Nat
    BY PipelineAssumption DEF Inv, TypeOK, Semaphore, Units
<1>3. ASSUME cpc[i] = "slot", cpc'[i] = "compress", compressors'.n = compressors.n - 1
      PROVE  Units' /\ compressors'.n <= Threads
  <2>1. i \notin Compressing /\ Compressing' = Compressing \cup {i}
      BY <1>3 DEF Compressing
  <2>2. Cardinality(Compressing') = Cardinality(Compressing) + 1
      BY <1>1, <2>1, FS_AddElement
  <2> QED BY <1>1, <1>2, <1>3, <2>2 DEF Units
<1>4. ASSUME cpc[i] = "compressed", cpc'[i] = "full", compressors'.n = compressors.n + 1
      PROVE  Units' /\ compressors'.n <= Threads
  <2>1. i \in Compressing /\ Compressing' = Compressing \ {i}
      BY <1>4 DEF Compressing
  <2>2. /\ Cardinality(Compressing') = Cardinality(Compressing) - 1
        /\ Cardinality(Compressing') \in Nat
      BY <1>1, <2>1, FS_RemoveElement, FS_CardinalityType
  <2> QED BY <1>1, <1>2, <1>4, <2>2 DEF Units
<1> QED BY <1>3, <1>4

(* A compress thread takes one of the Threads units, or sleeps. *)
LEMMA WaitCompressorsStep ==
    ASSUME Inv, NEW i \in Slot, WaitCompressors(i)
    PROVE  Inv'
<1>1. /\ cpc[i] = "slot" /\ UNCHANGED <<q, front, empty, full, compressed, main, wpc, archive, csize>>
      /\ UNCHANGED <<mpc, sent, k>>
    BY DEF WaitCompressors, main
<1>2. compressors \in Semaphore /\ i \in Thread
    BY DEF Inv, TypeOK, Thread
<1>3. Counters' /\ Order'
    BY <1>1, CountersFrame, OrderFrame DEF Inv
<1>4. \A j \in Slot : InUse(j)' <=> InUse(j)
    BY <1>1, SameWindow
<1>5. CASE compressors' = Sleeping(compressors, i) /\ UNCHANGED cpc
  <2>1. compressors' \in Semaphore /\ compressors'.n = compressors.n
      BY <1>2, <1>5, SleepingKeeps
  <2>2. TypeOK'
      BY <1>1, <1>5, <2>1 DEF Inv, TypeOK
  <2>3. Units'
    <3>1. Compressing' = Compressing
        BY <1>5 DEF Compressing
    <3> QED BY <2>1, <3>1 DEF Inv, Units
  <2> QED BY <1>1, <1>3, <1>5, <2>2, <2>3, StagesFrame, ContentsFrame, WrittenFrame DEF Inv
<1>6. CASE MayPass(compressors, i) /\ compressors' = Passed(compressors, i) /\ Goto(i, "compress")
  <2>1. compressors' \in Semaphore /\ compressors'.n = compressors.n - 1
      BY <1>2, <1>6, PassedTakes
  <2>2. /\ cpc' \in [Slot -> {"full", "check", "slot", "compress", "compressed", "ended"}]
        /\ cpc'[i] = "compress" /\ \A j \in Slot : j # i => cpc'[j] = cpc[j]
      BY <1>6 DEF Inv, TypeOK, Goto
  <2>3. Units' /\ compressors'.n <= Threads
      BY <1>1, <2>1, <2>2, UnitMoves
  <2>4. TypeOK'
      BY <1>1, <2>1, <2>2, <2>3 DEF Inv, TypeOK
  <2>5. Stages'
      BY <1>1, <1>4, <2>2 DEF Inv, Stages, Stage
  <2>6. Contents'
      BY <1>1, <2>2, SameWindow DEF Inv, Contents, Carries
  <2>7. Written'
      BY <1>1, <2>2 DEF Inv, Written, Signalled, Ready
  <2> QED BY <1>3, <2>3, <2>4, <2>5, <2>6, <2>7 DEF Inv
<1> QED BY <1>5, <1>6 DEF WaitCompressors

(* compressBlock fills the buffer's output from its input. *)
LEMMA CompressStepKeeps ==
    ASSUME Inv, NEW i \in Slot, Compress(i)
    PROVE  Inv'
<1>1. /\ cpc[i] = "compress" /\ UNCHANGED <<front, empty, compressors, full, compressed, main, wpc,
                                            archive, csize>>
      /\ UNCHANGED <<mpc, sent, k>>
    BY DEF Compress, main, sems
<1>2. q[i].state = "COMPRESSING"
    BY <1>1 DEF Inv, Stages, Stage
<1>3. Counters' /\ Order'
    BY <1>1, CountersFrame, OrderFrame DEF Inv
<1>4. \A j \in Slot : InUse(j)' <=> InUse(j)
    BY <1>1, SameWindow
<1>5. /\ cpc' \in [Slot -> {"full", "check", "slot", "compress", "compressed", "ended"}]
      /\ cpc'[i] = "compressed" /\ \A j \in Slot : j # i => cpc'[j] = cpc[j]
    BY DEF Inv, TypeOK, Goto, Compress
<1>6. PICK d \in Data : d = IF q[i].in = None THEN Hollow ELSE q[i].in
    BY PipelineAssumption DEF Inv, TypeOK, Data, Hollow, None
<1>7. None \in Data
    BY PipelineAssumption DEF Data, None
<1>8. q' = [q EXCEPT ![i].out = d, ![i].in = None]
    BY <1>6 DEF Compress
<1>9. /\ q' \in [Slot -> CJ] /\ q'[i].state = "COMPRESSING" /\ q'[i].last = q[i].last
      /\ q'[i].out = d /\ \A j \in Slot : j # i => q'[j] = q[j]
    BY <1>2, <1>7, <1>8 DEF Inv, TypeOK, CJ
<1>10. TypeOK'
    BY <1>1, <1>5, <1>9 DEF Inv, TypeOK, CJ
<1>11. Stages'
    BY <1>1, <1>2, <1>4, <1>5, <1>9 DEF Inv, Stages, Stage
<1>12. Contents'
  <2>1. InUse(i) => ~q[i].last /\ q[i].in = Freed + Dist(i) + 1
      BY <1>1, <1>2 DEF Inv, Contents, Carries
  <2>2. Freed \in Nat /\ Dist(i) \in Nat
      BY WindowSize, Positions, PipelineAssumption DEF Inv, TypeOK
  <2>3. InUse(i) => d = Freed + Dist(i) + 1
      BY <1>6, <2>1, <2>2 DEF None
  <2> QED BY <1>1, <1>2, <1>5, <1>9, <2>1, <2>3, SameWindow DEF Inv, Contents, Carries
<1>13. Written'
    BY <1>1, <1>2, <1>5, <1>9 DEF Inv, Written, Signalled, Ready
<1>14. Units'
  <2>1. Compressing' = Compressing
      BY <1>1, <1>5 DEF Compressing
  <2> QED BY <1>1, <2>1 DEF Inv, Units
<1> QED BY <1>3, <1>10, <1>11, <1>12, <1>13, <1>14 DEF Inv

(* A compress thread signals "compressed" and returns its unit. *)
LEMMA CompressedStep ==
    ASSUME Inv, NEW i \in Slot, Compressed(i)
    PROVE  Inv'
<1>1. /\ cpc[i] = "compressed" /\ UNCHANGED <<front, empty, full, main, wpc, archive, csize>>
      /\ UNCHANGED <<mpc, sent, k>>
    BY DEF Compressed, main
<1>2. q[i].state = "COMPRESSING"
    BY <1>1 DEF Inv, Stages, Stage
<1>3. Counters' /\ Order'
    BY <1>1, CountersFrame, OrderFrame DEF Inv
<1>4. \A j \in Slot : InUse(j)' <=> InUse(j)
    BY <1>1, SameWindow
<1>5. /\ cpc' \in [Slot -> {"full", "check", "slot", "compress", "compressed", "ended"}]
      /\ cpc'[i] = "full" /\ \A j \in Slot : j # i => cpc'[j] = cpc[j]
    BY DEF Inv, TypeOK, Goto, Compressed
<1>6. /\ q' \in [Slot -> CJ] /\ q'[i].state = "COMPRESSED" /\ q'[i].last = q[i].last
      /\ q'[i].out = q[i].out /\ \A j \in Slot : j # i => q'[j] = q[j]
  <2>1. q \in [Slot -> CJ]
      BY DEF Inv, TypeOK, CJ
  <2>2. q' = [q EXCEPT ![i].state = "COMPRESSED"]
      BY DEF Compressed
  <2> QED BY <2>1, <2>2 DEF CJ
<1>7. PICK s \in signal(compressed[i]) : compressed' = [compressed EXCEPT ![i] = s]
    BY DEF Compressed
<1>8. /\ compressed[i] \in Semaphore /\ compressed[i].n = 0 /\ Private(compressed[i], Writer)
      /\ Writer \in Thread
    BY <1>1, <1>2 DEF Inv, TypeOK, Written, Signalled, Ready, Thread, Writer
<1>9. s \in Semaphore /\ s.n = 1 /\ Private(s, Writer)
    BY <1>7, <1>8, SignalAdds, SignalPrivate
<1>10. /\ compressed' \in [Slot -> Semaphore] /\ compressed'[i] = s
       /\ \A j \in Slot : j # i => compressed'[j] = compressed[j]
    BY <1>7, <1>9 DEF Inv, TypeOK
<1>11. compressors' \in Semaphore /\ compressors'.n = compressors.n + 1
    BY SignalAdds DEF Compressed, Inv, TypeOK
<1>12. Units' /\ compressors'.n <= Threads
    BY <1>1, <1>5, <1>11, UnitMoves
<1>13. TypeOK'
  <2>1. \A j \in Slot : compressed'[j].n \in {0, 1}
      BY <1>9, <1>10 DEF Inv, TypeOK
  <2> QED BY <1>1, <1>5, <1>6, <1>10, <1>11, <1>12, <2>1 DEF Inv, TypeOK, CJ
<1>14. Stages'
    BY <1>1, <1>2, <1>4, <1>5, <1>6 DEF Inv, Stages, Stage
<1>15. Contents'
    BY <1>1, <1>2, <1>5, <1>6, SameWindow DEF Inv, Contents, Carries
<1>16. Written'
    BY <1>1, <1>2, <1>5, <1>6, <1>9, <1>10 DEF Inv, Written, Signalled, Ready
<1> QED BY <1>3, <1>12, <1>13, <1>14, <1>15, <1>16 DEF Inv

-----------------------------------------------------------------------------
(* The writeThread. *)

(* The write thread waits for the buffer at the front. *)
LEMMA WaitCompressedStep ==
    ASSUME Inv, WaitCompressed
    PROVE  Inv'
<1>1. /\ wpc = "compressed" /\ UNCHANGED <<q, front, empty, compressors, full, main, cpc, archive, csize>>
      /\ UNCHANGED <<mpc, sent, k>>
    BY DEF WaitCompressed, main
<1>2. /\ front \in Slot /\ compressed[front] \in Semaphore /\ compressed[front].n \in {0, 1}
      /\ Private(compressed[front], Writer) /\ Writer \in Thread
    BY DEF Inv, TypeOK, Written, Signalled, Thread, Writer
<1>3. Units'
    BY <1>1, UnitsFrame DEF Inv
<1>4. CASE UNCHANGED wpc /\ compressed' = [compressed EXCEPT ![front] = Sleeping(compressed[front], Writer)]
  <2>1. PICK s \in Semaphore : /\ s = Sleeping(compressed[front], Writer)
                              /\ s.n = compressed[front].n /\ Private(s, Writer)
      BY <1>2, SleepingKeeps
  <2>2. /\ compressed' \in [Slot -> Semaphore] /\ compressed'[front] = s
        /\ \A j \in Slot : j # front => compressed'[j] = compressed[j]
      BY <1>2, <1>4, <2>1 DEF Inv, TypeOK
  <2>3. TypeOK'
    <3>1. \A j \in Slot : compressed'[j].n \in {0, 1}
        BY <2>1, <2>2 DEF Inv, TypeOK
    <3> QED BY <1>1, <1>4, <2>2, <3>1 DEF Inv, TypeOK
  <2>4. Written'
      BY <1>1, <1>2, <1>4, <2>1, <2>2 DEF Inv, Written, Signalled, Ready
  <2> QED BY <1>1, <1>3, <1>4, <2>3, <2>4, CountersFrame, StagesFrame, ContentsFrame, OrderFrame
          DEF Inv
<1>5. CASE /\ MayPass(compressed[front], Writer) /\ wpc' = "take"
           /\ compressed' = [compressed EXCEPT ![front] = Passed(compressed[front], Writer)]
  <2>1. PICK s \in Semaphore : /\ s = Passed(compressed[front], Writer) /\ s.n = 0
                              /\ Private(s, Writer) /\ compressed[front].n = 1
      BY <1>2, <1>5, PassedTakes
  <2>2. /\ compressed' \in [Slot -> Semaphore] /\ compressed'[front] = s
        /\ \A j \in Slot : j # front => compressed'[j] = compressed[j]
      BY <1>2, <1>5, <2>1 DEF Inv, TypeOK
  <2>3. TypeOK'
    <3>1. \A j \in Slot : compressed'[j].n \in {0, 1}
        BY <2>1, <2>2 DEF Inv, TypeOK
    <3> QED BY <1>1, <1>5, <2>2, <3>1 DEF Inv, TypeOK
  <2>4. Freed' = Freed /\ Placed' = Placed
        /\ \A i \in Slot : Dist(i)' = Dist(i) /\ (InUse(i)' <=> InUse(i))
      BY <1>1, <1>5, SameWindow
  <2>5. Counters'
      BY <1>1, <1>5, <2>4 DEF Inv, Counters
  <2>6. Stages'
      BY <1>1, <2>4 DEF Inv, Stages, Stage
  <2>7. Contents'
      BY <1>1, <2>4 DEF Inv, Contents, Carries
  <2>8. Written'
      BY <1>1, <1>2, <1>5, <2>1, <2>2 DEF Inv, Written, Signalled, Ready
  <2>9. Order'
      BY <1>1, <1>5 DEF Inv, Order
  <2> QED BY <1>3, <2>3, <2>5, <2>6, <2>7, <2>8, <2>9 DEF Inv
<1> QED BY <1>4, <1>5 DEF WaitCompressed

(* The buffer at the front that is taken is in use, ... *)
LEMMA FrontInUse ==
    ASSUME Inv, q[front].state # "EMPTY"
    PROVE  /\ front \in Slot /\ InUse(front) /\ Freed < Placed
           /\ Freed \in 0 .. sent /\ sent \in 0 .. Blocks
           /\ q[front].last <=> Freed = sent
           /\ q[front].last => sent = Blocks
<1>1. front \in Slot /\ Dist(front) = 0
    BY Positions DEF Inv, TypeOK
<1>2. InUse(front)
    BY <1>1 DEF Inv, Stages, Stage
<1>3. /\ Freed \in 0 .. sent /\ sent \in 0 .. Blocks /\ Placed \in Nat /\ k \in 0 .. qsize
      /\ qsize \in Nat /\ Blocks \in Nat
    BY WindowSize, RingSize, PipelineAssumption DEF Inv, TypeOK
<1>4. Freed < Placed
    BY <1>1, <1>2, <1>3 DEF InUse
<1>5. q[front].last <=> Freed = sent
    BY <1>1, <1>2, <1>3 DEF Inv, Contents, Carries
<1>6. Freed = sent => sent = Blocks
    BY <1>3, <1>4 DEF Placed, Inv, Counters
<1> QED BY <1>1, <1>2, <1>3, <1>4, <1>5, <1>6

(* ... and one more block in the list of sizes or in the archive continues *)
(* the count.                                                              *)
LEMMA NextNumber ==
    ASSUME NEW t \in Seq(Data), t = [i \in 1 .. Len(t) |-> i],
           NEW v \in Data, v = Len(t) + 1
    PROVE  /\ Append(t, v) \in Seq(Data) /\ Len(Append(t, v)) = Len(t) + 1
           /\ Append(t, v) = [i \in 1 .. Len(Append(t, v)) |-> i]
<1>1. Append(t, v) \in Seq(Data) /\ Len(Append(t, v)) = Len(t) + 1
    OBVIOUS
<1>2. Append(t, v) = [i \in 1 .. Len(t) + 1 |-> i]
    OBVIOUS
<1> QED BY <1>1, <1>2

(* The write thread ends at the end mark; otherwise the block at the front *)
(* is the next one of the archive.                                         *)
LEMMA TakeStep ==
    ASSUME Inv, Take
    PROVE  Inv'
<1>1. /\ wpc = "take" /\ UNCHANGED <<front, empty, compressors, full, compressed, main, cpc, archive>>
      /\ UNCHANGED <<mpc, sent, k>>
    BY DEF Take, main, sems
<1>2. front \in Slot /\ Ready(front) /\ q[front].state # "EMPTY" /\ q[front].state # "WRITING"
    BY <1>1 DEF Inv, TypeOK, Written, Signalled, Ready, Stages, Stage
<1>3. Units'
    BY <1>1, UnitsFrame DEF Inv
<1>4. Len(csize) \in Nat /\ Freed = Len(csize) /\ Len(archive) = Len(csize)
    BY <1>1 DEF Inv, TypeOK, Order, Freed
<1>5. CASE q[front].last
  <2>1. wpc' = "ended" /\ UNCHANGED <<q, csize>>
      BY <1>5 DEF Take
  <2>2. cpc[front] = "ended" /\ Freed = Blocks
      BY <1>2, <1>5, FrontInUse DEF Inv, Contents, Carries, Ready
  <2>3. Freed' = Freed /\ Placed' = Placed
        /\ \A i \in Slot : Dist(i)' = Dist(i) /\ (InUse(i)' <=> InUse(i))
      BY <1>1, <2>1, SameWindow
  <2>4. TypeOK'
      BY <1>1, <2>1 DEF Inv, TypeOK
  <2>5. Counters'
      BY <1>1, <2>1, <2>3 DEF Inv, Counters
  <2>6. Stages'
      BY <1>1, <2>1, <2>3 DEF Inv, Stages, Stage
  <2>7. Contents'
      BY <1>1, <2>1, <2>3 DEF Inv, Contents, Carries
  <2>8. Written'
      BY <1>1, <1>2, <2>1, <2>2 DEF Inv, Written, Signalled, Ready
  <2>9. Order'
      BY <1>1, <1>4, <2>1, <2>2 DEF Inv, Order
  <2> QED BY <1>3, <2>4, <2>5, <2>6, <2>7, <2>8, <2>9 DEF Inv
<1>6. CASE ~q[front].last
  <2>1. q' = [q EXCEPT ![front].state = "WRITING"] /\ csize' = Append(csize, q[front].out)
      BY <1>6 DEF Take
  <2>2. q[front].state = "COMPRESSED"
      BY <1>2, <1>6, FrontInUse DEF Inv, Contents, Carries, Ready
  <2>3. q[front].out = Len(csize) + 1 /\ q[front].out \in Data
    <3>1. InUse(front) /\ cpc[front] = "full" /\ Dist(front) = 0
        BY <1>2, <2>2, FrontInUse, Positions DEF Inv, TypeOK, Stages, Stage
    <3>2. q[front].out = Freed + Dist(front) + 1
        BY <1>2, <1>6, <2>2, <3>1 DEF Inv, Contents, Carries
    <3>3. q[front].out \in Data
        BY <1>2 DEF Inv, TypeOK
    <3> QED BY <1>4, <3>1, <3>2, <3>3
  <2>4. wpc' = "write"
      BY <1>4, <1>6, <2>3 DEF Take, None
  <2>5. /\ csize' \in Seq(Data) /\ Len(csize') = Len(csize) + 1
        /\ csize' = [i \in 1 .. Len(csize') |-> i]
      BY <2>1, <2>3, NextNumber DEF Inv, TypeOK, Order
  <2>6. /\ q' \in [Slot -> CJ] /\ q'[front].state = "WRITING" /\ q'[front].last = q[front].last
        /\ q'[front].out = q[front].out /\ \A j \in Slot : j # front => q'[j] = q[j]
      BY <1>2, <2>1 DEF Inv, TypeOK, CJ
  <2>7. /\ Freed' = Freed /\ Placed' = Placed
        /\ \A i \in Slot : Dist(i)' = Dist(i) /\ (InUse(i)' <=> InUse(i))
    <3>1. Freed' = Freed
        BY <1>4, <2>4, <2>5 DEF Freed
    <3> QED BY <1>1, <3>1 DEF Placed, Dist, InUse
  <2>8. TypeOK'
      BY <1>1, <2>4, <2>5, <2>6 DEF Inv, TypeOK, CJ
  <2>9. Counters'
    <3>1. mpc # "done"
        BY <1>1 DEF Inv, Counters
    <3> QED BY <1>1, <2>7, <3>1 DEF Inv, Counters
  <2>10. Stages'
      BY <1>1, <1>2, <2>2, <2>6, <2>7 DEF Inv, Stages, Stage
  <2>11. Contents'
    <3> SUFFICES ASSUME NEW j \in Slot, InUse(j)' PROVE Carries(j)'
        BY DEF Contents, Carries
    <3>1. InUse(j) /\ Carries(j)
        BY <2>7 DEF Inv, Contents
    <3>2. CASE j = front
      <4>1. cpc[front] \notin {"slot", "compress", "ended"}
          BY <1>2, <2>2 DEF Inv, Stages, Stage
      <4>2. q[front].out = Freed + Dist(front) + 1 /\ ~(Freed + Dist(front) >= sent)
          BY <1>6, <2>2, <3>1, <3>2, <4>1 DEF Carries
      <4> QED BY <1>1, <1>6, <2>6, <2>7, <3>2, <4>1, <4>2 DEF Carries
    <3>3. CASE j # front
        BY <1>1, <2>6, <2>7, <3>1, <3>3 DEF Carries
    <3> QED BY <3>2, <3>3
  <2>12. Written'
      BY <1>1, <1>2, <1>6, <2>2, <2>4, <2>6, FrontInUse DEF Inv, Written, Signalled, Ready, Contents, Carries
  <2>13. Order'
      BY <1>1, <1>4, <2>4, <2>5 DEF Inv, Order
  <2> QED BY <1>3, <2>8, <2>9, <2>10, <2>11, <2>12, <2>13 DEF Inv
<1> QED BY <1>5, <1>6

(* The write thread appends the output of the buffer at the front. *)
LEMMA WriteOutStep ==
    ASSUME Inv, WriteOut
    PROVE  Inv'
<1>1. /\ wpc = "write" /\ wpc' = "free" /\ archive' = Append(archive, q[front].out)
      /\ UNCHANGED <<q, front, empty, compressors, full, compressed, main, cpc, csize>>
      /\ UNCHANGED <<mpc, sent, k>>
    BY DEF WriteOut, main, sems
<1>2. q[front].state = "WRITING" /\ front \in Slot
    BY <1>1 DEF Inv, TypeOK, Written, Signalled
<1>3. /\ Len(csize) \in Nat /\ Len(archive) \in Nat /\ Freed = Len(csize) - 1
      /\ Len(archive) = Len(csize) - 1
    BY <1>1 DEF Inv, TypeOK, Order, Freed
<1>4. q[front].out = Len(archive) + 1 /\ q[front].out \in Data
  <2>1. InUse(front) /\ ~q[front].last /\ Dist(front) = 0 /\ cpc[front] = "full"
      BY <1>2, FrontInUse, Positions DEF Inv, TypeOK, Contents, Carries, Stages, Stage
  <2> QED BY <1>2, <1>3, <2>1 DEF Inv, TypeOK, Contents, Carries
<1>5. /\ archive' \in Seq(Data) /\ Len(archive') = Len(archive) + 1
      /\ archive' = [i \in 1 .. Len(archive') |-> i]
    BY <1>1, <1>4, NextNumber DEF Inv, TypeOK, Order
<1>6. Freed' = Freed /\ Placed' = Placed
      /\ \A i \in Slot : Dist(i)' = Dist(i) /\ (InUse(i)' <=> InUse(i))
    BY <1>1, SameWindow
<1>7. TypeOK'
    BY <1>1, <1>5 DEF Inv, TypeOK
<1>8. Counters'
    BY <1>1, <1>6 DEF Inv, Counters
<1>9. Stages'
    BY <1>1, <1>6 DEF Inv, Stages, Stage
<1>10. Contents'
    BY <1>1, <1>6 DEF Inv, Contents, Carries
<1>11. Written'
    BY <1>1, <1>2 DEF Inv, Written, Signalled, Ready
<1>12. Order'
  <2>1. csize' = [i \in 1 .. Len(csize') |-> i]
      BY <1>1 DEF Inv, Order
  <2>2. Len(archive') = Len(csize')
      BY <1>1, <1>3, <1>5
  <2> QED BY <1>1, <1>5, <2>1, <2>2 DEF Order
<1>13. Units'
    BY <1>1, UnitsFrame DEF Inv
<1> QED BY <1>7, <1>8, <1>9, <1>10, <1>11, <1>12, <1>13 DEF Inv

(* The write thread frees the buffer at the front, moves the front on and  *)
(* signals "empty".                                                        *)
LEMMA FreeStep ==
    ASSUME Inv, Free
    PROVE  Inv'
<1>1. /\ wpc = "free" /\ wpc' = "compressed" /\ front' = (front + 1) % qsize /\ empty' \in signal(empty)
      /\ q' = [q EXCEPT ![front].out = None, ![front].state = "EMPTY"]
      /\ UNCHANGED <<compressors, full, compressed, cpc, archive, csize, mpc, sent, k>>
    BY DEF Free, main
<1>2. q[front].state = "WRITING" /\ front \in Slot
    BY <1>1 DEF Inv, TypeOK, Written, Signalled
<1>3. /\ InUse(front) /\ ~q[front].last /\ Dist(front) = 0 /\ Freed < Placed
      /\ Freed \in 0 .. sent /\ sent \in 0 .. Blocks /\ Freed < sent
      /\ cpc[front] = "full" /\ full[front].n # 1
  <2>1. /\ InUse(front) /\ Dist(front) = 0 /\ Freed < Placed
        /\ Freed \in 0 .. sent /\ sent \in 0 .. Blocks
      BY <1>2, FrontInUse, Positions DEF Inv, TypeOK
  <2>2. ~q[front].last
      BY <1>2, <2>1 DEF Inv, Contents, Carries
  <2>3. Freed < sent
      BY <1>2, <2>1, <2>2, FrontInUse, PipelineAssumption
  <2>4. cpc[front] = "full" /\ full[front].n # 1
      BY <1>2 DEF Inv, TypeOK, Stages, Stage
  <2> QED BY <2>1, <2>2, <2>3, <2>4
<1>4. Freed' = Freed + 1 /\ Placed' = Placed /\ Placed \in Nat /\ Placed - Freed <= qsize
    BY <1>1, WindowSize DEF Freed, Placed, Inv, TypeOK
<1>5. /\ front' \in Slot /\ front' = IF front = qsize - 1 THEN 0 ELSE front + 1
    BY <1>1, <1>2, NextFront, RingSize DEF Slot
<1>f. PICK f \in Slot : f = front
    BY <1>2
<1>6. /\ \A j \in Slot : Dist(j) \in 0 .. qsize - 1
      /\ Dist(f)' = qsize - 1 /\ \A j \in Slot : j # f => Dist(j)' = Dist(j) - 1
  <2>1. \A j \in Slot : Dist(j) \in 0 .. qsize - 1
      BY Positions DEF Inv, TypeOK
  <2>2. \A j \in Slot : Dist(j) = IF j >= f THEN j - f ELSE j - f + qsize
      BY <1>f, Distance DEF Dist
  <2>3. \A j \in Slot : Dist(j)' = IF j >= front' THEN j - front' ELSE j - front' + qsize
      BY <1>5, Distance DEF Dist
  <2>4. \A j \in Slot : j # f => Dist(j)' = Dist(j) - 1
      BY <1>f, <1>5, <2>2, <2>3, RingSize DEF Slot
  <2>5. Dist(f)' = qsize - 1
      BY <1>f, <1>5, <2>3, RingSize DEF Slot
  <2> QED BY <2>1, <2>4, <2>5
<1>7. \A j \in Slot : InUse(j)' <=> InUse(j) /\ j # f
  <2>1. ASSUME NEW j \in Slot, j # f PROVE InUse(j)' <=> InUse(j)
      BY <2>1, <1>3, <1>4, <1>6, RingSize, PipelineAssumption DEF InUse
  <2>2. ~InUse(f)'
      BY <1>3, <1>4, <1>6, RingSize, PipelineAssumption DEF InUse
  <2> QED BY <2>1, <2>2
<1>8. None \in Data
    BY PipelineAssumption DEF Data, None
<1>9. /\ q' \in [Slot -> CJ] /\ q'[f].state = "EMPTY" /\ \A j \in Slot : j # f => q'[j] = q[j]
  <2>1. q \in [Slot -> CJ]
      BY DEF Inv, TypeOK, CJ
  <2>2. q' = [q EXCEPT ![f].out = None, ![f].state = "EMPTY"]
      BY <1>f, <1>1
  <2> QED BY <1>8, <2>1, <2>2 DEF CJ
<1>10. /\ empty' \in Semaphore /\ empty'.n = empty.n + 1 /\ Private(empty', Main)
       /\ empty'.n \in 0 .. qsize /\ empty.n \in Nat
  <2>1. empty \in Semaphore /\ empty.n \in 0 .. qsize /\ Private(empty, Main) /\ Main \in Thread
      BY DEF Inv, TypeOK, Counters, Thread, Main
  <2>2. empty' \in Semaphore /\ empty'.n = empty.n + 1 /\ Private(empty', Main)
      BY <1>1, <2>1, RingSize, SignalAdds, SignalPrivate
  <2>3. empty.n < qsize
      BY <1>3, <1>4, <2>1, RingSize, PipelineAssumption DEF Inv, Counters
  <2> QED BY <2>1, <2>2, <2>3, RingSize
<1>11. TypeOK'
    BY <1>1, <1>5, <1>9, <1>10 DEF Inv, TypeOK, CJ
<1>12. Counters'
  <2>1. empty'.n = qsize - (Placed' - Freed') - (IF mpc' = "fill" THEN 1 ELSE 0)
      BY <1>1, <1>3, <1>4, <1>10, RingSize, PipelineAssumption DEF Inv, Counters
  <2>2. Freed' \in 0 .. sent'
      BY <1>1, <1>3, <1>4, PipelineAssumption
  <2>3. mpc' # "done"
      BY <1>1 DEF Inv, Counters
  <2> QED BY <1>1, <1>10, <2>1, <2>2, <2>3 DEF Inv, Counters
<1>13. Stages'
    BY <1>f, <1>1, <1>3, <1>7, <1>9 DEF Inv, Stages, Stage
<1>14. Contents'
  <2> SUFFICES ASSUME NEW j \in Slot, InUse(j)' PROVE Carries(j)'
      BY DEF Contents, Carries
  <2>1. InUse(j) /\ j # f /\ Carries(j)
      BY <1>7 DEF Inv, Contents
  <2>2. Freed' + Dist(j)' = Freed + Dist(j)
      BY <1>3, <1>4, <1>6, <2>1, RingSize, PipelineAssumption
  <2> QED BY <1>1, <1>9, <2>1, <2>2 DEF Carries
<1>15. Written'
    BY <1>f, <1>1, <1>2, <1>3, <1>9 DEF Inv, Written, Signalled, Ready
<1>16. Order'
    BY <1>1 DEF Inv, Order
<1>17. Units'
    BY <1>1, UnitsFrame DEF Inv
<1> QED BY <1>11, <1>12, <1>13, <1>14, <1>15, <1>16, <1>17 DEF Inv

-----------------------------------------------------------------------------
(* All buffers are free at first. *)
LEMMA InvInit == Init => Inv
<1> SUFFICES ASSUME Init PROVE Inv
    OBVIOUS
<1>1. qsize \in Nat \ {0} /\ Blocks \in Nat /\ Threads \in Nat \ {0} /\ qsize = 2 * Threads - 1
    BY RingSize, PipelineAssumption
<1>2. None \in Data
    BY <1>1 DEF Data, None
<1>3. \A n \in Int, th \in Thread :
         init(n) \in Semaphore /\ init(n).n = n /\ Private(init(n), th)
    BY DEF init, Semaphore, Private
<1>4. q \in [Slot -> CJ] /\ \A i \in Slot : q[i].state = "EMPTY" /\ cpc[i] = "full"
    BY <1>2 DEF Init, CJ
<1>5. /\ full \in [Slot -> Semaphore] /\ compressed \in [Slot -> Semaphore]
      /\ \A i \in Slot : /\ full[i].n = 0 /\ compressed[i].n = 0
                          /\ Private(full[i], i) /\ Private(compressed[i], Writer)
    BY <1>3 DEF Init, Thread, Writer
<1>6. empty \in Semaphore /\ empty.n = qsize /\ Private(empty, Main)
      /\ compressors \in Semaphore /\ compressors.n = Threads
  <2>1. Main \in Thread /\ qsize \in Int /\ Threads \in Int
      BY <1>1 DEF Thread, Main
  <2>2. empty = init(qsize) /\ compressors = init(Threads)
      BY DEF Init
  <2> QED BY <1>3, <2>1, <2>2
<1>7. front \in Slot
    BY <1>1 DEF Init, Slot
<1>8. csize = << >> /\ archive = << >> /\ Len(csize) = 0 /\ Len(archive) = 0
      /\ csize \in Seq(Data) /\ archive \in Seq(Data)
    BY DEF Init
<1>9. TypeOK
    BY <1>1, <1>4, <1>5, <1>6, <1>7, <1>8 DEF Init, TypeOK, CJ
<1>10. Freed = 0 /\ Placed = 0
    BY <1>1, <1>8 DEF Init, Freed, Placed
<1>11. \A i \in Slot : ~InUse(i)
    BY <1>1, <1>7, <1>10, Positions DEF InUse
<1>12. Counters
    BY <1>1, <1>6, <1>10 DEF Init, Counters
<1>13. Stages
    BY <1>4, <1>5, <1>11 DEF Stages, Stage
<1>14. Contents
    BY <1>11 DEF Contents, Carries
<1>15. Written
    BY <1>4, <1>5 DEF Init, Written, Signalled, Ready
<1>16. Order
    BY <1>8 DEF Init, Order
<1>17. Units
  <2>1. Compressing = {}
      BY <1>4 DEF Compressing
  <2> QED BY <1>1, <1>6, <2>1, FS_EmptySet DEF Units
<1> QED BY <1>9, <1>12, <1>13, <1>14, <1>15, <1>16, <1>17 DEF Inv

(* Every step keeps the invariant, one lemma per action. *)
LEMMA InvStep == Inv /\ [Next]_vars => Inv'
<1> SUFFICES ASSUME Inv, [Next]_vars PROVE Inv'
    OBVIOUS
<1>1. CASE UNCHANGED vars
  <2>1. UNCHANGED <<q, front, empty, compressors, full, compressed, main, mpc, sent, k, cpc, wpc,
                    archive, csize>>
      BY <1>1 DEF vars, sems, main
  <2>2. TypeOK'
      BY <2>1 DEF Inv, TypeOK
  <2> QED BY <2>1, <2>2, CountersFrame, StagesFrame, ContentsFrame, WrittenFrame, OrderFrame,
             UnitsFrame DEF Inv
<1>2. CASE MainStep
    BY <1>2, MainWaitsStep, FillStep, JoinStep DEF MainStep
<1>3. CASE WriteStep
    BY <1>3, WaitCompressedStep, TakeStep, WriteOutStep, FreeStep DEF WriteStep
<1>4. ASSUME NEW i \in Slot, CompressStep(i) PROVE Inv'
    BY <1>4, WaitFullStep, CheckMethodStep, WaitCompressorsStep, CompressStepKeeps,
       CompressedStep DEF CompressStep
<1> QED BY <1>1, <1>2, <1>3, <1>4 DEF Next

(* What Inv says of the ring of buffers, its semaphores and the archive    *)
(* holds in every state of CompressJob.                                    *)
THEOREM PipelineInvariant == Spec => []Inv
BY InvInit, InvStep, PTL DEF Spec

(* Every counter and every semaphore of CompressJob stays in its range:    *)
(* "empty" between 0 and qsize, "full" and "compressed" of a buffer at 0   *)
(* or 1.                                                                   *)
THEOREM PipelineTypes == Spec => []TypeOK
<1>1. Inv => TypeOK
    BY DEF Inv
<1> QED BY <1>1, PipelineInvariant, PTL

(* CompressJob::write always finds an EMPTY buffer after empty.wait(), so  *)
(* the search that ends in "queue should not be full" never fails.         *)
THEOREM WriteFindsBuffer == Spec => []QueueNotFull
<1>1. Inv => QueueNotFull
  <2> SUFFICES ASSUME Inv, mpc = "fill" PROVE \E i \in Slot : q[i].state = "EMPTY"
      BY DEF QueueNotFull
  <2> QED BY FillPlace
<1> QED BY <1>1, PipelineInvariant, PTL

(* writeThread appends the blocks in the order in which write() got them,  *)
(* whatever the order the compressThreads finish in, and when add() goes   *)
(* on after its joins all are there and csize has one entry for each.      *)
THEOREM BlocksInOrder == Spec => []InOrder
<1>1. Inv => InOrder
  <2> SUFFICES ASSUME Inv PROVE InOrder
      OBVIOUS
  <2>1. archive = [i \in 1 .. Len(archive) |-> i]
      BY DEF Inv, Order
  <2>2. ASSUME mpc = "done" PROVE Len(archive) = Blocks /\ csize = archive
    <3>1. wpc = "ended"
        BY <2>2 DEF Inv, Counters
    <3>2. Len(csize) = Blocks /\ Len(archive) = Len(csize)
        BY <3>1 DEF Inv, Order
    <3>3. csize = [i \in 1 .. Len(csize) |-> i]
        BY DEF Inv, Order
    <3> QED BY <2>1, <3>2, <3>3
  <2> QED BY <2>1, <2>2 DEF InOrder
<1> QED BY <1>1, PipelineInvariant, PTL

-----------------------------------------------------------------------------
(* The journaling archive: what read_archive makes of the cells of a file, *)
(* and what a completed update adds to that.                               *)

(* How far read_archive has come behind a cell. *)
At(f, w, p) == reading(f, w)[p]

(* What read_archive keeps in mind. *)
Entry == [start : Nat, offset : Nat]
ReadState == [done : BOOLEAN, at : Nat, ver : Nat, data : Nat, offset : Nat,
              ht : Seq(Fragment \cup {"unknown"}),
              block : Seq(Entry), dt : Seq(Nat), errors : Nat]

(* Every fragment is in a data block of its own in the first b cells of    *)
(* the file f, and they are listed in the order of the fragments' numbers. *)
Located(h, blk, f, b) ==
    /\ h \in Seq(Fragment)
    /\ blk \in Seq([start : Nat, offset : 1 .. b]) /\ Len(blk) = Len(h)
    /\ \A n \in 1 .. Len(h) : blk[n].start = n /\ f[blk[n].offset] = DataBlock(h[n])

(* After its first b cells the file f reads as version v with content x,   *)
(* whichever later version is asked for.                                   *)
Good(r, f, b, v, x) ==
    /\ r \in ReadState
    /\ ~r.done /\ r.at = b + 1 /\ r.ver = v /\ r.offset = b /\ r.errors = 0
    /\ Located(r.ht, r.block, f, b)
    /\ r.dt \in Seq(1 .. Len(r.ht))
    /\ Extracted(r) = x

Holds(f, b, v, x) ==
    /\ \A w \in v .. Latest : At(f, w, b) = At(f, Latest, b)
    /\ Good(At(f, Latest, b), f, b, v, x)

-----------------------------------------------------------------------------
(* A set of numbers that is not empty has a least element. *)
LEMMA LeastNumber ==
    ASSUME NEW S \in SUBSET Nat, S # {}
    PROVE  \E m \in S : \A n \in S : m <= n
<1>1. PICK m \in S : \A n \in S : <<n, m>> \notin OpToRel(<, Nat)
    BY NatLessThanWellFounded, WFMin
<1>2. ASSUME NEW n \in S PROVE m <= n
    <2>1. ~(n < m)
        BY <1>1 DEF OpToRel
    <2> QED BY <2>1
<1> QED BY <1>2

(* The equation of reading has a solution: from one for the first blocks   *)
(* one for the next block too is made.                                     *)
LEMMA ReadingExists ==
    ASSUME NEW f, Len(f) \in Nat, NEW w
    PROVE  \E g : g = [p \in 0 .. Len(f) |->
                          IF p = 0 THEN Start ELSE ReadBlock(g[p - 1], f[p], p, w)]
<1> DEFINE Solves(g, m) == g = [p \in 0 .. m |->
                                  IF p = 0 THEN Start ELSE ReadBlock(g[p - 1], f[p], p, w)]
           S == {m \in 0 .. Len(f) : ~\E g : Solves(g, m)}
<1> HIDE DEF Solves
<1>s. S \subseteq Nat
    OBVIOUS
<1>1. ASSUME NEW m \in S, \A n \in S : m <= n PROVE FALSE
    <2>0. m \in 0 .. Len(f) /\ ~\E g : Solves(g, m)
        OBVIOUS
    <2>1. CASE m = 0
        <3> DEFINE g == [p \in 0 .. 0 |-> Start]
        <3>1. Solves(g, 0)
            BY DEF Solves
        <3> QED BY <2>0, <2>1, <3>1
    <2>2. CASE m # 0
        <3>0. m \in 1 .. Len(f) /\ m - 1 \in 0 .. Len(f) /\ ~(m <= m - 1)
            BY <2>0, <2>2
        <3>1. m \in 1 .. Len(f) /\ m - 1 \in 0 .. Len(f) /\ m - 1 \notin S
            BY <1>1, <3>0
        <3>2. PICK g : Solves(g, m - 1)
            BY <3>1
        <3> DEFINE h == [p \in 0 .. m |-> IF p = m THEN ReadBlock(g[m - 1], f[m], m, w) ELSE g[p]]
        <3>3. /\ g[0] = Start
              /\ \A p \in 1 .. m - 1 : g[p] = ReadBlock(g[p - 1], f[p], p, w)
            <4>1. g = [p \in 0 .. m - 1 |->
                          IF p = 0 THEN Start ELSE ReadBlock(g[p - 1], f[p], p, w)]
                BY <3>2 DEF Solves
            <4>2. ASSUME NEW p \in 1 .. m - 1 PROVE g[p] = ReadBlock(g[p - 1], f[p], p, w)
                <5>1. p \in 0 .. m - 1 /\ p # 0
                    BY <3>1
                <5> QED BY <4>1, <5>1
            <4>3. g[0] = Start
                <5>1. 0 \in 0 .. m - 1
                    BY <3>1
                <5> QED BY <4>1, <5>1
            <4> QED BY <4>2, <4>3
        <3>4. h[0] = Start /\ h[m] = ReadBlock(h[m - 1], f[m], m, w)
            BY <3>1, <3>3
        <3>5. \A p \in 1 .. m - 1 : h[p] = ReadBlock(h[p - 1], f[p], p, w)
            BY <3>1, <3>3
        <3>6. h = [p \in 0 .. m |-> h[p]]
            OBVIOUS
        <3> HIDE DEF h
        <3>7. ASSUME NEW p \in 0 .. m
              PROVE  h[p] = IF p = 0 THEN Start ELSE ReadBlock(h[p - 1], f[p], p, w)
            <4>1. p = 0 \/ p = m \/ p \in 1 .. m - 1
                BY <3>1
            <4> QED BY <2>2, <3>4, <3>5, <4>1
        <3>8. Solves(h, m)
            BY <3>6, <3>7 DEF Solves
        <3> QED BY <2>0, <3>8
    <2> QED BY <2>1, <2>2
<1>2. S = {}
    <2> HIDE DEF S
    <2> QED BY <1>s, <1>1, LeastNumber
<1>3. \E g : Solves(g, Len(f))
    BY <1>2
<1> QED BY <1>3 DEF Solves

(* read_archive goes from block to block. *)
LEMMA AtSteps ==
    ASSUME NEW f, Len(f) \in Nat, NEW w
    PROVE  /\ At(f, w, 0) = Start
           /\ \A p \in 1 .. Len(f) : At(f, w, p) = ReadBlock(At(f, w, p - 1), f[p], p, w)
<1> DEFINE Solves(g) == g = [p \in 0 .. Len(f) |->
                                IF p = 0 THEN Start ELSE ReadBlock(g[p - 1], f[p], p, w)]
           g == CHOOSE h : Solves(h)
<1>1. \E h : Solves(h)
    BY ReadingExists
<1>2. Solves(g)
    <2> HIDE DEF Solves
    <2> QED BY <1>1
<1>3. reading(f, w) = g
    BY DEF reading
<1> HIDE DEF g
<1>4. g[0] = Start /\ \A p \in 1 .. Len(f) : g[p] = ReadBlock(g[p - 1], f[p], p, w)
    BY <1>2
<1> QED BY <1>3, <1>4 DEF At

(* The same for one block. *)
LEMMA AtNext ==
    ASSUME NEW f, Len(f) \in Nat, NEW w, NEW p \in 0 .. Len(f), NEW s \in 1 .. Len(f), s = p + 1
    PROVE  At(f, w, s) = ReadBlock(At(f, w, p), f[s], s, w)
<1>1. s - 1 = p
    OBVIOUS
<1> QED BY <1>1, AtSteps

(* The four kinds of blocks. *)
LEMMA BlockKinds ==
    ASSUME NEW b \in Block
    PROVE  \/ b.kind = "c" /\ b.jmp \in -1 .. MaxFragments
           \/ b.kind = "d" /\ \E g \in Fragment : b = DataBlock(g)
           \/ b.kind = "h" /\ b.num \in 1 .. MaxUpdates * MaxFragments /\ b.frag \in Fragment
           \/ b.kind = "i" /\ \E n \in 1 .. MaxFragments :
                                 b.ptr \in [1 .. n -> 1 .. MaxUpdates * MaxFragments]
<1>1. CASE b \in {Header(jmp) : jmp \in -1 .. MaxFragments}
    BY <1>1 DEF Header
<1>2. CASE b \in {DataBlock(g) : g \in Fragment}
    BY <1>2 DEF DataBlock
<1>3. CASE b \in {Table(num, g) : num \in 1 .. MaxUpdates * MaxFragments, g \in Fragment}
    BY <1>3 DEF Table
<1>4. CASE b \in {Index(ptr) : ptr \in UNION {[1 .. n -> 1 .. MaxUpdates * MaxFragments] :
                                                n \in 1 .. MaxFragments}}
    BY <1>4 DEF Index
<1> QED BY <1>1, <1>2, <1>3, <1>4 DEF Block

(* A block that is read keeps the state of the reading in its type.  It    *)
(* moves block_offset forward, but not behind itself, and the fragments    *)
(* that are known then are no more than the tables have numbers.           *)
LEMMA ReadBlockType ==
    ASSUME NEW r \in ReadState, NEW b \in Block, NEW p \in Nat \ {0}, NEW w,
           r.offset < p, NEW M \in Nat, Len(r.ht) <= M, b.kind = "h" => b.num <= M,
           NEW s, s = ReadBlock(r, b, p, w)
    PROVE  s \in ReadState /\ s.offset <= p /\ r.offset <= s.offset /\ Len(s.ht) <= M
<1> USE JournalAssumption
<1>0. /\ r.done \in BOOLEAN /\ r.at \in Nat /\ r.ver \in Nat /\ r.data \in Nat
      /\ r.offset \in Nat /\ r.ht \in Seq(Fragment \cup {"unknown"})
      /\ r.block \in Seq(Entry) /\ r.dt \in Seq(Nat)
      /\ r.errors \in Nat
    BY DEF ReadState
<1>1. CASE r.done \/ p < r.at
    BY <1>0, <1>1 DEF ReadBlock
<1>2. CASE ~(r.done \/ p < r.at) /\ b.kind = "c"
    <2>1. s = ReadHeader(r, b, p, w)
        BY <1>2 DEF ReadBlock
    <2>2. b.jmp \in -1 .. MaxFragments
        BY <1>2, BlockKinds DEF DataBlock
    <2>3. CASE b.jmp < 0 \/ r.ver >= w
        <3>1. s = [r EXCEPT !.done = TRUE]
            BY <2>1, <2>3 DEF ReadHeader
        <3>2. s \in ReadState /\ s.offset = r.offset /\ s.ht = r.ht
            BY <3>1 DEF ReadState
        <3> QED BY <1>0, <3>2
    <2>4. CASE ~(b.jmp < 0 \/ r.ver >= w)
        <3>1. s = [r EXCEPT !.ver = @ + 1, !.data = p + 1, !.at = p + 1 + b.jmp,
                   !.offset = IF b.jmp = 0 THEN p ELSE @]
            BY <2>1, <2>4 DEF ReadHeader
        <3>2. r.ver + 1 \in Nat /\ p + 1 \in Nat /\ p + 1 + b.jmp \in Nat
              /\ (IF b.jmp = 0 THEN p ELSE r.offset) \in Nat
            <4>1. PICK j \in Nat : j = b.jmp
                BY <2>2, <2>4
            <4>2. PICK o \in Nat, e \in Nat : o = r.offset /\ e = r.ver
                BY <1>0
            <4>3. e + 1 \in Nat /\ p + 1 \in Nat /\ p + 1 + j \in Nat
                OBVIOUS
            <4> QED BY <4>1, <4>2, <4>3
        <3>3. s \in ReadState /\ s.offset = (IF b.jmp = 0 THEN p ELSE r.offset) /\ s.ht = r.ht
            BY <3>1, <3>2 DEF ReadState
        <3> QED BY <1>0, <3>3
    <2> QED BY <2>3, <2>4
<1>3. CASE ~(r.done \/ p < r.at) /\ b.kind = "d"
    <2>1. s = [r EXCEPT !.errors = @ + 1, !.at = p + 1]
        BY <1>3 DEF ReadBlock
    <2>e. r.errors + 1 \in Nat /\ p + 1 \in Nat
        BY <1>0
    <2>2. s \in ReadState /\ s.offset = r.offset /\ s.ht = r.ht
        BY <2>1, <2>e DEF ReadState
    <2> QED BY <1>0, <2>2
<1>4. CASE ~(r.done \/ p < r.at) /\ b.kind = "h"
    <2>1. s = ReadTable(r, b, p)
        BY <1>4 DEF ReadBlock
    <2>2. b.num \in 1 .. MaxUpdates * MaxFragments /\ b.frag \in Fragment
        BY <1>4, BlockKinds DEF DataBlock
    <2>3. PICK c \in Nat : c = b.num
        BY <2>2
    <2>4. PICK l \in Nat : l = Len(r.ht)
        BY <1>0
    <2>5. PICK m \in Nat : m = IF c > l THEN c ELSE l
        BY <2>3, <2>4
    <2> DEFINE h == [n \in 1 .. m |-> IF n = c THEN b.frag
                                      ELSE IF n <= l THEN r.ht[n] ELSE "unknown"]
               e == [start |-> c, offset |-> r.data]
    <2>6. s = [r EXCEPT !.ht = h, !.block = Append(@, e),
                        !.data = @ + 1, !.at = p + 1, !.offset = p]
        BY <2>1, <2>3, <2>4, <2>5 DEF ReadTable
    <2>7. \A n \in 1 .. m : h[n] \in Fragment \cup {"unknown"}
        BY <1>0, <2>2, <2>4
    <2>8. h \in Seq(Fragment \cup {"unknown"}) /\ Len(h) = m
        <3>1. h \in [1 .. m -> Fragment \cup {"unknown"}]
            BY <2>7
        <3> HIDE DEF h
        <3> QED BY <3>1
    <2>9. Append(r.block, e) \in Seq(Entry)
        BY <1>0, <2>3 DEF Entry
    <2> HIDE DEF h, e
    <2>10. s \in ReadState /\ s.offset = p /\ s.ht = h
        <3>1. r.data + 1 \in Nat /\ p + 1 \in Nat
            BY <1>0
        <3> QED BY <2>6, <2>8, <2>9, <3>1 DEF ReadState
    <2>11. m <= M
        BY <1>4, <2>3, <2>4, <2>5
    <2> QED BY <1>0, <2>8, <2>10, <2>11
<1>5. CASE ~(r.done \/ p < r.at) /\ b.kind = "i"
    <2>1. s = [r EXCEPT !.dt = b.ptr, !.at = p + 1, !.offset = p]
        BY <1>5 DEF ReadBlock
    <2>2. PICK n \in 1 .. MaxFragments : b.ptr \in [1 .. n -> 1 .. MaxUpdates * MaxFragments]
        BY <1>5, BlockKinds DEF DataBlock
    <2>3. b.ptr \in Seq(Nat)
        BY <2>2
    <2>4. s \in ReadState /\ s.offset = p /\ s.ht = r.ht
        <3>1. p + 1 \in Nat
            OBVIOUS
        <3> QED BY <2>1, <2>3, <3>1 DEF ReadState
    <2> QED BY <1>0, <2>4
<1>6. b.kind \in {"c", "d", "h", "i"}
    BY BlockKinds DEF DataBlock
<1> QED BY <1>1, <1>2, <1>3, <1>4, <1>5, <1>6

(* The tables of a file have no number above M. *)
Numbered(f, M) == \A n \in 1 .. Len(f) : f[n].kind = "h" => f[n].num <= M

(* What read_archive finds in any file of blocks. *)
LEMMA AtType ==
    ASSUME NEW f \in Seq(Block), NEW w, NEW M \in Nat, Numbered(f, M)
    PROVE  \A p \in 0 .. Len(f) : /\ At(f, w, p) \in ReadState
                                  /\ At(f, w, p).offset <= p
                                  /\ Len(At(f, w, p).ht) <= M
<1> DEFINE Fits(p) == /\ At(f, w, p) \in ReadState
                      /\ At(f, w, p).offset <= p
                      /\ Len(At(f, w, p).ht) <= M
           S == {p \in 0 .. Len(f) : ~Fits(p)}
<1>0. Len(f) \in Nat
    OBVIOUS
<1>s. S \subseteq Nat
    BY <1>0
<1>1. ASSUME NEW m \in S, \A n \in S : m <= n PROVE FALSE
    <2>1. CASE m = 0
        <3>1. At(f, w, 0) = Start
            BY <1>0, AtSteps
        <3>2. Start \in ReadState /\ Start.offset = 0 /\ Len(Start.ht) = 0
            BY DEF Start, ReadState
        <3> QED BY <2>1, <3>1, <3>2
    <2>2. CASE m # 0
        <3>0. m \in 0 .. Len(f)
            OBVIOUS
        <3>1. PICK p \in 0 .. Len(f) : m = p + 1
            BY <1>0, <2>2, <3>0
        <3>2. m \in 1 .. Len(f) /\ m \in Nat \ {0}
            BY <1>0, <2>2, <3>0
        <3>3. p \notin S
            BY <1>0, <1>1, <3>1
        <3>4. Fits(p)
            BY <3>1, <3>3
        <3> DEFINE r == At(f, w, p)
                   s == At(f, w, m)
        <3>5. s = ReadBlock(r, f[m], m, w)
            BY <1>0, <3>1, <3>2, AtNext
        <3>6. f[m] \in Block /\ (f[m].kind = "h" => f[m].num <= M)
            BY <3>2 DEF Numbered
        <3>7. r \in ReadState /\ r.offset <= p /\ Len(r.ht) <= M
            BY <3>4
        <3>8. r.offset < m
            BY <3>1, <3>7 DEF ReadState
        <3> HIDE DEF r, s
        <3>9. s \in ReadState /\ s.offset <= m /\ Len(s.ht) <= M
            BY <3>2, <3>5, <3>6, <3>7, <3>8, ReadBlockType
        <3>10. Fits(m)
            BY <3>9 DEF s
        <3> QED BY <3>10
    <2> QED BY <2>1, <2>2
<1>2. S = {}
    <2> HIDE DEF S
    <2> QED BY <1>s, <1>1, LeastNumber
<1> QED BY <1>2

(* block_offset never moves back. *)
LEMMA OffsetGrows ==
    ASSUME NEW f \in Seq(Block), NEW w, NEW M \in Nat, Numbered(f, M), NEW b \in 0 .. Len(f)
    PROVE  At(f, w, b).offset <= At(f, w, Len(f)).offset
<1> DEFINE S == {p \in b .. Len(f) : ~(At(f, w, b).offset <= At(f, w, p).offset)}
<1>0. Len(f) \in Nat /\ b \in Nat
    OBVIOUS
<1>t. \A p \in 0 .. Len(f) : /\ At(f, w, p) \in ReadState
                             /\ At(f, w, p).offset \in Nat
                             /\ At(f, w, p).offset <= p
                             /\ Len(At(f, w, p).ht) <= M
    BY AtType DEF ReadState
<1>s. S \subseteq Nat
    BY <1>0
<1>1. ASSUME NEW m \in S, \A n \in S : m <= n PROVE FALSE
    <2>0. m \in b .. Len(f) /\ ~(At(f, w, b).offset <= At(f, w, m).offset)
        OBVIOUS
    <2>1. m # b
        BY <1>t, <2>0
    <2>2. PICK p \in 0 .. Len(f) : m = p + 1 /\ p \in b .. Len(f)
        BY <1>0, <2>0, <2>1
    <2>3. m \in 1 .. Len(f) /\ m \in Nat \ {0}
        BY <1>0, <2>0, <2>2
    <2>4. p \notin S
        BY <1>0, <1>1, <2>2
    <2> DEFINE r == At(f, w, p)
               s == At(f, w, m)
               t == At(f, w, b)
    <2>5. s = ReadBlock(r, f[m], m, w)
        BY <1>0, <2>2, <2>3, AtNext
    <2>6. f[m] \in Block /\ (f[m].kind = "h" => f[m].num <= M)
        BY <2>3 DEF Numbered
    <2>7. r \in ReadState /\ r.offset \in Nat /\ r.offset <= p /\ Len(r.ht) <= M
        BY <1>t, <2>2
    <2>8. t.offset \in Nat /\ s.offset \in Nat
        BY <1>t, <2>3
    <2>9. t.offset <= r.offset /\ ~(t.offset <= s.offset)
        BY <2>0, <2>2, <2>4
    <2> HIDE DEF r, s, t
    <2>10. r.offset < m
        BY <2>2, <2>7
    <2>11. r.offset <= s.offset
        BY <2>3, <2>5, <2>6, <2>7, <2>10, ReadBlockType
    <2> QED BY <2>7, <2>8, <2>9, <2>11
<1>2. S = {}
    <2> HIDE DEF S
    <2> QED BY <1>s, <1>1, LeastNumber
<1>3. Len(f) \in b .. Len(f) /\ Len(f) \notin S
    BY <1>0, <1>2
<1> QED BY <1>3

(* The first cells of two files are the same. *)
SameUpTo(f, g, b) ==
    b <= Len(f) /\ b <= Len(g) /\ \A n \in 1 .. b : f[n] = g[n]

(* The reading of a cell depends on nothing behind it. *)
LEMMA AtLocal ==
    ASSUME NEW f, NEW g, Len(f) \in Nat, Len(g) \in Nat, NEW b \in Nat, SameUpTo(f, g, b), NEW w
    PROVE  \A p \in 0 .. b : At(f, w, p) = At(g, w, p)
<1> DEFINE S == {p \in 0 .. b : At(f, w, p) # At(g, w, p)}
<1>s. S \subseteq Nat
    OBVIOUS
<1>1. ASSUME NEW m \in S, \A n \in S : m <= n PROVE FALSE
    <2>0. m \in 0 .. b /\ At(f, w, m) # At(g, w, m)
        OBVIOUS
    <2>1. m # 0
        BY <2>0, AtSteps
    <2>2. PICK p \in 0 .. b : m = p + 1
        BY <2>0, <2>1
    <2>3. p \notin S
        BY <1>1, <2>2
    <2>4. At(f, w, p) = At(g, w, p)
        BY <2>2, <2>3
    <2>5. /\ m \in 1 .. Len(f) /\ p \in 0 .. Len(f)
          /\ m \in 1 .. Len(g) /\ p \in 0 .. Len(g) /\ m \in 1 .. b
        BY <2>0, <2>2 DEF SameUpTo
    <2>6. At(f, w, m) = ReadBlock(At(f, w, p), f[m], m, w)
        BY <2>2, <2>5, AtNext
    <2>7. At(g, w, m) = ReadBlock(At(g, w, p), g[m], m, w)
        BY <2>2, <2>5, AtNext
    <2>8. f[m] = g[m]
        BY <2>5 DEF SameUpTo
    <2> QED BY <2>0, <2>4, <2>6, <2>7, <2>8
<1>2. S = {}
    <2> HIDE DEF S
    <2> QED BY <1>s, <1>1, LeastNumber
<1> QED BY <1>2

(* Behind an incomplete header, or one that is too new, nothing is read. *)
LEMMA DoneStays ==
    ASSUME NEW f, Len(f) \in Nat, NEW w, NEW b \in 0 .. Len(f), At(f, w, b).done
    PROVE  At(f, w, Len(f)) = At(f, w, b)
<1> DEFINE S == {p \in b .. Len(f) : At(f, w, p) # At(f, w, b)}
<1>s. S \subseteq Nat
    OBVIOUS
<1>1. ASSUME NEW m \in S, \A n \in S : m <= n PROVE FALSE
    <2>0. m \in b .. Len(f) /\ At(f, w, m) # At(f, w, b)
        OBVIOUS
    <2>1. PICK p \in 0 .. Len(f) : m = p + 1 /\ p \in b .. Len(f)
        BY <2>0
    <2>2. p \notin S
        BY <1>1, <2>1
    <2>3. At(f, w, p) = At(f, w, b)
        BY <2>1, <2>2
    <2>4. m \in 1 .. Len(f)
        BY <2>0, <2>1
    <2>5. At(f, w, m) = ReadBlock(At(f, w, p), f[m], m, w)
        BY <2>1, <2>4, AtNext
    <2> QED BY <2>0, <2>3, <2>5 DEF ReadBlock
<1>2. S = {}
    <2> HIDE DEF S
    <2> QED BY <1>s, <1>1, LeastNumber
<1>3. Len(f) \in b .. Len(f) /\ Len(f) \notin S
    BY <1>2
<1> QED BY <1>3

(* A file whose next cell is such a header reads as it does before it. *)
LEMMA ReadStops ==
    ASSUME NEW f, Len(f) \in Nat, NEW w, NEW b \in 0 .. Len(f), NEW r \in ReadState, r = At(f, w, b),
           ~r.done, r.at = b + 1,
           b < Len(f) => f[b + 1].kind = "c" /\ (f[b + 1].jmp < 0 \/ r.ver >= w)
    PROVE  At(f, w, Len(f)) = r \/ At(f, w, Len(f)) = [r EXCEPT !.done = TRUE]
<1>1. CASE b = Len(f)
    BY <1>1
<1>2. CASE b # Len(f)
    <2>1. PICK m \in 1 .. Len(f) : m = b + 1
        BY <1>2
    <2>2. At(f, w, m) = ReadBlock(r, f[m], m, w)
        BY <2>1, AtNext
    <2>3. f[m].kind = "c" /\ (f[m].jmp < 0 \/ r.ver >= w)
        BY <1>2, <2>1
    <2>4. ReadBlock(r, f[m], m, w) = ReadHeader(r, f[m], m, w)
        BY <2>1, <2>3 DEF ReadBlock
    <2>5. At(f, w, m) = [r EXCEPT !.done = TRUE]
        BY <2>2, <2>3, <2>4 DEF ReadHeader
    <2>6. At(f, w, m).done
        BY <2>5 DEF ReadState
    <2>7. At(f, w, Len(f)) = At(f, w, m)
        BY <2>1, <2>6, DoneStays
    <2> QED BY <2>5, <2>7
<1> QED BY <1>1, <1>2

(* What is in the first cells of a file stays there when the others change. *)
LEMMA HoldsLocal ==
    ASSUME NEW f, NEW g, Len(f) \in Nat, Len(g) \in Nat, NEW b \in Nat, SameUpTo(f, g, b),
           NEW v \in Nat, NEW x, Holds(f, b, v, x)
    PROVE  Holds(g, b, v, x) /\ At(g, Latest, b) = At(f, Latest, b)
<1>1. b \in 0 .. b
    OBVIOUS
<1>2. \A w : At(f, w, b) = At(g, w, b)
    BY <1>1, AtLocal
<1> DEFINE r == At(f, Latest, b)
<1>3. Good(r, f, b, v, x)
    BY DEF Holds
<1> HIDE DEF r
<1>4. Good(r, g, b, v, x)
    <2>1. ASSUME NEW n \in 1 .. Len(r.ht)
          PROVE  g[r.block[n].offset] = f[r.block[n].offset]
        <3>0. r.block \in Seq([start : Nat, offset : 1 .. b]) /\ Len(r.block) = Len(r.ht)
            BY <1>3 DEF Good, Located
        <3>1. r.block[n] \in [start : Nat, offset : 1 .. b]
            BY <3>0, ElementOfSeq
        <3>2. r.block[n].offset \in 1 .. b
            BY <3>1
        <3> QED BY <3>2 DEF SameUpTo
    <2> QED BY <1>3, <2>1 DEF Good, Located
<1> QED BY <1>2, <1>4 DEF Holds, r

(* A file that holds a version up to a cell, and stops there, is extracted *)
(* as that version, and an update begins there.                            *)
LEMMA ReadsAsHeld ==
    ASSUME disk \in Seq(Block), NEW b \in 0 .. Len(disk), NEW v \in Nat, NEW x,
           Holds(disk, b, v, x), NEW w \in v .. Latest,
           b < Len(disk) => disk[b + 1].kind = "c" /\ (disk[b + 1].jmp < 0 \/ v >= w),
           NEW r, r = read_archive(w)
    PROVE  /\ r.errors = 0 /\ Extractable(r) /\ Extracted(r) = x
           /\ r.offset = b
           /\ r.ht = At(disk, Latest, b).ht /\ r.dt = At(disk, Latest, b).dt
<1> DEFINE s == At(disk, Latest, b)
<1>0. Len(disk) \in Nat
    OBVIOUS
<1>1. s = At(disk, w, b) /\ Good(s, disk, b, v, x)
    BY DEF Holds
<1> HIDE DEF s
<1>2. s \in ReadState /\ ~s.done /\ s.at = b + 1 /\ s.ver = v /\ s.offset = b /\ s.errors = 0
    BY <1>1 DEF Good, Located
<1>3. r = s \/ r = [s EXCEPT !.done = TRUE]
    BY <1>0, <1>1, <1>2, ReadStops DEF read_archive, At
<1>4. /\ r.errors = 0 /\ r.offset = b
      /\ r.ht = s.ht /\ r.dt = s.dt /\ r.block = s.block
    BY <1>2, <1>3 DEF ReadState
<1>5. Extracted(r) = x
    BY <1>1, <1>4 DEF Good, Located, Extracted
<1>6. /\ r.ht \in Seq(Fragment) /\ Len(r.block) = Len(r.ht)
      /\ \A n \in 1 .. Len(r.ht) :
            r.block[n].start = n /\ disk[r.block[n].offset] = DataBlock(r.ht[n])
      /\ r.dt \in Seq(1 .. Len(r.ht))
    BY <1>1, <1>4 DEF Good, Located
<1>7. PICK l \in Nat : l = Len(r.ht)
    <2>1. r.ht \in Seq(Fragment)
        BY <1>6
    <2> QED BY <2>1
<1>8. /\ Len(r.block) = l /\ r.dt \in Seq(1 .. l)
       /\ \A n \in 1 .. l : r.block[n].start = n /\ disk[r.block[n].offset] = DataBlock(r.ht[n])
    BY <1>6, <1>7
<1>9. ASSUME NEW n \in 2 .. Len(r.block)
      PROVE  r.block[n].start > r.block[n - 1].start
    <2>1. n \in 1 .. l /\ n - 1 \in 1 .. l
        BY <1>8
    <2>2. r.block[n].start = n /\ r.block[n - 1].start = n - 1
        BY <1>8, <2>1
    <2> QED BY <2>1, <2>2
<1>10. ASSUME NEW n \in DOMAIN r.dt
      PROVE  r.dt[n] <= Len(r.ht) /\ InBlock(r, r.dt[n]) = DataBlock(r.ht[r.dt[n]])
    <2>1. PICK p \in 1 .. l : p = r.dt[n]
        <3>1. r.dt \in Seq(1 .. l)
            BY <1>8
        <3> QED BY <3>1
    <2> DEFINE S == {m \in 1 .. Len(r.block) : r.block[m].start <= p}
    <2>2. S = 1 .. p
        <3>1. \A m \in 1 .. l : r.block[m].start = m
            BY <1>8
        <3>2. S = {m \in 1 .. l : m <= p}
            BY <1>8, <3>1
        <3> QED BY <3>2
    <2>3. Max(S) = p
        <3>1. p \in S /\ \A m \in S : p >= m
            BY <2>2
        <3>2. \A e \in S : (\A m \in S : e >= m) => e = p
            <4>1. S = 1 .. p
                BY <2>2
            <4> HIDE DEF S
            <4> QED BY <4>1
        <3> HIDE DEF S
        <3> QED BY <3>1, <3>2 DEF Max
    <2>4. InBlock(r, p) = disk[r.block[p].offset]
        BY <2>3 DEF InBlock
    <2>5. disk[r.block[p].offset] = DataBlock(r.ht[p])
        BY <1>8
    <2>6. p <= Len(r.ht)
        BY <1>7
    <2> QED BY <2>1, <2>4, <2>5, <2>6
<1>11. Extractable(r)
    BY <1>9, <1>10 DEF Extractable
<1> QED BY <1>4, <1>5, <1>11 DEF s

-----------------------------------------------------------------------------
(* The blocks that an update writes.                                       *)

(* The new fragments of the first n of x. *)
OneMore(h, s, e) == IF Contains(h \o s, e) THEN s ELSE Append(s, e)

TakesNew(g, h, x) ==
    g = [n \in 0 .. Len(x) |-> IF n = 0 THEN << >> ELSE OneMore(h, g[n - 1], x[n])]

(* The equation of NewFragments has a solution. *)
LEMMA NewExists ==
    ASSUME NEW h, NEW x, Len(x) \in Nat
    PROVE  \E g : TakesNew(g, h, x)
<1> DEFINE Solves(g, m) == g = [n \in 0 .. m |->
                                  IF n = 0 THEN << >> ELSE OneMore(h, g[n - 1], x[n])]
           S == {m \in 0 .. Len(x) : ~\E g : Solves(g, m)}
<1> HIDE DEF Solves
<1>s. S \subseteq Nat
    OBVIOUS
<1>1. ASSUME NEW m \in S, \A n \in S : m <= n PROVE FALSE
    <2>0. m \in 0 .. Len(x) /\ ~\E g : Solves(g, m)
        OBVIOUS
    <2>1. CASE m = 0
        <3> DEFINE g == [n \in 0 .. 0 |-> << >>]
        <3>1. Solves(g, 0)
            BY DEF Solves
        <3> QED BY <2>0, <2>1, <3>1
    <2>2. CASE m # 0
        <3>0. m \in 1 .. Len(x) /\ m - 1 \in 0 .. Len(x) /\ ~(m <= m - 1)
            BY <2>0, <2>2
        <3>1. m \in 1 .. Len(x) /\ m - 1 \in 0 .. Len(x) /\ m - 1 \notin S
            BY <1>1, <3>0
        <3>2. PICK g : Solves(g, m - 1)
            BY <3>1
        <3> DEFINE t == [n \in 0 .. m |-> IF n = m THEN OneMore(h, g[m - 1], x[m]) ELSE g[n]]
        <3>3. /\ g[0] = << >>
              /\ \A n \in 1 .. m - 1 : g[n] = OneMore(h, g[n - 1], x[n])
            <4>1. g = [n \in 0 .. m - 1 |->
                          IF n = 0 THEN << >> ELSE OneMore(h, g[n - 1], x[n])]
                BY <3>2 DEF Solves
            <4>2. ASSUME NEW n \in 1 .. m - 1 PROVE g[n] = OneMore(h, g[n - 1], x[n])
                <5>1. n \in 0 .. m - 1 /\ n # 0
                    BY <3>1
                <5> QED BY <4>1, <5>1
            <4>3. g[0] = << >>
                <5>1. 0 \in 0 .. m - 1
                    BY <3>1
                <5> QED BY <4>1, <5>1
            <4> QED BY <4>2, <4>3
        <3>4. t[0] = << >> /\ t[m] = OneMore(h, t[m - 1], x[m])
            BY <3>1, <3>3
        <3>5. \A n \in 1 .. m - 1 : t[n] = OneMore(h, t[n - 1], x[n])
            BY <3>1, <3>3
        <3>6. t = [n \in 0 .. m |-> t[n]]
            OBVIOUS
        <3> HIDE DEF t
        <3>7. ASSUME NEW n \in 0 .. m
              PROVE  t[n] = IF n = 0 THEN << >> ELSE OneMore(h, t[n - 1], x[n])
            <4>1. n = 0 \/ n = m \/ n \in 1 .. m - 1
                BY <3>1
            <4> QED BY <2>2, <3>4, <3>5, <4>1
        <3>8. Solves(t, m)
            BY <3>6, <3>7 DEF Solves
        <3> QED BY <2>0, <3>8
    <2> QED BY <2>1, <2>2
<1>2. S = {}
    <2> HIDE DEF S
    <2> QED BY <1>s, <1>1, LeastNumber
<1>3. \E g : Solves(g, Len(x))
    BY <1>2
<1> QED BY <1>3 DEF Solves, TakesNew

(* NewFragments takes the fragments one by one. *)
LEMMA NewSteps ==
    ASSUME NEW h, NEW x, Len(x) \in Nat
    PROVE  \E g : /\ g[0] = << >>
                  /\ \A n \in 1 .. Len(x) : g[n] = OneMore(h, g[n - 1], x[n])
                  /\ NewFragments(h, x) = g[Len(x)]
<1> DEFINE g == CHOOSE t : TakesNew(t, h, x)
<1>1. \E t : TakesNew(t, h, x)
    BY NewExists
<1>2. TakesNew(g, h, x)
    BY <1>1
<1>3. NewFragments(h, x) = g[Len(x)]
    BY DEF NewFragments, TakesNew, OneMore
<1> HIDE DEF g
<1>4. g[0] = << >> /\ \A n \in 1 .. Len(x) : g[n] = OneMore(h, g[n - 1], x[n])
    BY <1>2 DEF TakesNew
<1> QED BY <1>3, <1>4

(* One more fragment. *)
LEMMA OneMoreFacts ==
    ASSUME NEW T, NEW h \in Seq(T), Fragment \subseteq T, NEW s \in Seq(Fragment), NEW e \in Fragment,
           NEW t, t = OneMore(h, s, e)
    PROVE  /\ t \in Seq(Fragment) /\ Len(t) \in {Len(s), Len(s) + 1}
           /\ Contains(h \o t, e)
           /\ \A d : Contains(h \o s, d) => Contains(h \o t, d)
<1>1. CASE Contains(h \o s, e)
    BY <1>1 DEF OneMore
<1>2. CASE ~Contains(h \o s, e)
    <2>1. t = Append(s, e)
        BY <1>2 DEF OneMore
    <2>2. t \in Seq(Fragment) /\ Len(t) = Len(s) + 1
        BY <2>1
    <2>3. s \in Seq(T) /\ t \in Seq(T)
        BY <2>2
    <2> DEFINE l == Len(h) + Len(s)
    <2>4. Len(h \o s) = l /\ Len(h \o t) = l + 1 /\ l \in Nat
        BY <2>2, <2>3
    <2>5. (h \o t)[l + 1] = e
        BY <2>1, <2>2, <2>3
    <2>6. \A n \in 1 .. l : (h \o t)[n] = (h \o s)[n]
        BY <2>1, <2>2, <2>3
    <2> HIDE DEF l
    <2>7. l + 1 \in 1 .. Len(h \o t) /\ \A n \in 1 .. l : n \in 1 .. Len(h \o t)
        BY <2>4
    <2>8. Contains(h \o t, e)
        BY <2>5, <2>7 DEF Contains
    <2>9. ASSUME NEW d, Contains(h \o s, d) PROVE Contains(h \o t, d)
        <3>1. PICK n \in 1 .. l : (h \o s)[n] = d
            BY <2>4, <2>9 DEF Contains
        <3> QED BY <2>6, <2>7, <3>1 DEF Contains
    <2> QED BY <2>2, <2>8, <2>9
<1> QED BY <1>1, <1>2

(* The new fragments are no more than the file has, and with them all of   *)
(* its fragments are known.                                                *)
LEMMA NewFacts ==
    ASSUME NEW h \in Seq(Fragment \cup {"unknown"}), NEW x \in Seq(Fragment),
           NEW t, t = NewFragments(h, x)
    PROVE  /\ t \in Seq(Fragment) /\ Len(t) <= Len(x)
           /\ \A n \in 1 .. Len(x) : Contains(h \o t, x[n])
<1>0. Len(x) \in Nat
    OBVIOUS
<1>1. PICK g : /\ g[0] = << >>
               /\ \A n \in 1 .. Len(x) : g[n] = OneMore(h, g[n - 1], x[n])
               /\ NewFragments(h, x) = g[Len(x)]
    BY <1>0, NewSteps
<1> DEFINE Fits(n) == /\ g[n] \in Seq(Fragment) /\ Len(g[n]) <= n
                      /\ \A j \in 1 .. n : Contains(h \o g[n], x[j])
           S == {n \in 0 .. Len(x) : ~Fits(n)}
<1>s. S \subseteq Nat
    BY <1>0
<1>2. ASSUME NEW m \in S, \A n \in S : m <= n PROVE FALSE
    <2>0. m \in 0 .. Len(x) /\ ~Fits(m)
        OBVIOUS
    <2>1. CASE m = 0
        <3>1. g[0] \in Seq(Fragment) /\ Len(g[0]) = 0
            BY <1>1
        <3> QED BY <2>0, <2>1, <3>1
    <2>2. CASE m # 0
        <3>1. PICK p \in 0 .. Len(x) : m = p + 1
            BY <1>0, <2>0, <2>2
        <3>2. m \in 1 .. Len(x) /\ m - 1 = p
            BY <1>0, <2>0, <3>1
        <3>3. p \notin S
            BY <1>0, <1>2, <3>1
        <3>4. Fits(p)
            BY <3>1, <3>3
        <3>5. g[m] = OneMore(h, g[p], x[m])
            BY <1>1, <3>2
        <3>6. PICK s \in Seq(Fragment) : s = g[p]
            BY <3>4
        <3>7. PICK e \in Fragment : e = x[m]
            BY <3>2
        <3>8. PICK u : u = g[m]
            OBVIOUS
        <3>9. u = OneMore(h, s, e)
            BY <3>5, <3>6, <3>7, <3>8
        <3>10. /\ u \in Seq(Fragment) /\ Len(u) \in {Len(s), Len(s) + 1}
               /\ Contains(h \o u, e)
               /\ \A d : Contains(h \o s, d) => Contains(h \o u, d)
            <4>1. PICK T : T = Fragment \cup {"unknown"}
                OBVIOUS
            <4>2. h \in Seq(T) /\ Fragment \subseteq T
                BY <4>1
            <4> QED BY <3>9, <4>2, OneMoreFacts
        <3>11. Len(s) <= p /\ Len(s) \in Nat
            BY <3>4, <3>6
        <3>12. Len(u) <= m
            BY <3>1, <3>10, <3>11
        <3>13. ASSUME NEW j \in 1 .. m PROVE Contains(h \o u, x[j])
            <4>1. CASE j = m
                BY <3>7, <3>10, <4>1
            <4>2. CASE j # m
                <5>1. j \in 1 .. p
                    BY <3>1, <4>2
                <5>2. Contains(h \o s, x[j])
                    BY <3>4, <3>6, <5>1
                <5> QED BY <3>10, <5>2
            <4> QED BY <4>1, <4>2
        <3>14. Fits(m)
            BY <3>8, <3>10, <3>12, <3>13
        <3> QED BY <2>0, <3>14
    <2> QED BY <2>1, <2>2
<1>3. S = {}
    <2> HIDE DEF S
    <2> QED BY <1>s, <1>2, LeastNumber
<1>4. Fits(Len(x))
    BY <1>0, <1>3
<1> QED BY <1>1, <1>4

(* A sequence put together from two. *)
TwoOf(P, A, B, l, m) ==
    /\ Len(P) = l + m
    /\ \A n \in 1 .. l : P[n] = A[n]
    /\ \A n \in 1 .. m : P[l + n] = B[n]

(* The parts of a sequence that is put together from two. *)
LEMMA TwoParts ==
    ASSUME NEW T, NEW A \in Seq(T), NEW B \in Seq(T),
           NEW l \in Nat, NEW m \in Nat, Len(A) = l, Len(B) = m, NEW P, P = A \o B
    PROVE  P \in Seq(T) /\ TwoOf(P, A, B, l, m)
<1>1. /\ P \in Seq(T) /\ Len(P) = l + m
      /\ \A n \in 1 .. l + m : P[n] = IF n <= l THEN A[n] ELSE B[n - l]
    BY ConcatProperties
<1>2. ASSUME NEW n \in 1 .. l PROVE P[n] = A[n]
    <2>1. n \in 1 .. l + m /\ n <= l
        OBVIOUS
    <2> QED BY <1>1, <2>1
<1>3. ASSUME NEW n \in 1 .. m PROVE P[l + n] = B[n]
    <2>1. l + n \in 1 .. l + m /\ ~(l + n <= l) /\ l + n - l = n
        OBVIOUS
    <2> QED BY <1>1, <2>1
<1> QED BY <1>1, <1>2, <1>3 DEF TwoOf

(* A sequence put together from four. *)
FourOf(P, A, B, C, D, m) ==
    /\ Len(P) = 2 * m + 2
    /\ P[1] = A[1]
    /\ \A n \in 1 .. m : P[1 + n] = B[n]
    /\ \A n \in 1 .. m : P[1 + m + n] = C[n]
    /\ P[2 * m + 2] = D[1]

(* The parts of a sequence that is put together from four. *)
LEMMA FourParts ==
    ASSUME NEW T, NEW A \in Seq(T), NEW B \in Seq(T), NEW C \in Seq(T), NEW D \in Seq(T),
           NEW m \in Nat, Len(A) = 1, Len(B) = m, Len(C) = m, Len(D) = 1
    PROVE  A \o B \o C \o D \in Seq(T) /\ FourOf(A \o B \o C \o D, A, B, C, D, m)
<1>1. PICK E : E = A \o B
    OBVIOUS
<1>2. /\ E \in Seq(T) /\ Len(E) = 1 + m
      /\ \A n \in 1 .. 1 : E[n] = A[n]
      /\ \A n \in 1 .. m : E[1 + n] = B[n]
    <2>1. E \in Seq(T) /\ TwoOf(E, A, B, 1, m)
        BY <1>1, TwoParts
    <2> QED BY <2>1 DEF TwoOf
<1>3. PICK F : F = E \o C
    OBVIOUS
<1>4. PICK l \in Nat : l = 1 + m
    OBVIOUS
<1>5. /\ F \in Seq(T) /\ Len(F) = l + m
      /\ \A n \in 1 .. l : F[n] = E[n]
      /\ \A n \in 1 .. m : F[l + n] = C[n]
    <2>1. F \in Seq(T) /\ TwoOf(F, E, C, l, m)
        BY <1>2, <1>3, <1>4, TwoParts
    <2> QED BY <2>1 DEF TwoOf
<1>6. PICK P : P = F \o D
    OBVIOUS
<1>7. PICK j \in Nat : j = l + m
    OBVIOUS
<1>8. /\ P \in Seq(T) /\ Len(P) = j + 1
      /\ \A n \in 1 .. j : P[n] = F[n]
      /\ \A n \in 1 .. 1 : P[j + n] = D[n]
    <2>0. F \in Seq(T) /\ Len(F) = j /\ 1 \in Nat
        BY <1>5, <1>7
    <2>1. P \in Seq(T) /\ TwoOf(P, F, D, j, 1)
        BY <1>6, <2>0, TwoParts
    <2> QED BY <2>1 DEF TwoOf
<1>9. ASSUME NEW n \in 1 .. m PROVE P[1 + n] = B[n]
    <2>1. 1 + n \in 1 .. l /\ 1 + n \in 1 .. j
        BY <1>4, <1>7
    <2> QED BY <1>2, <1>5, <1>8, <2>1
<1>10. ASSUME NEW n \in 1 .. m PROVE P[1 + m + n] = C[n]
    <2>1. 1 + m + n \in 1 .. j /\ 1 + m + n = l + n
        BY <1>4, <1>7
    <2> QED BY <1>5, <1>8, <2>1
<1>11. P[1] = A[1]
    <2>1. 1 \in 1 .. 1 /\ 1 \in 1 .. l /\ 1 \in 1 .. j
        BY <1>4, <1>7
    <2> QED BY <1>2, <1>5, <1>8, <2>1
<1>12. P[j + 1] = D[1] /\ j + 1 = 2 * m + 2
    BY <1>4, <1>7, <1>8
<1>13. P = A \o B \o C \o D
    BY <1>1, <1>3, <1>6
<1>14. FourOf(P, A, B, C, D, m)
    BY <1>8, <1>9, <1>10, <1>11, <1>12 DEF FourOf
<1> QED BY <1>8, <1>13, <1>14

(* A file is a sequence of fragments and not empty. *)
LEMMA ContentSeq ==
    ASSUME NEW x \in Content
    PROVE  x \in Seq(Fragment) /\ Len(x) \in 1 .. MaxFragments /\ DOMAIN x = 1 .. Len(x)
<1>1. PICK n \in 1 .. MaxFragments : x \in [1 .. n -> Fragment]
    BY DEF Content
<1>2. n \in Nat
    BY <1>1, JournalAssumption
<1>3. x \in Seq(Fragment) /\ Len(x) = n
    BY <1>1, <1>2
<1> QED BY <1>1, <1>2, <1>3

(* The index points to each fragment of the file. *)
PointsTo(ptr, h, t, x) ==
    /\ ptr \in [1 .. Len(x) -> 1 .. Len(h) + Len(t)]
    /\ \A n \in 1 .. Len(x) : (h \o t)[ptr[n]] = x[n]

(* The blocks of an update: header, data, tables, index. *)
PlanOf(P, h, t, ptr) ==
    /\ Len(P) = 2 * Len(t) + 2
    /\ P[1] = Header(-1)
    /\ \A n \in 1 .. Len(t) : P[1 + n] = DataBlock(t[n])
    /\ \A n \in 1 .. Len(t) : P[1 + Len(t) + n] = Table(Len(h) + n, t[n])
    /\ P[2 * Len(t) + 2] = Index(ptr)

(* Blocks with any numbers. *)
AnyBlock == {Header(-1)} \cup {DataBlock(g) : g \in Fragment}
            \cup {Table(n, g) : n \in Nat, g \in Fragment} \cup {Index(ptr) : ptr \in Seq(Nat)}

(* Plan writes the new fragments and their tables in the same order.       *)
LEMMA PlanShape ==
    ASSUME NEW r, NEW h \in Seq(Fragment \cup {"unknown"}), h = r.ht, NEW x \in Content,
           NEW t, t = NewFragments(h, x)
    PROVE  \E ptr : /\ PointsTo(ptr, h, t, x) /\ PlanOf(Plan(r, x), h, t, ptr)
                    /\ Plan(r, x) \in Seq(AnyBlock)
<1>1. x \in Seq(Fragment) /\ Len(x) \in Nat /\ DOMAIN x = 1 .. Len(x)
    BY ContentSeq
<1>2. /\ t \in Seq(Fragment) /\ Len(t) <= Len(x)
      /\ \A n \in 1 .. Len(x) : Contains(h \o t, x[n])
    BY <1>1, NewFacts
<1>3. PICK l \in Nat : l = Len(h)
    OBVIOUS
<1>4. PICK m \in Nat : m = Len(t)
    BY <1>2
<1> DEFINE a == h \o t
           ptr == [n \in DOMAIN x |-> Min({j \in DOMAIN a : a[j] = x[n]})]
<1>5. t \in Seq(Fragment \cup {"unknown"})
    BY <1>2
<1>6. a \in Seq(Fragment \cup {"unknown"}) /\ Len(a) = l + m /\ DOMAIN a = 1 .. l + m
    BY <1>3, <1>4, <1>5
<1> HIDE DEF a
<1>7. ASSUME NEW n \in 1 .. Len(x) PROVE ptr[n] \in 1 .. l + m /\ a[ptr[n]] = x[n]
    <2> DEFINE S == {j \in DOMAIN a : a[j] = x[n]}
    <2>c. Contains(a, x[n])
        BY <1>2 DEF a
    <2>1. S \subseteq Nat /\ S # {}
        BY <1>6, <2>c DEF Contains
    <2>2. PICK p \in S : \A j \in S : p <= j
        <3> HIDE DEF S
        <3> QED BY <2>1, LeastNumber
    <2>3. Min(S) \in S
        <3> HIDE DEF S
        <3>1. \E i \in S : \A j \in S : i <= j
            BY <2>2
        <3> QED BY <3>1 DEF Min
    <2>4. ptr[n] = Min(S)
        BY <1>1
    <2> QED BY <1>6, <2>3, <2>4
<1>8. DOMAIN ptr = 1 .. Len(x) /\ ptr \in [1 .. Len(x) -> 1 .. l + m]
    BY <1>1, <1>7
<1>9. PointsTo(ptr, h, t, x)
    BY <1>3, <1>4, <1>7, <1>8 DEF PointsTo, a
<1>10. ptr \in Seq(Nat)
    BY <1>1, <1>8
<1> DEFINE A == <<Header(-1)>>
           B == [n \in DOMAIN t |-> DataBlock(t[n])]
           C == [n \in DOMAIN t |-> Table(Len(r.ht) + n, t[n])]
           D == <<Index(ptr)>>
           P == A \o B \o C \o D
<1>11. Plan(r, x) = P
    BY DEF Plan, a
<1> HIDE DEF ptr
<1>12. DOMAIN t = 1 .. m
    BY <1>2, <1>4
<1>13. A \in Seq(AnyBlock) /\ Len(A) = 1 /\ A[1] = Header(-1)
    BY DEF AnyBlock
<1>14. B \in Seq(AnyBlock) /\ Len(B) = m /\ \A n \in 1 .. m : B[n] = DataBlock(t[n])
    <2>1. \A n \in 1 .. m : t[n] \in Fragment
        BY <1>2, <1>4
    <2>2. B \in [1 .. m -> AnyBlock]
        BY <1>12, <2>1 DEF AnyBlock
    <2> QED BY <1>12, <2>2
<1>15. C \in Seq(AnyBlock) /\ Len(C) = m /\ \A n \in 1 .. m : C[n] = Table(l + n, t[n])
    <2>1. \A n \in 1 .. m : t[n] \in Fragment /\ l + n \in Nat
        BY <1>2, <1>4
    <2>2. \A n \in 1 .. m : Table(l + n, t[n]) \in AnyBlock
        BY <2>1 DEF AnyBlock
    <2>3. C = [n \in 1 .. m |-> Table(l + n, t[n])]
        BY <1>3, <1>12
    <2>4. C \in [1 .. m -> AnyBlock]
        BY <2>2, <2>3
    <2>5. \A n \in 1 .. m : C[n] = Table(l + n, t[n])
        BY <2>3
    <2> HIDE DEF C
    <2> QED BY <2>4, <2>5
<1>16. D \in Seq(AnyBlock) /\ Len(D) = 1 /\ D[1] = Index(ptr)
    <2>1. Index(ptr) \in AnyBlock
        BY <1>10 DEF AnyBlock
    <2> QED BY <2>1
<1> HIDE DEF A, B, C, D
<1>17. P \in Seq(AnyBlock) /\ FourOf(P, A, B, C, D, m)
    BY <1>13, <1>14, <1>15, <1>16, FourParts
<1> HIDE DEF P
<1>18. PlanOf(P, h, t, ptr)
    BY <1>3, <1>4, <1>13, <1>14, <1>15, <1>16, <1>17 DEF PlanOf, FourOf
<1> QED BY <1>9, <1>11, <1>17, <1>18

-----------------------------------------------------------------------------
(* What read_archive makes of a completed update.                          *)

(* The fragments that are known after n of the new ones, ... *)
HtAt(h, t, n) == [j \in 1 .. Len(h) + n |-> IF j <= Len(h) THEN h[j] ELSE t[j - Len(h)]]

(* ... the blocks that they are in, if the update begins behind cell b, ... *)
BlockAt(blk, b, n) ==
    [j \in 1 .. Len(blk) + n |->
        IF j <= Len(blk) THEN blk[j] ELSE [start |-> j, offset |-> b + 1 + (j - Len(blk))]]

(* ... and the state of the reading then. *)
AfterTables(r, b, t, n) ==
    [done |-> FALSE, at |-> b + 2 + Len(t) + n, ver |-> r.ver + 1, data |-> b + 2 + n,
     offset |-> IF n = 0 /\ Len(t) # 0 THEN b ELSE b + 1 + Len(t) + n,
     ht |-> HtAt(r.ht, t, n), block |-> BlockAt(r.block, b, n), dt |-> r.dt, errors |-> 0]

(* One more fragment is known. *)
LEMMA HtGrows ==
    ASSUME NEW h \in Seq(Fragment), NEW t \in Seq(Fragment), NEW n \in 0 .. Len(t)
    PROVE  HtAt(h, t, n) \in Seq(Fragment) /\ Len(HtAt(h, t, n)) = Len(h) + n
<1>1. PICK l \in Nat : l = Len(h)
    OBVIOUS
<1>2. ASSUME NEW j \in 1 .. l + n
      PROVE  (IF j <= l THEN h[j] ELSE t[j - l]) \in Fragment
    <2>1. CASE j <= l
        BY <1>1, <2>1
    <2>2. CASE ~(j <= l)
        <3>1. j - l \in 1 .. Len(t)
            BY <2>2
        <3> QED BY <2>2, <3>1
    <2> QED BY <2>1, <2>2
<1>3. HtAt(h, t, n) \in [1 .. l + n -> Fragment]
    BY <1>1, <1>2 DEF HtAt
<1>4. l + n \in Nat
    OBVIOUS
<1> QED BY <1>1, <1>3, <1>4

(* What ReadTable does to ht. *)
FilledUp(u, c, e) ==
    [j \in 1 .. (IF c > Len(u) THEN c ELSE Len(u)) |->
        IF j = c THEN e ELSE IF j <= Len(u) THEN u[j] ELSE "unknown"]

HtStepAt(h, t, n) == FilledUp(HtAt(h, t, n - 1), Len(h) + n, t[n]) = HtAt(h, t, n)

(* It adds one more fragment. *)
LEMMA HtStep ==
    ASSUME NEW h \in Seq(Fragment), NEW t \in Seq(Fragment), NEW n \in 1 .. Len(t)
    PROVE  HtStepAt(h, t, n)
<1>p. PICK p \in Nat : p = n - 1
    OBVIOUS
<1>c. PICK c \in Nat : c = Len(h) + n
    OBVIOUS
<1>u. PICK u : u = HtAt(h, t, p)
    OBVIOUS
<1>1. PICK l \in Nat : l = Len(h)
    OBVIOUS
<1>2. p \in 0 .. Len(t) /\ n \in Nat /\ n = p + 1
    BY <1>p
<1>3. Len(u) = l + p
    BY <1>1, <1>2, <1>u, HtGrows
<1>4. (IF c > Len(u) THEN c ELSE Len(u)) = c
    BY <1>1, <1>2, <1>3, <1>c
<1> DEFINE F(j) == IF j = c THEN t[n] ELSE IF j <= Len(u) THEN u[j] ELSE "unknown"
           G(j) == IF j <= l THEN h[j] ELSE t[j - l]
<1>5. ASSUME NEW j \in 1 .. c PROVE F(j) = G(j)
    <2>1. CASE j = c
        <3>1. ~(j <= l) /\ j - l = n
            BY <1>1, <1>c, <2>1
        <3> QED BY <2>1, <3>1
    <2>2. CASE j # c
        <3>1. j \in 1 .. l + p
            BY <1>1, <1>2, <1>c, <2>2
        <3>2. u[j] = IF j <= l THEN h[j] ELSE t[j - l]
            BY <1>1, <1>u, <3>1 DEF HtAt
        <3> QED BY <1>3, <2>2, <3>1, <3>2
    <2> QED BY <2>1, <2>2
<1>6. HtAt(h, t, n) = [j \in 1 .. c |-> IF j <= l THEN h[j] ELSE t[j - l]]
    BY <1>1, <1>c DEF HtAt
<1>7. [j \in 1 .. c |-> F(j)] = [j \in 1 .. c |-> G(j)]
    <2> HIDE DEF F, G
    <2> QED BY <1>5
<1>8. [j \in 1 .. c |-> F(j)] = HtAt(h, t, n)
    <2> HIDE DEF F
    <2> QED BY <1>6, <1>7
<1> QED BY <1>4, <1>8, <1>p, <1>c, <1>u DEF FilledUp, HtStepAt

(* One more block is known. *)
LEMMA BlockGrows ==
    ASSUME NEW b \in Nat, NEW blk \in Seq(Entry), NEW n \in Nat
    PROVE  /\ BlockAt(blk, b, n) \in Seq(Entry)
           /\ Len(BlockAt(blk, b, n)) = Len(blk) + n
<1> DEFINE R == Entry
<1>1. PICK l \in Nat : l = Len(blk)
    OBVIOUS
<1>2. ASSUME NEW j \in 1 .. l + n
      PROVE  (IF j <= l THEN blk[j] ELSE [start |-> j, offset |-> b + 1 + (j - l)]) \in R
    <2>1. CASE j <= l
        <3>1. j \in 1 .. Len(blk)
            BY <1>1, <2>1
        <3>2. blk[j] \in R
            BY <3>1, ElementOfSeq
        <3> QED BY <2>1, <3>2
    <2>2. CASE ~(j <= l)
        <3>1. j \in Nat /\ b + 1 + (j - l) \in Nat
            BY <2>2
        <3> QED BY <2>2, <3>1 DEF Entry
    <2> QED BY <2>1, <2>2
<1> HIDE DEF R
<1>3. BlockAt(blk, b, n) \in [1 .. l + n -> R]
    BY <1>1, <1>2 DEF BlockAt
<1>4. l + n \in Nat
    OBVIOUS
<1>5. BlockAt(blk, b, n) \in Seq(R) /\ Len(BlockAt(blk, b, n)) = l + n
    BY <1>3, <1>4
<1> QED BY <1>1, <1>5 DEF R

BlockStepAt(blk, b, n) ==
    Append(BlockAt(blk, b, n - 1), [start |-> Len(blk) + n, offset |-> b + 1 + n])
    = BlockAt(blk, b, n)

(* That is what ReadTable does to the list of blocks. *)
LEMMA BlockStep ==
    ASSUME NEW b \in Nat, NEW blk \in Seq(Entry), NEW n \in Nat \ {0}
    PROVE  BlockStepAt(blk, b, n)
<1>p. PICK p \in Nat : p = n - 1
    OBVIOUS
<1>c. PICK c \in Nat : c = Len(blk) + n
    OBVIOUS
<1>d. PICK d \in Nat : d = b + 1 + n
    OBVIOUS
<1> DEFINE R == Entry
           e == [start |-> c, offset |-> d]
           u == BlockAt(blk, b, p)
           v == BlockAt(blk, b, n)
<1>1. PICK l \in Nat : l = Len(blk)
    OBVIOUS
<1>2. u \in Seq(R) /\ Len(u) = l + p
    BY <1>1, BlockGrows
<1>3. v \in Seq(R) /\ Len(v) = l + n
    BY <1>1, BlockGrows
<1>4. e \in R
    BY DEF Entry
<1>5. \A j \in 1 .. l + p : v[j] = u[j]
    BY <1>1, <1>p DEF BlockAt
<1>6. v[c] = e
    <2>1. c \in 1 .. l + n /\ ~(c <= l) /\ b + 1 + (c - l) = d
        BY <1>1, <1>c, <1>d
    <2> QED BY <1>1, <2>1 DEF BlockAt
<1> HIDE DEF R, e, u, v
<1>7. Append(u, e) \in Seq(R) /\ Len(Append(u, e)) = l + n
    BY <1>2, <1>4, <1>p
<1>8. ASSUME NEW j \in 1 .. l + n PROVE Append(u, e)[j] = v[j]
    <2>1. CASE j = l + n
        BY <1>1, <1>2, <1>4, <1>6, <1>p, <1>c, <2>1
    <2>2. CASE j # l + n
        <3>1. j \in 1 .. l + p
            BY <1>p, <2>2
        <3> QED BY <1>2, <1>4, <1>5, <3>1
    <2> QED BY <2>1, <2>2
<1>9. Append(u, e) = v
    BY <1>3, <1>7, <1>8
<1> QED BY <1>9, <1>p, <1>c, <1>d DEF u, v, e, BlockStepAt

(* The cells behind b are those of a completed update. *)
Completed(f, b, h, t, ptr) ==
    /\ b + 2 * Len(t) + 2 <= Len(f)
    /\ f[b + 1] = Header(Len(t))
    /\ \A n \in 1 .. Len(t) : f[b + 1 + n] = DataBlock(t[n])
    /\ \A n \in 1 .. Len(t) : f[b + 1 + Len(t) + n] = Table(Len(h) + n, t[n])
    /\ f[b + 2 * Len(t) + 2] = Index(ptr)

Updated(r, b, t, ptr) ==
    [done |-> FALSE, at |-> b + 2 * Len(t) + 3, ver |-> r.ver + 1, data |-> b + 2 + Len(t),
     offset |-> b + 2 * Len(t) + 2, ht |-> HtAt(r.ht, t, Len(t)),
     block |-> BlockAt(r.block, b, Len(t)), dt |-> ptr, errors |-> 0]

(* Reading has come to the end of a version. *)
AtEnd(r, b) ==
    /\ r \in ReadState /\ r.ht \in Seq(Fragment) /\ Len(r.block) = Len(r.ht)
    /\ ~r.done /\ r.at = b + 1 /\ r.offset = b /\ r.errors = 0

(* A state of the reading, field by field. *)
Rec(done, at, ver, data, offset, ht, block, dt, errors) ==
    [done |-> done, at |-> at, ver |-> ver, data |-> data, offset |-> offset,
     ht |-> ht, block |-> block, dt |-> dt, errors |-> errors]

(* A state is made of its fields. *)
LEMMA RecOf ==
    ASSUME NEW r \in ReadState
    PROVE  r = Rec(r.done, r.at, r.ver, r.data, r.offset, r.ht, r.block, r.dt, r.errors)
BY DEF ReadState, Rec

(* What a header changes. *)
PutHeader(s, c1, d1, b1, e1) ==
    [s EXCEPT !.ver = c1, !.data = d1, !.at = b1, !.offset = e1]

(* The same, field by field. *)
LEMMA RecHeader ==
    ASSUME NEW a, NEW b, NEW c, NEW d, NEW e, NEW f, NEW g, NEW h, NEW j,
           NEW s, s = Rec(a, b, c, d, e, f, g, h, j),
           NEW c1, NEW d1, NEW b1, NEW e1
    PROVE  PutHeader(s, c1, d1, b1, e1)
           = Rec(a, b1, c1, d1, e1, f, g, h, j)
<1>1. PICK u : u = [s EXCEPT !.ver = c1, !.data = d1, !.at = b1, !.offset = e1]
    OBVIOUS
<1>2. DOMAIN u = {"done", "at", "ver", "data", "offset", "ht", "block", "dt", "errors"}
    BY <1>1 DEF Rec
<1>3. /\ u.done = a /\ u.at = b1 /\ u.ver = c1 /\ u.data = d1 /\ u.offset = e1
      /\ u.ht = f /\ u.block = g /\ u.dt = h /\ u.errors = j
    BY <1>1 DEF Rec
<1>4. u = [z \in DOMAIN u |-> u[z]]
    BY <1>1
<1>5. u = Rec(a, b1, c1, d1, e1, f, g, h, j)
    BY <1>2, <1>3, <1>4 DEF Rec
<1> QED BY <1>1, <1>5 DEF PutHeader

(* What a table changes. *)
PutTable(s, f1, g1, d1, b1, e1) ==
    [s EXCEPT !.ht = f1, !.block = g1, !.data = d1, !.at = b1, !.offset = e1]

(* The same, field by field. *)
LEMMA RecTable ==
    ASSUME NEW a, NEW b, NEW c, NEW d, NEW e, NEW f, NEW g, NEW h, NEW j,
           NEW s, s = Rec(a, b, c, d, e, f, g, h, j),
           NEW f1, NEW g1, NEW d1, NEW b1, NEW e1
    PROVE  PutTable(s, f1, g1, d1, b1, e1)
           = Rec(a, b1, c, d1, e1, f1, g1, h, j)
<1>1. PICK u : u = [s EXCEPT !.ht = f1, !.block = g1, !.data = d1, !.at = b1, !.offset = e1]
    OBVIOUS
<1>2. DOMAIN u = {"done", "at", "ver", "data", "offset", "ht", "block", "dt", "errors"}
    BY <1>1 DEF Rec
<1>3. /\ u.done = a /\ u.at = b1 /\ u.ver = c /\ u.data = d1 /\ u.offset = e1
      /\ u.ht = f1 /\ u.block = g1 /\ u.dt = h /\ u.errors = j
    BY <1>1 DEF Rec
<1>4. u = [z \in DOMAIN u |-> u[z]]
    BY <1>1
<1>5. u = Rec(a, b1, c, d1, e1, f1, g1, h, j)
    BY <1>2, <1>3, <1>4 DEF Rec
<1> QED BY <1>1, <1>5 DEF PutTable

(* What the index changes. *)
PutIndex(s, h1, b1, e1) ==
    [s EXCEPT !.dt = h1, !.at = b1, !.offset = e1]

(* The same, field by field. *)
LEMMA RecIndex ==
    ASSUME NEW a, NEW b, NEW c, NEW d, NEW e, NEW f, NEW g, NEW h, NEW j,
           NEW s, s = Rec(a, b, c, d, e, f, g, h, j),
           NEW h1, NEW b1, NEW e1
    PROVE  PutIndex(s, h1, b1, e1)
           = Rec(a, b1, c, d, e1, f, g, h1, j)
<1>1. PICK u : u = [s EXCEPT !.dt = h1, !.at = b1, !.offset = e1]
    OBVIOUS
<1>2. DOMAIN u = {"done", "at", "ver", "data", "offset", "ht", "block", "dt", "errors"}
    BY <1>1 DEF Rec
<1>3. /\ u.done = a /\ u.at = b1 /\ u.ver = c /\ u.data = d /\ u.offset = e1
      /\ u.ht = f /\ u.block = g /\ u.dt = h1 /\ u.errors = j
    BY <1>1 DEF Rec
<1>4. u = [z \in DOMAIN u |-> u[z]]
    BY <1>1
<1>5. u = Rec(a, b1, c, d, e1, f, g, h1, j)
    BY <1>2, <1>3, <1>4 DEF Rec
<1> QED BY <1>1, <1>5 DEF PutIndex

(* The header of the update. *)
LEMMA ReadsHeader ==
    ASSUME NEW b \in Nat, NEW w \in Nat, NEW r, AtEnd(r, b), r.ver < w,
           NEW t \in Seq(Fragment), NEW p \in Nat, p = b + 1
    PROVE  ReadBlock(r, Header(Len(t)), p, w) = AfterTables(r, b, t, 0)
<1>0. PICK m \in Nat : m = Len(t)
    OBVIOUS
<1>1. /\ r \in ReadState /\ r.ht \in Seq(Fragment) /\ Len(r.block) = Len(r.ht)
      /\ r.done = FALSE /\ r.at = b + 1 /\ r.offset = b /\ r.errors = 0
      /\ r.ver \in Nat /\ r.block \in Seq(Entry)
    BY DEF AtEnd, ReadState
<1>2. HtAt(r.ht, t, 0) = r.ht
    <2>1. PICK h \in Seq(Fragment) : h = r.ht
        BY <1>1
    <2>2. HtAt(h, t, 0) = [j \in 1 .. Len(h) |-> h[j]]
        BY DEF HtAt
    <2> QED BY <2>1, <2>2
<1>3. BlockAt(r.block, b, 0) = r.block
    <2>1. PICK R : R = Entry
        OBVIOUS
    <2>2. PICK u \in Seq(R) : u = r.block
        BY <1>1, <2>1
    <2>3. BlockAt(u, b, 0) = [j \in 1 .. Len(u) |-> u[j]]
        BY DEF BlockAt
    <2> QED BY <2>2, <2>3
<1>4. ~(r.done \/ p < r.at) /\ Header(m).kind = "c" /\ Header(m).jmp = m
    BY <1>1 DEF Header
<1>5. ReadBlock(r, Header(m), p, w) = ReadHeader(r, Header(m), p, w)
    BY <1>4 DEF ReadBlock
<1>6. ~(m < 0 \/ r.ver >= w)
    BY <1>1
<1>7. ReadHeader(r, Header(m), p, w)
      = [r EXCEPT !.ver = @ + 1, !.data = p + 1, !.at = p + 1 + m,
                  !.offset = IF m = 0 THEN p ELSE @]
    BY <1>4, <1>6 DEF ReadHeader
<1>8. [r EXCEPT !.ver = @ + 1, !.data = p + 1, !.at = p + 1 + m,
                !.offset = IF m = 0 THEN p ELSE @]
      = [done |-> FALSE, at |-> p + 1 + m, ver |-> r.ver + 1, data |-> p + 1,
         offset |-> IF m = 0 THEN p ELSE b, ht |-> r.ht, block |-> r.block, dt |-> r.dt, errors |-> 0]
    <2>1. r = Rec(FALSE, b + 1, r.ver, r.data, b, r.ht, r.block, r.dt, 0)
        BY <1>1, RecOf
    <2>2. PICK a : a = IF m = 0 THEN p ELSE b
        OBVIOUS
    <2>3. [r EXCEPT !.ver = r.ver + 1, !.data = p + 1, !.at = p + 1 + m, !.offset = a]
          = Rec(FALSE, p + 1 + m, r.ver + 1, p + 1, a, r.ht, r.block, r.dt, 0)
        <3>1. PICK b1 : b1 = b + 1
            OBVIOUS
        <3>2. PICK v1 : v1 = r.ver + 1
            OBVIOUS
        <3>3. PICK d1 : d1 = p + 1
            OBVIOUS
        <3>4. PICK e1 : e1 = p + 1 + m
            OBVIOUS
        <3>5. PICK no : no = FALSE
            OBVIOUS
        <3>6. PICK nil : nil = 0
            OBVIOUS
        <3>7. r = Rec(no, b1, r.ver, r.data, b, r.ht, r.block, r.dt, nil)
            BY <2>1, <3>1, <3>5, <3>6
        <3>8. PutHeader(r, v1, d1, e1, a) = Rec(no, e1, v1, d1, a, r.ht, r.block, r.dt, nil)
            BY <3>7, RecHeader
        <3> QED BY <3>2, <3>3, <3>4, <3>5, <3>6, <3>8 DEF PutHeader
    <2>4. [r EXCEPT !.ver = @ + 1, !.data = p + 1, !.at = p + 1 + m,
                    !.offset = IF m = 0 THEN p ELSE @]
          = [r EXCEPT !.ver = r.ver + 1, !.data = p + 1, !.at = p + 1 + m, !.offset = a]
        BY <1>1, <2>2
    <2> QED BY <2>2, <2>3, <2>4 DEF Rec
<1>9. /\ p + 1 + m = b + 2 + m + 0 /\ p + 1 = b + 2 + 0
      /\ (IF m = 0 THEN p ELSE b) = IF 0 = 0 /\ m # 0 THEN b ELSE b + 1 + m + 0
    OBVIOUS
<1> QED BY <1>0, <1>2, <1>3, <1>5, <1>7, <1>8, <1>9 DEF AfterTables

TableRead(r, b, t, n, w) ==
    ReadBlock(AfterTables(r, b, t, n - 1), Table(Len(r.ht) + n, t[n]), b + 1 + Len(t) + n, w)
    = AfterTables(r, b, t, n)

(* One of its tables. *)
LEMMA ReadsTable ==
    ASSUME NEW b \in Nat, NEW w, NEW r, AtEnd(r, b),
           NEW t \in Seq(Fragment), NEW n \in 1 .. Len(t)
    PROVE  TableRead(r, b, t, n, w)
<1>e. PICK e \in Nat : e = n - 1 /\ n = e + 1
    OBVIOUS
<1>p. PICK p \in Nat : p = b + 1 + Len(t) + n
    OBVIOUS
<1>c. PICK c \in Nat : c = Len(r.ht) + n
    BY DEF AtEnd
<1>0. PICK m \in Nat : m = Len(t)
    OBVIOUS
<1>1. /\ r.ht \in Seq(Fragment) /\ Len(r.block) = Len(r.ht)
      /\ r.block \in Seq(Entry)
    BY DEF AtEnd, ReadState
<1>2. PICK s : s = AfterTables(r, b, t, e)
    OBVIOUS
<1>3. PICK u : u = HtAt(r.ht, t, e)
    OBVIOUS
<1>4. s = [done |-> FALSE, at |-> b + 2 + m + e, ver |-> r.ver + 1, data |-> b + 2 + e,
           offset |-> IF e = 0 /\ m # 0 THEN b ELSE b + 1 + m + e,
           ht |-> u, block |-> BlockAt(r.block, b, e), dt |-> r.dt, errors |-> 0]
    BY <1>0, <1>2, <1>3 DEF AfterTables
<1>5. FilledUp(u, c, t[n]) = HtAt(r.ht, t, n)
    <2>1. PICK h \in Seq(Fragment) : h = r.ht
        BY <1>1
    <2>2. HtStepAt(h, t, n)
        BY HtStep
    <2>3. n - 1 = e /\ c = Len(h) + n
        BY <1>e, <1>c, <2>1
    <2> QED BY <1>3, <2>1, <2>2, <2>3 DEF HtStepAt
<1>6. Append(BlockAt(r.block, b, e), [start |-> c, offset |-> b + 2 + e]) = BlockAt(r.block, b, n)
    <2>1. PICK bl \in Seq(Entry) : bl = r.block
        BY <1>1
    <2>2. n \in Nat \ {0}
        OBVIOUS
    <2>3. BlockStepAt(bl, b, n)
        BY <2>2, BlockStep
    <2>4. n - 1 = e /\ c = Len(bl) + n /\ b + 1 + n = b + 2 + e
        <3>1. Len(bl) = Len(r.ht)
            BY <1>1, <2>1
        <3> QED BY <1>e, <1>c, <3>1
    <2> QED BY <2>1, <2>3, <2>4 DEF BlockStepAt
<1>7. s.done = FALSE /\ ~(p < s.at) /\ s.ht = u /\ s.block = BlockAt(r.block, b, e) /\ s.data = b + 2 + e
    BY <1>0, <1>e, <1>p, <1>4
<1>8. PICK z : z = Table(c, t[n])
    OBVIOUS
<1>9. z.kind = "h" /\ z.num = c /\ z.frag = t[n]
    BY <1>8 DEF Table
<1>10. ReadBlock(s, z, p, w) = ReadTable(s, z, p)
    BY <1>7, <1>9 DEF ReadBlock
<1>11. ReadTable(s, z, p) = [s EXCEPT !.ht = HtAt(r.ht, t, n), !.block = BlockAt(r.block, b, n),
                                      !.data = @ + 1, !.at = p + 1, !.offset = p]
    <2>1. ReadTable(s, z, p) = [s EXCEPT !.ht = FilledUp(u, c, t[n]),
                                  !.block = Append(@, [start |-> c, offset |-> b + 2 + e]),
                                  !.data = @ + 1, !.at = p + 1, !.offset = p]
        BY <1>7, <1>9 DEF ReadTable, FilledUp
    <2> QED BY <1>5, <1>6, <1>7, <2>1
<1>12. /\ b + 2 + e + 1 = b + 2 + n /\ p + 1 = b + 2 + m + n
       /\ p = IF n = 0 /\ m # 0 THEN b ELSE b + 1 + m + n
    BY <1>0, <1>e, <1>p
<1>13. ReadTable(s, z, p)
       = [done |-> FALSE, at |-> p + 1, ver |-> r.ver + 1, data |-> b + 2 + e + 1,
          offset |-> p, ht |-> HtAt(r.ht, t, n), block |-> BlockAt(r.block, b, n),
          dt |-> r.dt, errors |-> 0]
    <2>1. PICK a : a = IF e = 0 /\ m # 0 THEN b ELSE b + 1 + m + e
        OBVIOUS
    <2>2. s = Rec(FALSE, b + 2 + m + e, r.ver + 1, b + 2 + e, a, u, BlockAt(r.block, b, e), r.dt, 0)
        BY <1>4, <2>1 DEF Rec
    <2>3. [s EXCEPT !.ht = HtAt(r.ht, t, n), !.block = BlockAt(r.block, b, n),
                    !.data = b + 2 + e + 1, !.at = p + 1, !.offset = p]
          = Rec(FALSE, p + 1, r.ver + 1, b + 2 + e + 1, p, HtAt(r.ht, t, n),
                BlockAt(r.block, b, n), r.dt, 0)
        <3>1. PICK b1 : b1 = b + 2 + m + e
            OBVIOUS
        <3>2. PICK v1 : v1 = r.ver + 1
            OBVIOUS
        <3>3. PICK d1 : d1 = b + 2 + e
            OBVIOUS
        <3>4. PICK d2 : d2 = b + 2 + e + 1
            OBVIOUS
        <3>5. PICK e1 : e1 = p + 1
            OBVIOUS
        <3>6. PICK g1 : g1 = HtAt(r.ht, t, n)
            OBVIOUS
        <3>7. PICK g2 : g2 = BlockAt(r.block, b, n)
            OBVIOUS
        <3>8. PICK no : no = FALSE
            OBVIOUS
        <3>9. PICK nil : nil = 0
            OBVIOUS
        <3>10. s = Rec(no, b1, v1, d1, a, u, BlockAt(r.block, b, e), r.dt, nil)
            BY <2>2, <3>1, <3>2, <3>3, <3>8, <3>9
        <3>11. PutTable(s, g1, g2, d2, e1, p) = Rec(no, e1, v1, d2, p, g1, g2, r.dt, nil)
            BY <3>10, RecTable
        <3> QED BY <3>2, <3>4, <3>5, <3>6, <3>7, <3>8, <3>9, <3>11 DEF PutTable
    <2> QED BY <1>7, <1>11, <2>3 DEF Rec
<1>14. ReadBlock(AfterTables(r, b, t, e), Table(c, t[n]), p, w) = AfterTables(r, b, t, n)
    BY <1>0, <1>2, <1>8, <1>10, <1>12, <1>13 DEF AfterTables
<1> QED BY <1>e, <1>p, <1>c, <1>14 DEF TableRead

(* The index. *)
LEMMA ReadsIndex ==
    ASSUME NEW b \in Nat, NEW w, NEW r, NEW t \in Seq(Fragment), NEW ptr,
           NEW p \in Nat, p = b + 2 * Len(t) + 2
    PROVE  ReadBlock(AfterTables(r, b, t, Len(t)), Index(ptr), p, w) = Updated(r, b, t, ptr)
<1>0. PICK m \in Nat : m = Len(t)
    OBVIOUS
<1>1. PICK s : s = AfterTables(r, b, t, m)
    OBVIOUS
<1>2. PICK a1 : a1 = b + 2 + m + m
    OBVIOUS
<1>3. PICK v1 : v1 = r.ver + 1
    OBVIOUS
<1>4. PICK d1 : d1 = b + 2 + m
    OBVIOUS
<1>5. PICK o1 : o1 = IF m = 0 /\ m # 0 THEN b ELSE b + 1 + m + m
    OBVIOUS
<1>6. PICK no : no = FALSE
    OBVIOUS
<1>7. PICK nil : nil = 0
    OBVIOUS
<1>8. PICK h1 : h1 = HtAt(r.ht, t, m)
    OBVIOUS
<1>9. PICK g1 : g1 = BlockAt(r.block, b, m)
    OBVIOUS
<1>10. s = Rec(no, a1, v1, d1, o1, h1, g1, r.dt, nil)
    BY <1>0, <1>1, <1>2, <1>3, <1>4, <1>5, <1>6, <1>7, <1>8, <1>9 DEF AfterTables, Rec
<1>11. s.done = FALSE /\ s.at = b + 2 + m + m
    BY <1>2, <1>6, <1>10 DEF Rec
<1>12. ~(p < s.at)
    BY <1>0, <1>11
<1>13. PICK z : z = Index(ptr)
    OBVIOUS
<1>14. z.kind = "i" /\ z.ptr = ptr
    BY <1>13 DEF Index
<1>15. PICK a2 : a2 = p + 1
    OBVIOUS
<1>16. ReadBlock(s, z, p, w) = PutIndex(s, ptr, a2, p)
    BY <1>11, <1>12, <1>14, <1>15 DEF ReadBlock, PutIndex
<1>17. PutIndex(s, ptr, a2, p) = Rec(no, a2, v1, d1, p, h1, g1, ptr, nil)
    BY <1>10, RecIndex
<1>18. a2 = b + 2 * m + 3 /\ p = b + 2 * m + 2
    BY <1>0, <1>15
<1>19. Rec(no, a2, v1, d1, p, h1, g1, ptr, nil) = Updated(r, b, t, ptr)
    BY <1>0, <1>3, <1>4, <1>6, <1>7, <1>8, <1>9, <1>18 DEF Rec, Updated
<1> QED BY <1>0, <1>1, <1>13, <1>16, <1>17, <1>19

UpdateRead(f, w, b, r, t, ptr) == At(f, w, b + 2 * Len(t) + 2) = Updated(r, b, t, ptr)

(* A completed update is read as one more version: its data is jumped      *)
(* over, its tables are read one by one, and then its index.               *)
LEMMA UpdateReads ==
    ASSUME NEW f, Len(f) \in Nat, NEW b \in Nat, NEW w \in Nat, NEW r, AtEnd(r, b), r.ver < w,
           At(f, w, b) = r, NEW t \in Seq(Fragment), NEW ptr, Completed(f, b, r.ht, t, ptr)
    PROVE  UpdateRead(f, w, b, r, t, ptr)
<1>0. PICK m \in Nat : m = Len(t)
    OBVIOUS
<1>c. PICK c \in Nat : c = b + 2 * Len(t) + 2
    OBVIOUS
<1>1. PICK l \in Nat : l = Len(r.ht)
    BY DEF AtEnd
<1>2. /\ b + 2 * m + 2 <= Len(f)
      /\ f[b + 1] = Header(m)
      /\ \A n \in 1 .. m : f[b + 1 + m + n] = Table(l + n, t[n])
      /\ f[b + 2 * m + 2] = Index(ptr)
    BY <1>0, <1>1 DEF Completed
<1>3. At(f, w, b + 1) = AfterTables(r, b, t, 0)
    <2>1. PICK p \in Nat : p = b + 1
        OBVIOUS
    <2>2. p \in 1 .. Len(f) /\ b \in 0 .. Len(f)
        BY <1>2, <2>1
    <2>3. At(f, w, p) = ReadBlock(r, f[p], p, w)
        BY <2>1, <2>2, AtNext
    <2>4. ReadBlock(r, Header(Len(t)), p, w) = AfterTables(r, b, t, 0)
        BY <2>1, ReadsHeader
    <2> QED BY <1>0, <1>2, <2>1, <2>3, <2>4
<1>4. \A n \in 0 .. m : At(f, w, b + 1 + n) = AfterTables(r, b, t, 0)
    <2> DEFINE S == {n \in 0 .. m : At(f, w, b + 1 + n) # AfterTables(r, b, t, 0)}
    <2>s. S \subseteq Nat
        OBVIOUS
    <2>1. ASSUME NEW n \in S, \A j \in S : n <= j PROVE FALSE
        <3>0. n \in 0 .. m /\ At(f, w, b + 1 + n) # AfterTables(r, b, t, 0)
            OBVIOUS
        <3>1. n # 0
            BY <1>3, <3>0
        <3>2. PICK e \in 0 .. m : n = e + 1
            BY <3>0, <3>1
        <3>3. e \notin S
            BY <2>1, <3>2
        <3>4. PICK p \in Nat : p = b + 1 + n
            BY <3>0
        <3>5. PICK i \in Nat : i = b + 1 + e
            BY <3>2
        <3>6. At(f, w, i) = AfterTables(r, b, t, 0)
            BY <3>2, <3>3, <3>5
        <3>7. p \in 1 .. Len(f) /\ i \in 0 .. Len(f) /\ p = i + 1
            BY <1>2, <3>0, <3>2, <3>4, <3>5
        <3>8. At(f, w, p) = ReadBlock(At(f, w, i), f[p], p, w)
            BY <3>7, AtNext
        <3>9. AfterTables(r, b, t, 0).at = b + 2 + m + 0
            BY <1>0 DEF AfterTables
        <3>10. p < b + 2 + m + 0
            BY <3>0, <3>4
        <3>11. At(f, w, p) = AfterTables(r, b, t, 0)
            BY <3>6, <3>8, <3>9, <3>10 DEF ReadBlock
        <3> QED BY <3>0, <3>4, <3>11
    <2>2. S = {}
        <3> HIDE DEF S
        <3> QED BY <2>s, <2>1, LeastNumber
    <2> QED BY <2>2
<1>5. \A n \in 0 .. m : At(f, w, b + 1 + m + n) = AfterTables(r, b, t, n)
    <2> DEFINE S == {n \in 0 .. m : At(f, w, b + 1 + m + n) # AfterTables(r, b, t, n)}
    <2>s. S \subseteq Nat
        OBVIOUS
    <2>1. ASSUME NEW n \in S, \A j \in S : n <= j PROVE FALSE
        <3>0. n \in 0 .. m /\ At(f, w, b + 1 + m + n) # AfterTables(r, b, t, n)
            OBVIOUS
        <3>1. n # 0
            <4>1. m \in 0 .. m
                OBVIOUS
            <4>2. At(f, w, b + 1 + m) = AfterTables(r, b, t, 0)
                BY <1>4, <4>1
            <4>3. b + 1 + m + 0 = b + 1 + m
                OBVIOUS
            <4> QED BY <3>0, <4>2, <4>3
        <3>2. PICK e \in 0 .. m : n = e + 1
            BY <3>0, <3>1
        <3>3. e \notin S
            BY <2>1, <3>2
        <3>4. PICK p \in Nat : p = b + 1 + m + n
            BY <3>0
        <3>5. PICK i \in Nat : i = b + 1 + m + e
            BY <3>2
        <3>6. At(f, w, i) = AfterTables(r, b, t, e)
            BY <3>2, <3>3, <3>5
        <3>7. p \in 1 .. Len(f) /\ i \in 0 .. Len(f) /\ p = i + 1 /\ n \in 1 .. m
            BY <1>2, <3>0, <3>1, <3>2, <3>4, <3>5
        <3>8. At(f, w, p) = ReadBlock(At(f, w, i), f[p], p, w)
            BY <3>7, AtNext
        <3>9. PICK d \in Nat : d = l + n
            BY <3>0
        <3>10. f[p] = Table(d, t[n])
            BY <1>2, <3>4, <3>7, <3>9
        <3>11. /\ n \in 1 .. Len(t) /\ e \in Nat /\ p = b + 1 + Len(t) + n
               /\ d = Len(r.ht) + n
            BY <1>0, <1>1, <3>2, <3>4, <3>7, <3>9
        <3>12. ReadBlock(AfterTables(r, b, t, e), Table(d, t[n]), p, w) = AfterTables(r, b, t, n)
            <4>1. TableRead(r, b, t, n, w)
                BY <3>11, ReadsTable
            <4>2. n - 1 = e
                BY <3>2
            <4> QED BY <3>11, <4>1, <4>2 DEF TableRead
        <3>13. At(f, w, p) = AfterTables(r, b, t, n)
            BY <3>6, <3>8, <3>10, <3>12
        <3> QED BY <3>0, <3>4, <3>13
    <2>2. S = {}
        <3> HIDE DEF S
        <3> QED BY <2>s, <2>1, LeastNumber
    <2> QED BY <2>2
<1>6. PICK p \in Nat : p = b + 1 + m + m
    OBVIOUS
<1>7. At(f, w, p) = AfterTables(r, b, t, m)
    BY <1>5, <1>6
<1>8. c \in 1 .. Len(f) /\ p \in 0 .. Len(f) /\ c = p + 1 /\ f[c] = Index(ptr)
    BY <1>0, <1>c, <1>2, <1>6
<1>9. At(f, w, c) = ReadBlock(At(f, w, p), f[c], c, w)
    BY <1>8, AtNext
<1>10. ReadBlock(AfterTables(r, b, t, Len(t)), Index(ptr), c, w) = Updated(r, b, t, ptr)
    BY <1>c, ReadsIndex
<1> QED BY <1>0, <1>c, <1>7, <1>8, <1>9, <1>10 DEF UpdateRead

(* The fragments of an update are in its data blocks. *)
LEMMA LocatedGrows ==
    ASSUME NEW f, NEW b \in Nat, NEW c \in Nat, NEW h, NEW blk \in Seq(Entry), Located(h, blk, f, b),
           NEW t \in Seq(Fragment), b + 1 + Len(t) <= c,
           \A n \in 1 .. Len(t) : f[b + 1 + n] = DataBlock(t[n]),
           NEW u, u = HtAt(h, t, Len(t)), NEW z, z = BlockAt(blk, b, Len(t))
    PROVE  Located(u, z, f, c) /\ z \in Seq(Entry) /\ Len(u) = Len(h) + Len(t)
<1>0. PICK m \in Nat : m = Len(t)
    OBVIOUS
<1>1. /\ h \in Seq(Fragment)
      /\ blk \in Seq([start : Nat, offset : 1 .. b]) /\ Len(blk) = Len(h)
      /\ \A n \in 1 .. Len(h) : blk[n].start = n /\ f[blk[n].offset] = DataBlock(h[n])
    BY DEF Located
<1>2. PICK l \in Nat : l = Len(h)
    BY <1>1
<1>3. u \in Seq(Fragment) /\ Len(u) = l + m
    <2>1. m \in 0 .. Len(t)
        BY <1>0
    <2>2. u = HtAt(h, t, m)
        BY <1>0
    <2> QED BY <1>1, <1>2, <2>1, <2>2, HtGrows
<1>4. z \in Seq(Entry) /\ Len(z) = l + m
    <2>1. z = BlockAt(blk, b, m) /\ Len(blk) = l
        BY <1>0, <1>1, <1>2
    <2>2. /\ BlockAt(blk, b, m) \in Seq(Entry)
          /\ Len(BlockAt(blk, b, m)) = Len(blk) + m
        BY BlockGrows
    <2> QED BY <2>1, <2>2
<1>5. u = [j \in 1 .. l + m |-> IF j <= l THEN h[j] ELSE t[j - l]]
    BY <1>0, <1>2 DEF HtAt
<1>6. z = [j \in 1 .. l + m |-> IF j <= l THEN blk[j]
                                ELSE [start |-> j, offset |-> b + 1 + (j - l)]]
    BY <1>0, <1>1, <1>2 DEF BlockAt
<1>7. ASSUME NEW n \in 1 .. l + m
      PROVE  /\ z[n] \in [start : Nat, offset : 1 .. c]
             /\ z[n].start = n /\ f[z[n].offset] = DataBlock(u[n])
    <2>1. CASE n <= l
        <3>1. z[n] = blk[n] /\ u[n] = h[n]
            BY <1>5, <1>6, <2>1
        <3>2. n \in 1 .. Len(blk) /\ n \in 1 .. Len(h)
            BY <1>1, <1>2, <2>1
        <3>3. blk[n] \in [start : Nat, offset : 1 .. b]
            BY <1>1, <3>2, ElementOfSeq
        <3>4. 1 .. b \subseteq 1 .. c
            BY <1>0
        <3>5. blk[n] \in [start : Nat, offset : 1 .. c]
            BY <3>3, <3>4
        <3> QED BY <1>1, <3>1, <3>2, <3>5
    <2>2. CASE ~(n <= l)
        <3>1. PICK j \in 1 .. m : j = n - l
            BY <2>2
        <3>2. PICK i \in 1 .. c : i = b + 1 + j
            BY <1>0
        <3>3. z[n] = [start |-> n, offset |-> i]
            BY <1>6, <2>2, <3>1, <3>2
        <3>4. u[n] = t[j]
            BY <1>5, <2>2, <3>1
        <3>5. f[i] = DataBlock(t[j])
            BY <1>0, <3>2
        <3>6. n \in Nat
            OBVIOUS
        <3> QED BY <3>2, <3>3, <3>4, <3>5, <3>6
    <2> QED BY <2>1, <2>2
<1>8. PICK R : R = [start : Nat, offset : 1 .. c]
    OBVIOUS
<1>9. z \in Seq(R)
    <2>1. \A n \in 1 .. Len(z) : z[n] \in R
        BY <1>4, <1>7, <1>8
    <2> QED BY <1>4, <2>1
<1> QED BY <1>0, <1>2, <1>3, <1>4, <1>7, <1>8, <1>9 DEF Located

(* The data blocks among some blocks. *)
DataBlocks(P) == Cardinality({n \in DOMAIN P : P[n].kind = "d"})

(* The blocks of P are in the file f behind cell b, with a header that     *)
(* says how many of them are data.                                         *)
InFile(f, b, P) ==
    /\ b + Len(P) <= Len(f)
    /\ f[b + 1] = Header(DataBlocks(P))
    /\ \A n \in 2 .. Len(P) : f[b + n] = P[n]

(* A plan has a data block for each new fragment. *)
LEMMA PlanData ==
    ASSUME NEW P \in Seq(AnyBlock), NEW h, Len(h) \in Nat, NEW t \in Seq(Fragment), NEW ptr,
           PlanOf(P, h, t, ptr)
    PROVE  DataBlocks(P) = Len(t)
<1>0. PICK m \in Nat : m = Len(t)
    OBVIOUS
<1>1. /\ Len(P) = 2 * m + 2
      /\ P[1] = Header(-1)
      /\ \A n \in 1 .. m : P[1 + n] = DataBlock(t[n])
      /\ \A n \in 1 .. m : P[1 + m + n] = Table(Len(h) + n, t[n])
      /\ P[2 * m + 2] = Index(ptr)
    BY <1>0 DEF PlanOf
<1>2. DOMAIN P = 1 .. 2 * m + 2
    BY <1>1
<1>3. P[1].kind # "d"
    BY <1>1 DEF Header
<1>4. ASSUME NEW n \in 2 .. 1 + m PROVE P[n].kind = "d"
    <2>1. PICK j \in 1 .. m : n = 1 + j
        OBVIOUS
    <2>2. P[n] = DataBlock(t[j])
        BY <1>1, <2>1
    <2> QED BY <2>2 DEF DataBlock
<1>5. ASSUME NEW n \in 2 + m .. 1 + m + m PROVE P[n].kind # "d"
    <2>1. PICK j \in 1 .. m : n = 1 + m + j
        OBVIOUS
    <2>2. P[n] = Table(Len(h) + j, t[j])
        BY <1>1, <2>1
    <2> QED BY <2>2 DEF Table
<1>6. P[2 * m + 2].kind # "d"
    BY <1>1 DEF Index
<1>7. ASSUME NEW n \in 1 .. 2 * m + 2 PROVE P[n].kind = "d" <=> n \in 2 .. 1 + m
    <2>1. n = 1 \/ n \in 2 .. 1 + m \/ n \in 2 + m .. 1 + m + m \/ n = 2 * m + 2
        OBVIOUS
    <2>2. 1 \notin 2 .. 1 + m /\ 2 * m + 2 \notin 2 .. 1 + m
        OBVIOUS
    <2>3. CASE n \in 2 + m .. 1 + m + m
        <3>1. n \notin 2 .. 1 + m
            BY <2>3
        <3> QED BY <1>5, <2>3, <3>1
    <2> QED BY <1>3, <1>4, <1>6, <2>1, <2>2, <2>3
<1>8. {n \in DOMAIN P : P[n].kind = "d"} = 2 .. 1 + m
    <2>1. 2 .. 1 + m \subseteq 1 .. 2 * m + 2
        OBVIOUS
    <2> QED BY <1>2, <1>7, <2>1
<1>9. Cardinality(2 .. 1 + m) = m
    <2>1. PICK j \in Int : j = 1 + m
        OBVIOUS
    <2>2. Cardinality(2 .. j) = IF 2 > j THEN 0 ELSE j - 2 + 1
        BY FS_Interval
    <2> QED BY <2>1, <2>2
<1> QED BY <1>0, <1>8, <1>9 DEF DataBlocks

(* A file that holds a version and behind it a completed update holds the  *)
(* next version: here if the update has no change, ...                     *)
LEMMA UnchangedHolds ==
    ASSUME NEW f, Len(f) \in Nat, NEW b \in Nat, NEW v \in Nat, v < Latest, NEW y,
           Holds(f, b, v, y), NEW x, NEW r, r = At(f, Latest, b), Extracted(r) = x,
           f[b + 1] = Header(0), NEW c \in 0 .. Len(f), c = b + 1, NEW u \in Nat, u = v + 1
    PROVE  Holds(f, c, u, x)
<1> USE JournalAssumption
<1>0. Latest \in Nat
    BY DEF Latest
<1>1. Good(r, f, b, v, y) /\ \A w \in v .. Latest : At(f, w, b) = r
    BY DEF Holds
<1>2. /\ r \in ReadState /\ ~r.done /\ r.at = b + 1 /\ r.ver = v /\ r.offset = b /\ r.errors = 0
      /\ r.ht \in Seq(Fragment) /\ Len(r.block) = Len(r.ht) /\ r.block \in Seq(Entry)
      /\ Located(r.ht, r.block, f, b) /\ r.dt \in Seq(1 .. Len(r.ht))
    BY <1>1 DEF Good, Located, ReadState
<1>3. AtEnd(r, b)
    BY <1>2 DEF AtEnd
<1>4. PICK t \in Seq(Fragment) : t = << >>
    BY EmptySeq
<1>5. Len(t) = 0
    BY <1>4
<1>6. PICK R : R = AfterTables(r, b, t, 0)
    OBVIOUS
<1>7. ASSUME NEW w \in u .. Latest PROVE At(f, w, c) = R
    <2>1. w \in Nat /\ r.ver < w /\ w \in v .. Latest
        BY <1>0, <1>2
    <2>2. c \in 1 .. Len(f) /\ b \in 0 .. Len(f)
        OBVIOUS
    <2>3. At(f, w, b) = r
        BY <1>1, <2>1
    <2>4. At(f, w, c) = ReadBlock(At(f, w, b), f[c], c, w)
        BY <2>2, AtNext
    <2>5. ReadBlock(r, Header(Len(t)), c, w) = AfterTables(r, b, t, 0)
        BY <1>3, <2>1, <2>2, ReadsHeader
    <2> QED BY <1>5, <1>6, <2>3, <2>4, <2>5
<1>8. PICK H : H = HtAt(r.ht, t, 0)
    OBVIOUS
<1>9. PICK K : K = BlockAt(r.block, b, 0)
    OBVIOUS
<1>10. Located(H, K, f, c) /\ K \in Seq(Entry) /\ Len(H) = Len(r.ht)
    <2>1. PICK h : h = r.ht
        OBVIOUS
    <2>2. PICK z : z = r.block
        OBVIOUS
    <2>3. /\ Located(h, z, f, b) /\ z \in Seq(Entry) /\ b + 1 + Len(t) <= c
          /\ \A n \in 1 .. Len(t) : f[b + 1 + n] = DataBlock(t[n])
          /\ H = HtAt(h, t, Len(t)) /\ K = BlockAt(z, b, Len(t)) /\ c \in Nat
        BY <1>2, <1>5, <1>8, <1>9, <2>1, <2>2
    <2>4. Located(H, K, f, c) /\ K \in Seq(Entry) /\ Len(H) = Len(h) + Len(t)
        BY <2>3, LocatedGrows
    <2> QED BY <1>2, <1>5, <2>1, <2>4
<1>11. H = r.ht
    <2>1. PICK h \in Seq(Fragment) : h = r.ht
        BY <1>2
    <2>2. HtAt(h, t, 0) = [j \in 1 .. Len(h) |-> h[j]]
        BY DEF HtAt
    <2> QED BY <1>8, <2>1, <2>2
<1>12. R = [done |-> FALSE, at |-> c + 1, ver |-> u, data |-> b + 2, offset |-> c,
            ht |-> H, block |-> K, dt |-> r.dt, errors |-> 0]
    BY <1>2, <1>5, <1>6, <1>8, <1>9 DEF AfterTables
<1>13. R \in ReadState
    <2>1. /\ H \in Seq(Fragment \cup {"unknown"}) /\ r.dt \in Seq(Nat)
          /\ b + 2 \in Nat /\ c + 1 \in Nat /\ c \in Nat
        BY <1>2, <1>11 DEF ReadState
    <2> QED BY <1>10, <1>12, <2>1 DEF ReadState
<1>14. R.dt = r.dt /\ R.ht = r.ht
    BY <1>11, <1>12
<1>15. Extracted(R) = x
    BY <1>14 DEF Extracted
<1>16. Good(R, f, c, u, x)
    BY <1>2, <1>10, <1>12, <1>13, <1>14, <1>15 DEF Good
<1>17. Latest \in u .. Latest
    BY <1>0
<1> QED BY <1>7, <1>16, <1>17 DEF Holds

(* ... and here if it has.                                                 *)
LEMMA ChangedHolds ==
    ASSUME NEW f, Len(f) \in Nat, NEW b \in Nat, NEW v \in Nat, v < Latest, NEW y,
           Holds(f, b, v, y), NEW x \in Content, NEW r, r = At(f, Latest, b),
           InFile(f, b, Plan(r, x)),
           NEW c \in 0 .. Len(f), c = b + Len(Plan(r, x)), NEW u \in Nat, u = v + 1
    PROVE  Holds(f, c, u, x)
<1> USE JournalAssumption
<1>0. Latest \in Nat
    BY DEF Latest
<1>1. Good(r, f, b, v, y) /\ \A w \in v .. Latest : At(f, w, b) = r
    BY DEF Holds
<1>2. /\ r \in ReadState /\ ~r.done /\ r.at = b + 1 /\ r.ver = v /\ r.offset = b /\ r.errors = 0
      /\ r.ht \in Seq(Fragment) /\ Len(r.block) = Len(r.ht) /\ r.block \in Seq(Entry)
      /\ Located(r.ht, r.block, f, b) /\ r.dt \in Seq(1 .. Len(r.ht))
    BY <1>1 DEF Good, Located, ReadState
<1>3. AtEnd(r, b)
    BY <1>2 DEF AtEnd
<1>4. x \in Seq(Fragment) /\ Len(x) \in Nat /\ DOMAIN x = 1 .. Len(x)
    BY ContentSeq
<1>h. PICK h \in Seq(Fragment) : h = r.ht
    BY <1>2
<1>g. h \in Seq(Fragment \cup {"unknown"})
    OBVIOUS
<1>5. PICK t : t = NewFragments(h, x)
    OBVIOUS
<1>6. t \in Seq(Fragment)
    BY <1>4, <1>5, <1>g, NewFacts
<1>7. PICK P : P = Plan(r, x)
    OBVIOUS
<1>8. PICK ptr : PointsTo(ptr, h, t, x) /\ PlanOf(P, h, t, ptr) /\ P \in Seq(AnyBlock)
    BY <1>5, <1>7, <1>g, <1>h, PlanShape
<1>9. PICK m \in Nat : m = Len(t)
    BY <1>6
<1>10. PICK l \in Nat : l = Len(h)
    OBVIOUS
<1>11. DataBlocks(P) = m
    BY <1>6, <1>8, <1>9, <1>10, PlanData
<1>12. /\ Len(P) = 2 * m + 2
       /\ \A n \in 1 .. m : P[1 + n] = DataBlock(t[n])
       /\ \A n \in 1 .. m : P[1 + m + n] = Table(l + n, t[n])
       /\ P[2 * m + 2] = Index(ptr)
    BY <1>8, <1>9, <1>10 DEF PlanOf
<1>13. /\ b + 2 * m + 2 <= Len(f) /\ c = b + 2 * m + 2
       /\ f[b + 1] = Header(m)
       /\ \A n \in 2 .. 2 * m + 2 : f[b + n] = P[n]
    BY <1>7, <1>11, <1>12 DEF InFile
<1>14. ASSUME NEW n \in 1 .. m
       PROVE  /\ f[b + 1 + n] = DataBlock(t[n])
              /\ f[b + 1 + m + n] = Table(l + n, t[n])
    <2>1. PICK i \in 2 .. 2 * m + 2 : i = 1 + n
        OBVIOUS
    <2>2. PICK j \in 2 .. 2 * m + 2 : j = 1 + m + n
        OBVIOUS
    <2>3. f[b + i] = P[i] /\ f[b + j] = P[j]
        BY <1>13
    <2>4. b + i = b + 1 + n /\ b + j = b + 1 + m + n
        BY <2>1, <2>2
    <2> QED BY <1>12, <2>1, <2>2, <2>3, <2>4
<1>15. f[b + 2 * m + 2] = Index(ptr)
    <2>1. PICK i \in 2 .. 2 * m + 2 : i = 2 * m + 2
        OBVIOUS
    <2>2. f[b + i] = P[i]
        BY <1>13
    <2>3. b + i = b + 2 * m + 2
        BY <2>1
    <2> QED BY <1>12, <2>1, <2>2, <2>3
<1>16. Completed(f, b, h, t, ptr)
    BY <1>9, <1>10, <1>13, <1>14, <1>15 DEF Completed
<1>17. PICK R : R = Updated(r, b, t, ptr)
    OBVIOUS
<1>18. ASSUME NEW w \in u .. Latest PROVE At(f, w, c) = R
    <2>1. w \in Nat /\ r.ver < w /\ w \in v .. Latest
        BY <1>0, <1>2
    <2>2. At(f, w, b) = r
        BY <1>1, <2>1
    <2>3. Completed(f, b, r.ht, t, ptr) /\ c \in Nat /\ c = b + 2 * Len(t) + 2
        BY <1>9, <1>13, <1>16, <1>h
    <2>4. UpdateRead(f, w, b, r, t, ptr)
        BY <1>3, <1>6, <2>1, <2>2, <2>3, UpdateReads
    <2> QED BY <1>17, <2>3, <2>4 DEF UpdateRead
<1>19. PICK H : H = HtAt(r.ht, t, Len(t))
    OBVIOUS
<1>20. PICK K : K = BlockAt(r.block, b, Len(t))
    OBVIOUS
<1>21. Located(H, K, f, c) /\ K \in Seq(Entry) /\ Len(H) = l + m
    <2>1. PICK z : z = r.block
        OBVIOUS
    <2>2. /\ Located(h, z, f, b) /\ z \in Seq(Entry) /\ b + 1 + Len(t) <= c
          /\ \A n \in 1 .. Len(t) : f[b + 1 + n] = DataBlock(t[n])
          /\ H = HtAt(h, t, Len(t)) /\ K = BlockAt(z, b, Len(t)) /\ c \in Nat
        BY <1>2, <1>9, <1>13, <1>14, <1>19, <1>20, <1>h, <2>1
    <2>3. Located(H, K, f, c) /\ K \in Seq(Entry) /\ Len(H) = Len(h) + Len(t)
        BY <1>6, <2>2, LocatedGrows
    <2> QED BY <1>9, <1>10, <2>3
<1>22. R = [done |-> FALSE, at |-> c + 1, ver |-> u, data |-> b + 2 + m, offset |-> c,
            ht |-> H, block |-> K, dt |-> ptr, errors |-> 0]
    <2>0. c = b + 2 * m + 2
        BY <1>13
    <2>1. b + 2 * m + 3 = c + 1 /\ b + 2 * m + 2 = c
        BY <2>0
    <2> QED BY <1>2, <1>9, <1>17, <1>19, <1>20, <2>1 DEF Updated
<1>23. /\ ptr \in [1 .. Len(x) -> 1 .. l + m]
       /\ \A n \in 1 .. Len(x) : (h \o t)[ptr[n]] = x[n]
    BY <1>8, <1>9, <1>10 DEF PointsTo
<1>24. ptr \in Seq(1 .. Len(H)) /\ ptr \in Seq(Nat) /\ DOMAIN ptr = 1 .. Len(x)
    <2>1. PICK j \in Nat : j = Len(x)
        BY <1>4
    <2>2. PICK i \in Nat : i = l + m
        OBVIOUS
    <2>3. ptr \in [1 .. j -> 1 .. i] /\ Len(H) = i
        BY <1>21, <1>23, <2>1, <2>2
    <2>4. ptr \in Seq(1 .. i)
        BY <2>3
    <2>5. ptr \in Seq(Nat)
        BY <2>4
    <2> QED BY <2>1, <2>3, <2>4, <2>5
<1>25. R \in ReadState
    <2>1. H \in Seq(Fragment)
        BY <1>21 DEF Located
    <2>2. /\ H \in Seq(Fragment \cup {"unknown"})
          /\ b + 2 + m \in Nat /\ c + 1 \in Nat /\ c \in Nat
        BY <2>1
    <2> QED BY <1>21, <1>22, <1>24, <2>2 DEF ReadState
<1>26. Extracted(R) = x
    <2>1. \A i \in 1 .. l + m : H[i] = (h \o t)[i]
        <3>1. H = [j \in 1 .. l + m |-> IF j <= l THEN h[j] ELSE t[j - l]]
            BY <1>9, <1>10, <1>19, <1>h DEF HtAt
        <3>2. \A i \in 1 .. l + m : (h \o t)[i] = IF i <= l THEN h[i] ELSE t[i - l]
            BY <1>6, <1>9, <1>10, ConcatProperties
        <3> QED BY <3>1, <3>2
    <2>2. \A n \in 1 .. Len(x) : H[ptr[n]] = x[n]
        BY <1>23, <2>1
    <2>3. Extracted(R) = [n \in 1 .. Len(x) |-> H[ptr[n]]]
        BY <1>22, <1>24 DEF Extracted
    <2>4. [n \in 1 .. Len(x) |-> H[ptr[n]]] = [n \in 1 .. Len(x) |-> x[n]]
        BY <2>2
    <2>5. x = [n \in 1 .. Len(x) |-> x[n]]
        BY <1>4
    <2> QED BY <2>3, <2>4, <2>5
<1>27. Good(R, f, c, u, x)
    BY <1>21, <1>22, <1>24, <1>25, <1>26 DEF Good
<1>28. Latest \in u .. Latest
    BY <1>0
<1> QED BY <1>18, <1>27, <1>28 DEF Holds

(* Both cases together. *)
LEMMA UpdateHolds ==
    ASSUME NEW f, Len(f) \in Nat, NEW b \in Nat, NEW v \in Nat, v < Latest, NEW y,
           Holds(f, b, v, y), NEW x \in Content, NEW P, P = ToWrite(At(f, Latest, b), x),
           InFile(f, b, P), NEW c \in 0 .. Len(f), c = b + Len(P), NEW u \in Nat, u = v + 1
    PROVE  Holds(f, c, u, x)
<1>1. PICK r : r = At(f, Latest, b)
    OBVIOUS
<1>2. CASE Unchanged(r, x)
    <2>1. P = <<Header(-1)>>
        BY <1>1, <1>2 DEF ToWrite
    <2>2. DataBlocks(P) = 0
        <3>1. {n \in DOMAIN P : P[n].kind = "d"} = {}
            BY <2>1 DEF Header
        <3> QED BY <3>1, FS_EmptySet DEF DataBlocks
    <2>3. Len(P) = 1
        BY <2>1
    <2>4. f[b + 1] = Header(0) /\ c = b + 1
        BY <2>2, <2>3 DEF InFile
    <2>5. Extracted(r) = x
        BY <1>2 DEF Unchanged
    <2> QED BY <1>1, <2>4, <2>5, UnchangedHolds
<1>3. CASE ~Unchanged(r, x)
    <2>1. P = Plan(r, x)
        BY <1>1, <1>3 DEF ToWrite
    <2>2. InFile(f, b, Plan(r, x)) /\ c = b + Len(Plan(r, x))
        BY <2>1
    <2> QED BY <1>1, <2>2, ChangedHolds
<1> QED BY <1>2, <1>3

(* What an update writes depends on the fragments and the index only. *)
LEMMA SameToWrite ==
    ASSUME NEW r, NEW s, r.ht = s.ht, r.dt = s.dt, NEW x
    PROVE  ToWrite(r, x) = ToWrite(s, x)
BY DEF ToWrite, Plan, Unchanged, Extracted

(* The blocks that an update writes, as long as the fragments have a number. *)
LEMMA ToWriteType ==
    ASSUME NEW r \in ReadState, NEW x \in Content, NEW M \in Nat, Len(r.ht) <= M,
           M + MaxFragments <= MaxUpdates * MaxFragments, NEW P, P = ToWrite(r, x)
    PROVE  /\ P \in Seq(Block) /\ Len(P) \in Nat \ {0} /\ P[1] = Header(-1)
           /\ DataBlocks(P) \in 0 .. MaxFragments
           /\ Numbered(P, M + MaxFragments)
<1> USE JournalAssumption
<1>b. PICK B \in Int : B = MaxUpdates * MaxFragments
    OBVIOUS
<1>1. Header(-1) \in Block
    BY DEF Block
<1>2. CASE Unchanged(r, x)
    <2>1. P = <<Header(-1)>>
        BY <1>2 DEF ToWrite
    <2>2. P \in Seq(Block) /\ Len(P) = 1 /\ P[1] = Header(-1)
        BY <1>1, <2>1
    <2>3. DataBlocks(P) = 0
        <3>1. {n \in DOMAIN P : P[n].kind = "d"} = {}
            BY <2>1 DEF Header
        <3> QED BY <3>1, FS_EmptySet DEF DataBlocks
    <2>4. Numbered(P, M + MaxFragments)
        <3>1. ASSUME NEW n \in 1 .. Len(P) PROVE P[n].kind # "h"
            <4>1. n = 1
                BY <2>2
            <4> QED BY <2>2, <4>1 DEF Header
        <3> QED BY <3>1 DEF Numbered
    <2> QED BY <2>2, <2>3, <2>4
<1>3. CASE ~Unchanged(r, x)
    <2>1. P = Plan(r, x)
        BY <1>3 DEF ToWrite
    <2>2. x \in Seq(Fragment) /\ Len(x) \in 1 .. MaxFragments
        BY ContentSeq
    <2>3. PICK h \in Seq(Fragment \cup {"unknown"}) : h = r.ht
        BY DEF ReadState
    <2>4. PICK t : t = NewFragments(h, x)
        OBVIOUS
    <2>5. t \in Seq(Fragment) /\ Len(t) <= Len(x)
        BY <2>2, <2>4, NewFacts
    <2>6. PICK ptr : PointsTo(ptr, h, t, x) /\ PlanOf(P, h, t, ptr) /\ P \in Seq(AnyBlock)
        BY <2>1, <2>3, <2>4, PlanShape
    <2>7. PICK m \in 0 .. MaxFragments : m = Len(t)
        BY <2>2, <2>5
    <2>8. PICK l \in Nat : l = Len(h) /\ l <= M
        BY <2>3
    <2>9. DataBlocks(P) = m
        BY <2>5, <2>6, <2>7, <2>8, PlanData
    <2>10. /\ Len(P) = 2 * m + 2
           /\ P[1] = Header(-1)
           /\ \A n \in 1 .. m : P[1 + n] = DataBlock(t[n])
           /\ \A n \in 1 .. m : P[1 + m + n] = Table(l + n, t[n])
           /\ P[2 * m + 2] = Index(ptr)
        BY <2>6, <2>7, <2>8 DEF PlanOf
    <2>11. l + m <= M + MaxFragments /\ l + m <= B
        BY <1>b, <2>7, <2>8
    <2>12. Index(ptr) \in Block
        <3>1. PICK j \in 1 .. MaxFragments : j = Len(x)
            BY <2>2
        <3>2. ptr \in [1 .. j -> 1 .. l + m]
            BY <2>6, <2>7, <2>8, <3>1 DEF PointsTo
        <3>3. 1 .. l + m \subseteq 1 .. B
            BY <2>11
        <3>4. ptr \in [1 .. j -> 1 .. B]
            BY <3>2, <3>3
        <3> QED BY <1>b, <3>1, <3>4 DEF Block
    <2>13. ASSUME NEW n \in 1 .. 2 * m + 2
           PROVE  P[n] \in Block /\ (P[n].kind = "h" => P[n].num <= M + MaxFragments)
        <3>1. CASE n = 1
            BY <1>1, <2>10, <3>1 DEF Header
        <3>2. CASE n \in 2 .. 1 + m
            <4>1. PICK j \in 1 .. m : n = 1 + j
                BY <3>2
            <4>2. P[n] = DataBlock(t[j]) /\ t[j] \in Fragment
                BY <2>5, <2>7, <2>10, <4>1
            <4> QED BY <4>2 DEF Block, DataBlock
        <3>3. CASE n \in 2 + m .. 1 + m + m
            <4>1. PICK j \in 1 .. m : n = 1 + m + j
                BY <3>3
            <4>2. PICK d \in 1 .. B : d = l + j
                BY <2>11
            <4>3. P[n] = Table(d, t[j]) /\ t[j] \in Fragment
                BY <2>5, <2>7, <2>10, <4>1, <4>2
            <4>4. P[n] \in Block
                BY <1>b, <4>3 DEF Block
            <4>5. d <= M + MaxFragments
                BY <2>11, <4>2
            <4> QED BY <4>3, <4>4, <4>5 DEF Table
        <3>4. CASE n = 2 * m + 2
            BY <2>10, <2>12, <3>4 DEF Index
        <3>5. n = 1 \/ n \in 2 .. 1 + m \/ n \in 2 + m .. 1 + m + m \/ n = 2 * m + 2
            OBVIOUS
        <3> QED BY <3>1, <3>2, <3>3, <3>4, <3>5
    <2>14. P \in Seq(Block)
        <3>1. \A n \in 1 .. Len(P) : P[n] \in Block
            BY <2>10, <2>13
        <3> QED BY <2>6, <3>1
    <2>15. Numbered(P, M + MaxFragments)
        BY <2>10, <2>13 DEF Numbered
    <2> QED BY <2>7, <2>9, <2>10, <2>14, <2>15
<1> QED BY <1>2, <1>3

-----------------------------------------------------------------------------
(* The invariant.                                                          *)

(* The versions up to v have nothing of an older update behind them. *)
AllEnded(v) == \A u \in 1 .. v : committed[u].ended
ContentOf(v) == IF v = 0 THEN << >> ELSE committed[v].content

(* The versions that were there before the running update. *)
Before == IF step = "truncate" THEN Len(committed) - 1 ELSE Len(committed)

(* Cell b is the last one of version v: a later version or an incomplete   *)
(* update begins behind it, and the running update does not touch it.      *)
StopsAt(b, v) ==
    b < Len(disk) => /\ disk[b + 1].kind = "c"
                     /\ v = Len(committed) => disk[b + 1].jmp < 0
Untouched(b, v) == step # "idle" /\ v <= Before => b <= header_pos
EndsAt(b, v) == Holds(disk, b, v, ContentOf(v)) /\ StopsAt(b, v) /\ Untouched(b, v)

(* Every version that was finished, and those before it, is in the archive. *)
VersInv ==
    \A v \in 0 .. Len(committed) :
        AllEnded(v) => \E b \in 0 .. Len(disk) : EndsAt(b, v)

(* The blocks that the running update has written so far are in the        *)
(* archive, ...                                                            *)
WrittenInv ==
    /\ header_pos + written <= Len(disk)
    /\ \A n \in 2 .. written : disk[header_pos + n] = plan[n]
    /\ written >= 1 =>
          disk[header_pos + 1] = IF step = "truncate" THEN Header(DataBlocks(plan)) ELSE Header(-1)
    /\ IF step = "append" THEN written < Len(plan) ELSE written = Len(plan)

(* ... and what it writes continues the last version.                      *)
RunInv ==
    /\ content \in Content
    /\ Len(plan) \in Nat \ {0} /\ plan[1] = Header(-1)
    /\ DataBlocks(plan) \in 0 .. MaxFragments
    /\ WrittenInv
    /\ AllEnded(Before) =>
          /\ Holds(disk, header_pos, Before, ContentOf(Before))
          /\ plan = ToWrite(At(disk, Latest, header_pos), content)
    /\ step = "truncate" => Len(committed) \in Nat \ {0} /\ committed[Len(committed)].content = content

(* There are no more versions than updates, and their tables have no       *)
(* number that is too high.                                                *)
NumInv ==
    /\ Len(committed) + (IF step \in {"append", "header"} THEN 1 ELSE 0) <= updates
    /\ Numbered(disk, updates * MaxFragments)
    /\ Numbered(plan, updates * MaxFragments)

JournalInv == JournalTypeOK /\ VersInv /\ NumInv /\ (step # "idle" => RunInv)

(* One more update has room for one more file of fragments. *)
LEMMA RoomForOne ==
    ASSUME NEW i \in Nat, NEW j \in Nat, i < j, NEW m \in Nat
    PROVE  i * m \in Nat /\ (i + 1) * m = i * m + m /\ i * m + m <= j * m /\ i * m <= (i + 1) * m
<1>1. i * m \in Nat /\ (i + 1) * m = i * m + m
    OBVIOUS
<1>2. PICK d \in Nat : j = i + 1 + d
    <2>1. j - i - 1 \in Nat
        OBVIOUS
    <2> QED BY <2>1
<1>3. j * m = i * m + m + d * m /\ d * m \in Nat
    BY <1>2
<1> QED BY <1>1, <1>3

(* A higher bound on the numbers. *)
LEMMA NumberedMore ==
    ASSUME NEW f \in Seq(Block), NEW L \in Nat, NEW M \in Nat, L <= M, Numbered(f, L)
    PROVE  Numbered(f, M)
<1>1. ASSUME NEW n \in 1 .. Len(f), f[n].kind = "h" PROVE f[n].num <= M
    <2>1. f[n] \in Block
        OBVIOUS
    <2>2. f[n].num \in 1 .. MaxUpdates * MaxFragments
        BY <1>1, <2>1, BlockKinds DEF DataBlock
    <2>3. PICK c \in Nat : c = f[n].num
        BY <2>2, JournalAssumption
    <2>4. f[n].num <= L
        BY <1>1 DEF Numbered
    <2> QED BY <2>3, <2>4
<1> QED BY <1>1 DEF Numbered

(* The archive with another cell p. *)
OneCell(f, p, z) ==
    /\ f \in Seq(Block) /\ Len(f) = (IF p <= Len(disk) THEN Len(disk) ELSE p)
    /\ f[p] = z /\ \A n \in 1 .. Len(disk) : n # p => f[n] = disk[n]

(* Put writes one cell. *)
LEMMA PutFacts ==
    ASSUME disk \in Seq(Block), NEW p \in 1 .. Len(disk) + 1, NEW z \in Block, NEW f, f = Put(p, z)
    PROVE  OneCell(f, p, z)
<1> USE DEF OneCell
<1>1. CASE p <= Len(disk)
    <2>1. f = [disk EXCEPT ![p] = z]
        BY <1>1 DEF Put
    <2>2. p \in 1 .. Len(disk)
        BY <1>1
    <2> QED BY <1>1, <2>1, <2>2
<1>2. CASE ~(p <= Len(disk))
    <2>1. f = Append(disk, z) /\ p = Len(disk) + 1
        BY <1>2 DEF Put
    <2> QED BY <1>2, <2>1
<1> QED BY <1>1, <1>2

(* A cell that is written keeps the numbers in their bound. *)
LEMMA PutNumbered ==
    ASSUME disk \in Seq(Block), NEW p \in 1 .. Len(disk) + 1, NEW z \in Block, NEW f, f = Put(p, z),
           NEW M, Numbered(disk, M), z.kind = "h" => z.num <= M
    PROVE  Numbered(f, M)
<1>1. /\ f \in Seq(Block) /\ Len(f) = (IF p <= Len(disk) THEN Len(disk) ELSE p)
      /\ f[p] = z /\ \A n \in 1 .. Len(disk) : n # p => f[n] = disk[n]
    BY PutFacts DEF OneCell
<1>2. ASSUME NEW n \in 1 .. Len(f), n # p PROVE n \in 1 .. Len(disk)
    BY <1>1, <1>2
<1> QED BY <1>1, <1>2 DEF Numbered

(* The first cells are still there. *)
LEMMA FirstPart ==
    ASSUME NEW S, NEW s \in Seq(S), NEW c \in 0 .. Len(s), NEW f, f = SubSeq(s, 1, c)
    PROVE  f \in Seq(S) /\ Len(f) = c /\ (\A n \in 1 .. c : f[n] = s[n])
OBVIOUS

(* The archive is empty at first. *)
LEMMA InitJournal == ASSUME JournalInit PROVE JournalInv
<1> USE JournalAssumption
<1>1. JournalTypeOK
    BY DEF JournalInit, JournalTypeOK
<1>2. disk = << >> /\ committed = << >> /\ step = "idle" /\ plan = << >> /\ updates = 0
    BY DEF JournalInit
<1>3. Len(disk) = 0 /\ Len(committed) = 0 /\ Len(plan) = 0
    BY <1>2
<1>4. NumInv
    BY <1>2, <1>3 DEF NumInv, Numbered
<1>5. PICK f : f = disk
    OBVIOUS
<1>6. \A w : At(f, w, 0) = Start
    BY <1>3, <1>5, AtSteps
<1>7. Good(Start, f, 0, 0, << >>)
    <2>1. Start \in ReadState
        BY DEF Start, ReadState
    <2>2. << >> \in Seq([start : Nat, offset : 1 .. 0]) /\ << >> \in Seq(Fragment) /\ << >> \in Seq(1 .. 0)
        BY EmptySeq
    <2>3. Located(<< >>, << >>, f, 0)
        BY <2>2 DEF Located
    <2>4. Extracted(Start) = << >>
        BY DEF Extracted, Start
    <2> QED BY <2>1, <2>2, <2>3, <2>4 DEF Good, Start
<1>8. Holds(f, 0, 0, << >>)
    BY <1>6, <1>7 DEF Holds
<1>9. EndsAt(0, 0)
    BY <1>2, <1>3, <1>5, <1>8 DEF EndsAt, StopsAt, Untouched, ContentOf
<1>10. VersInv
    <2>1. ASSUME NEW v \in 0 .. Len(committed) PROVE v = 0
        BY <1>3
    <2>2. 0 \in 0 .. Len(disk)
        BY <1>3
    <2> QED BY <1>9, <2>1, <2>2 DEF VersInv
<1> QED BY <1>1, <1>2, <1>4, <1>10 DEF JournalInv

(* What the archive holds up to a cell stays there when later cells change. *)
LEMMA KeepsVersion ==
    ASSUME disk \in Seq(Block), NEW f \in Seq(Block), NEW b \in Nat, b <= Len(disk), b <= Len(f),
           \A n \in 1 .. b : f[n] = disk[n],
           NEW v \in Nat, NEW x, Holds(disk, b, v, x)
    PROVE  Holds(f, b, v, x) /\ At(f, Latest, b) = At(disk, Latest, b)
<1>1. SameUpTo(disk, f, b)
    BY DEF SameUpTo
<1>2. PICK g : g = disk
    OBVIOUS
<1>3. SameUpTo(g, f, b) /\ Holds(g, b, v, x) /\ Len(g) \in Nat /\ Len(f) \in Nat
    BY <1>1, <1>2
<1> QED BY <1>2, <1>3, HoldsLocal

-----------------------------------------------------------------------------
(* add() begins behind the last version that was finished, if all were,    *)
(* and never before the end of one that was.                               *)
LEMMA AddInv ==
    ASSUME JournalInv, NEW x \in Content, Add(x)
    PROVE  JournalInv'
<1> USE JournalAssumption
<1>1. /\ disk \in Seq(Block) /\ committed \in Seq([content : Content, ended : BOOLEAN])
      /\ updates \in Nat /\ updates <= MaxUpdates
      /\ VersInv /\ Len(committed) + 0 <= updates
      /\ Numbered(disk, updates * MaxFragments)
    BY DEF JournalInv, JournalTypeOK, NumInv, Add
<1>2. /\ step = "idle" /\ updates < MaxUpdates
      /\ header_pos' = read_archive(Latest).offset
      /\ plan' = ToWrite(read_archive(Latest), x)
      /\ content' = x /\ written' = 0 /\ step' = "append" /\ updates' = updates + 1
      /\ disk' = disk /\ committed' = committed
    BY DEF Add
<1>3. PICK f \in Seq(Block) : f = disk
    BY <1>1
<1>4. PICK r : r = read_archive(Latest)
    OBVIOUS
<1>5. PICK l \in Nat : l = Len(f)
    OBVIOUS
<1>6. r = At(f, Latest, l)
    BY <1>3, <1>4, <1>5 DEF read_archive, At
<1>7. PICK M \in Nat : M = updates * MaxFragments
    BY <1>1, <1>2, RoomForOne
<1>8. M + MaxFragments <= MaxUpdates * MaxFragments /\ M + MaxFragments = updates' * MaxFragments
    BY <1>1, <1>2, <1>7, RoomForOne
<1>9. Numbered(f, M)
    BY <1>1, <1>3, <1>7
<1>10. r \in ReadState /\ r.offset <= l /\ Len(r.ht) <= M
    <2>1. l \in 0 .. Len(f)
        BY <1>5
    <2> QED BY <1>6, <1>9, <2>1, AtType
<1>11. r.offset \in Nat
    BY <1>10 DEF ReadState
<1>12. PICK P : P = ToWrite(r, x)
    OBVIOUS
<1>13. /\ P \in Seq(Block) /\ Len(P) \in Nat \ {0} /\ P[1] = Header(-1)
       /\ DataBlocks(P) \in 0 .. MaxFragments
       /\ Numbered(P, M + MaxFragments)
    BY <1>8, <1>10, <1>12, ToWriteType
<1>14. plan' = P /\ header_pos' = r.offset /\ disk' = f
    BY <1>2, <1>3, <1>4, <1>12
<1>15. JournalTypeOK'
    <2>1. header_pos' \in 0 .. Len(disk') /\ written' \in 0 .. Len(plan') /\ updates' \in 0 .. MaxUpdates
        BY <1>1, <1>2, <1>5, <1>10, <1>11, <1>13, <1>14
    <2> QED BY <1>1, <1>2, <1>13, <1>14, <2>1 DEF JournalTypeOK
<1>16. NumInv'
    <2>1. Len(committed') + 1 <= updates'
        BY <1>1, <1>2
    <2>2. Numbered(disk', updates' * MaxFragments)
        <3>1. M + MaxFragments \in Nat /\ M <= M + MaxFragments
            OBVIOUS
        <3>2. Numbered(f, M + MaxFragments)
            BY <1>9, <3>1, NumberedMore
        <3> QED BY <1>8, <1>14, <3>2
    <2>3. Numbered(plan', updates' * MaxFragments)
        BY <1>8, <1>13, <1>14
    <2> QED BY <1>2, <2>1, <2>2, <2>3 DEF NumInv
<1>17. ASSUME NEW v \in 0 .. Len(committed), NEW b \in 0 .. Len(disk), EndsAt(b, v)
       PROVE  b <= header_pos'
    <2>1. Good(At(f, Latest, b), f, b, v, ContentOf(v))
        BY <1>3, <1>17 DEF EndsAt, Holds
    <2>2. At(f, Latest, b).offset = b
        BY <2>1 DEF Good
    <2>3. b \in 0 .. Len(f)
        BY <1>3
    <2>4. At(f, Latest, b).offset <= At(f, Latest, Len(f)).offset
        BY <1>9, <2>3, OffsetGrows
    <2> QED BY <1>5, <1>6, <1>14, <2>2, <2>4
<1>18. VersInv'
    <2>1. ASSUME NEW v \in 0 .. Len(committed), AllEnded(v)
          PROVE  \E b \in 0 .. Len(disk) : EndsAt(b, v)'
        <3>1. PICK b \in 0 .. Len(disk) : EndsAt(b, v)
            BY <1>1, <2>1 DEF VersInv
        <3>2. b <= header_pos'
            BY <1>17, <3>1
        <3>3. EndsAt(b, v)'
            BY <1>2, <3>1, <3>2 DEF EndsAt, StopsAt, Untouched, ContentOf
        <3> QED BY <3>3
    <2> QED BY <1>2, <2>1 DEF VersInv, AllEnded
<1>19. ASSUME AllEnded(Len(committed))
       PROVE  /\ Holds(disk, header_pos', Len(committed), ContentOf(Len(committed)))
              /\ P = ToWrite(At(disk, Latest, header_pos'), x)
    <2>1. PICK v \in Nat : v = Len(committed)
        BY <1>1
    <2>2. PICK b \in 0 .. Len(disk) : EndsAt(b, v)
        BY <1>1, <1>19, <2>1 DEF VersInv
    <2>3. Holds(disk, b, v, ContentOf(v)) /\ (b < Len(disk) => disk[b + 1].kind = "c" /\ disk[b + 1].jmp < 0)
        BY <2>1, <2>2 DEF EndsAt, StopsAt
    <2>4. Latest \in v .. Latest
        BY <1>1, <2>1 DEF Latest
    <2>5. r.offset = b /\ r.ht = At(disk, Latest, b).ht /\ r.dt = At(disk, Latest, b).dt
        BY <1>1, <1>4, <2>3, <2>4, ReadsAsHeld
    <2>6. P = ToWrite(At(disk, Latest, b), x)
        BY <1>12, <2>5, SameToWrite
    <2> QED BY <1>14, <2>1, <2>3, <2>5, <2>6
<1>20. RunInv'
    <2>1. Before' = Len(committed)
        BY <1>2 DEF Before
    <2>2. AllEnded(Before)' <=> AllEnded(Len(committed))
        BY <1>2, <2>1 DEF AllEnded
    <2>3. ContentOf(Before)' = ContentOf(Len(committed))
        BY <1>2, <2>1 DEF ContentOf
    <2>4. WrittenInv'
        <3>1. Len(plan') \in Nat \ {0}
            BY <1>13, <1>14
        <3> QED BY <1>2, <1>5, <1>10, <1>11, <1>14, <3>1 DEF WrittenInv
    <2>5. AllEnded(Before)' => /\ Holds(disk, header_pos', Len(committed), ContentOf(Len(committed)))
                               /\ plan' = ToWrite(At(disk, Latest, header_pos'), x)
        BY <1>14, <1>19, <2>2
    <2> QED BY <1>2, <1>13, <1>14, <2>1, <2>3, <2>4, <2>5 DEF RunInv
<1> QED BY <1>15, <1>16, <1>18, <1>20 DEF JournalInv

(* What the invariant says about a running update. *)
LEMMA RunFacts ==
    ASSUME JournalInv, step # "idle"
    PROVE  /\ disk \in Seq(Block) /\ plan \in Seq(Block)
           /\ committed \in Seq([content : Content, ended : BOOLEAN])
           /\ Len(disk) \in Nat /\ Len(plan) \in Nat \ {0} /\ Len(committed) \in Nat
           /\ header_pos \in Nat /\ written \in Nat /\ updates \in 0 .. MaxUpdates
           /\ header_pos + written <= Len(disk) /\ written <= Len(plan)
           /\ VersInv /\ NumInv /\ RunInv /\ WrittenInv
           /\ step \in {"append", "header", "truncate"}
<1>1. JournalTypeOK /\ VersInv /\ NumInv /\ RunInv /\ WrittenInv
    BY DEF JournalInv, RunInv
<1>2. /\ disk \in Seq(Block) /\ plan \in Seq(Block)
      /\ committed \in Seq([content : Content, ended : BOOLEAN])
      /\ header_pos \in 0 .. Len(disk) /\ written \in 0 .. Len(plan)
      /\ updates \in 0 .. MaxUpdates
      /\ step \in {"append", "header", "truncate"}
    BY <1>1 DEF JournalTypeOK
<1>3. Len(disk) \in Nat /\ Len(committed) \in Nat
    BY <1>2
<1> QED BY <1>1, <1>2, <1>3 DEF RunInv, WrittenInv

(* A block of the update is written behind all versions. *)
LEMMA AppendInv == ASSUME JournalInv, AppendBlock PROVE JournalInv'
<1> USE JournalAssumption
<1>1. /\ step = "append" /\ step' \in {"append", "header"}
      /\ disk' = Put(header_pos + written + 1, plan[written + 1])
      /\ written' = written + 1
      /\ step' = IF written' = Len(plan) THEN "header" ELSE "append"
      /\ plan' = plan /\ header_pos' = header_pos /\ content' = content
      /\ committed' = committed /\ updates' = updates
    BY DEF AppendBlock
<1>2. /\ disk \in Seq(Block) /\ plan \in Seq(Block)
      /\ committed \in Seq([content : Content, ended : BOOLEAN])
      /\ Len(disk) \in Nat /\ Len(plan) \in Nat \ {0} /\ Len(committed) \in Nat
      /\ header_pos \in Nat /\ written \in Nat /\ updates \in 0 .. MaxUpdates
      /\ header_pos + written <= Len(disk)
      /\ VersInv /\ NumInv /\ RunInv /\ WrittenInv
    BY <1>1, RunFacts
<1>3. written < Len(plan)
    BY <1>1, <1>2 DEF WrittenInv
<1>4. PICK p \in 1 .. Len(disk) + 1 : p = header_pos + written + 1
    BY <1>2
<1>5. PICK n0 \in 1 .. Len(plan) : n0 = written + 1
    BY <1>2, <1>3
<1>6. PICK z \in Block : z = plan[n0]
    BY <1>2
<1>7. PICK f : f = Put(p, z)
    OBVIOUS
<1>8. disk' = f
    BY <1>1, <1>4, <1>5, <1>6, <1>7
<1>9. /\ f \in Seq(Block) /\ Len(f) = (IF p <= Len(disk) THEN Len(disk) ELSE p)
      /\ f[p] = z /\ \A n \in 1 .. Len(disk) : n # p => f[n] = disk[n]
    <2>1. OneCell(f, p, z)
        BY <1>2, <1>4, <1>6, <1>7, PutFacts
    <2> QED BY <2>1 DEF OneCell
<1>10. Len(f) \in Nat /\ Len(disk) <= Len(f) /\ p <= Len(f)
    BY <1>2, <1>9
<1>11. JournalTypeOK'
    <2>1. /\ header_pos' \in 0 .. Len(disk') /\ written' \in 0 .. Len(plan')
          /\ step' \in {"idle", "append", "header", "truncate"}
        BY <1>1, <1>2, <1>3, <1>8, <1>10
    <2>2. content \in Content
        BY <1>2 DEF RunInv
    <2> QED BY <1>1, <1>2, <1>8, <1>9, <2>1, <2>2 DEF JournalTypeOK
<1>12. NumInv'
    <2>1. PICK M : M = updates * MaxFragments
        OBVIOUS
    <2>2. Numbered(disk, M) /\ Numbered(plan, M) /\ Len(committed) + 1 <= updates
        BY <1>1, <1>2, <2>1 DEF NumInv
    <2>3. z.kind = "h" => z.num <= M
        BY <1>6, <2>2 DEF Numbered
    <2>4. Numbered(f, M)
        BY <1>2, <1>7, <2>2, <2>3, PutNumbered
    <2> QED BY <1>1, <1>8, <2>1, <2>2, <2>4 DEF NumInv
<1>13. Before = Len(committed) /\ Before' = Len(committed)
    BY <1>1 DEF Before
<1>14. \A v : (AllEnded(v)' <=> AllEnded(v)) /\ ContentOf(v)' = ContentOf(v)
    BY <1>1 DEF AllEnded, ContentOf
<1>15. plan[1] = Header(-1)
    BY <1>2 DEF RunInv
<1>16. ASSUME NEW b \in 0 .. header_pos, NEW v \in Nat, NEW x, Holds(disk, b, v, x)
       PROVE  Holds(f, b, v, x) /\ At(f, Latest, b) = At(disk, Latest, b)
    <2>1. b \in Nat /\ b <= Len(disk) /\ b <= Len(f)
        BY <1>2, <1>10
    <2>2. \A n \in 1 .. b : f[n] = disk[n]
        <3>1. ASSUME NEW n \in 1 .. b PROVE n \in 1 .. Len(disk) /\ n # p
            BY <1>2, <1>4
        <3> QED BY <1>9, <3>1
    <2> QED BY <1>2, <1>9, <1>16, <2>1, <2>2, KeepsVersion
<1>17. VersInv'
    <2>1. ASSUME NEW v \in 0 .. Len(committed), AllEnded(v)
          PROVE  \E b \in 0 .. Len(f) : EndsAt(b, v)'
        <3>1. PICK b \in 0 .. Len(disk) : EndsAt(b, v)
            BY <1>2, <2>1 DEF VersInv
        <3>2. b \in 0 .. header_pos /\ v \in Nat
            BY <1>1, <1>2, <1>13, <3>1 DEF EndsAt, Untouched
        <3>3. Holds(f, b, v, ContentOf(v))
            BY <1>16, <3>1, <3>2 DEF EndsAt
        <3>4. StopsAt(b, v)'
            <4>1. CASE b + 1 = p
                <5>1. n0 = 1
                    BY <1>2, <1>4, <1>5, <3>2, <4>1
                <5>2. f[b + 1] = Header(-1)
                    BY <1>6, <1>9, <1>15, <4>1, <5>1
                <5> QED BY <1>8, <5>2 DEF StopsAt, Header
            <4>2. CASE b + 1 # p
                <5>1. b + 1 \in 1 .. Len(disk)
                    BY <1>2, <1>4, <3>2, <4>2
                <5>2. f[b + 1] = disk[b + 1] /\ b < Len(disk)
                    BY <1>9, <4>2, <5>1
                <5> QED BY <1>1, <1>8, <3>1, <5>2 DEF EndsAt, StopsAt
            <4> QED BY <4>1, <4>2
        <3>5. Untouched(b, v)'
            BY <1>1, <3>2 DEF Untouched
        <3>6. EndsAt(b, v)'
            BY <1>8, <1>14, <3>3, <3>4, <3>5 DEF EndsAt
        <3>7. b \in 0 .. Len(f)
            BY <1>10
        <3> QED BY <3>6, <3>7
    <2> QED BY <1>1, <1>8, <1>14, <2>1 DEF VersInv
<1>18. WrittenInv'
    <2>1. \A n \in 2 .. written : disk[header_pos + n] = plan[n]
        BY <1>2 DEF WrittenInv
    <2>2. written >= 1 => disk[header_pos + 1] = Header(-1)
        BY <1>1, <1>2 DEF WrittenInv
    <2>3. header_pos + written + 1 <= Len(f)
        BY <1>4, <1>10
    <2>4. ASSUME NEW n \in 2 .. written + 1 PROVE f[header_pos + n] = plan[n]
        <3>1. CASE n = written + 1
            <4>1. header_pos + n = p /\ n = n0
                BY <1>2, <1>4, <1>5, <3>1
            <4> QED BY <1>6, <1>9, <4>1
        <3>2. CASE n # written + 1
            <4>1. n \in 2 .. written /\ header_pos + n \in 1 .. Len(disk) /\ header_pos + n # p
                BY <1>2, <1>4, <3>2
            <4> QED BY <1>9, <2>1, <4>1
        <3> QED BY <3>1, <3>2
    <2>5. f[header_pos + 1] = Header(-1)
        <3>1. CASE written = 0
            <4>1. header_pos + 1 = p /\ n0 = 1
                BY <1>2, <1>4, <1>5, <3>1
            <4> QED BY <1>6, <1>9, <1>15, <4>1
        <3>2. CASE written # 0
            <4>1. written >= 1 /\ header_pos + 1 \in 1 .. Len(disk) /\ header_pos + 1 # p
                BY <1>2, <1>4, <3>2
            <4> QED BY <1>9, <2>2, <4>1
        <3> QED BY <3>1, <3>2
    <2>6. IF step' = "append" THEN written' < Len(plan') ELSE written' = Len(plan')
        BY <1>1, <1>2, <1>3
    <2>7. header_pos' + written' <= Len(disk')
        BY <1>1, <1>2, <1>8, <2>3
    <2>8. step' # "truncate"
        BY <1>1
    <2> QED BY <1>1, <1>8, <2>4, <2>5, <2>6, <2>7, <2>8 DEF WrittenInv
<1>19. RunInv'
    <2>1. ASSUME AllEnded(Before)
          PROVE  /\ Holds(f, header_pos, Before, ContentOf(Before))
                 /\ plan = ToWrite(At(f, Latest, header_pos), content)
        <3>1. /\ Holds(disk, header_pos, Before, ContentOf(Before))
              /\ plan = ToWrite(At(disk, Latest, header_pos), content)
            BY <1>2, <2>1 DEF RunInv
        <3>2. header_pos \in 0 .. header_pos /\ Before \in Nat
            BY <1>2, <1>13
        <3>3. /\ Holds(f, header_pos, Before, ContentOf(Before))
              /\ At(f, Latest, header_pos) = At(disk, Latest, header_pos)
            BY <1>16, <3>1, <3>2
        <3> QED BY <3>1, <3>3
    <2>2. AllEnded(Before)' <=> AllEnded(Before)
        BY <1>1, <1>13 DEF AllEnded
    <2>3. ContentOf(Before)' = ContentOf(Before)
        BY <1>1, <1>13 DEF ContentOf
    <2>4. AllEnded(Before)' => /\ Holds(disk', header_pos', Before', ContentOf(Before)')
                               /\ plan' = ToWrite(At(disk', Latest, header_pos'), content')
        BY <1>1, <1>8, <1>13, <2>1, <2>2, <2>3
    <2>5. content \in Content /\ DataBlocks(plan) \in 0 .. MaxFragments
        BY <1>2 DEF RunInv
    <2> QED BY <1>1, <1>2, <1>15, <1>18, <2>4, <2>5 DEF RunInv
<1> QED BY <1>11, <1>12, <1>17, <1>19 DEF JournalInv

(* An update whose blocks are all there and have their size counts as one  *)
(* more version.                                                           *)
LEMMA RewriteInv == ASSUME JournalInv, RewriteHeader PROVE JournalInv'
<1> USE JournalAssumption
<1>1. /\ step = "header" /\ step' = "truncate"
      /\ disk' = Put(header_pos + 1, Header(cdatasize))
      /\ committed' = Append(committed, [content |-> content,
                                         ended |-> Len(disk) = header_pos + Len(plan)])
      /\ plan' = plan /\ header_pos' = header_pos /\ content' = content
      /\ written' = written /\ updates' = updates
    BY DEF RewriteHeader
<1>2. /\ disk \in Seq(Block) /\ plan \in Seq(Block)
      /\ committed \in Seq([content : Content, ended : BOOLEAN])
      /\ Len(disk) \in Nat /\ Len(plan) \in Nat \ {0} /\ Len(committed) \in Nat
      /\ header_pos \in Nat /\ written \in Nat /\ updates \in 0 .. MaxUpdates
      /\ header_pos + written <= Len(disk)
      /\ VersInv /\ NumInv /\ RunInv /\ WrittenInv
    BY <1>1, RunFacts
<1>3. written = Len(plan) /\ \A n \in 2 .. written : disk[header_pos + n] = plan[n]
    BY <1>1, <1>2 DEF WrittenInv
<1>4. /\ content \in Content /\ plan[1] = Header(-1) /\ DataBlocks(plan) \in 0 .. MaxFragments
    BY <1>2 DEF RunInv
<1>5. PICK p \in 1 .. Len(disk) + 1 : p = header_pos + 1
    BY <1>2
<1>6. p <= Len(disk)
    BY <1>2, <1>3, <1>5
<1>7. PICK z \in Block : z = Header(DataBlocks(plan))
    <2>1. DataBlocks(plan) \in -1 .. MaxFragments
        BY <1>4
    <2> QED BY <2>1 DEF Block
<1>8. PICK f : f = Put(p, z)
    OBVIOUS
<1>9. disk' = f
    BY <1>1, <1>5, <1>7, <1>8 DEF cdatasize, DataBlocks
<1>10. OneCell(f, p, z)
    BY <1>2, <1>5, <1>7, <1>8, PutFacts
<1>11. /\ f \in Seq(Block) /\ Len(f) = Len(disk) /\ f[p] = z
       /\ \A n \in 1 .. Len(disk) : n # p => f[n] = disk[n]
    BY <1>6, <1>10 DEF OneCell
<1>12. PICK m \in Nat : m = Len(committed)
    BY <1>2
<1>13. PICK e \in [content : Content, ended : BOOLEAN] :
           e = [content |-> content, ended |-> Len(disk) = header_pos + Len(plan)]
    <2>1. PICK g \in BOOLEAN : g = (Len(disk) = header_pos + Len(plan))
        OBVIOUS
    <2>2. [content |-> content, ended |-> g] \in [content : Content, ended : BOOLEAN]
        BY <1>4
    <2> QED BY <2>1, <2>2
<1>14. /\ committed' \in Seq([content : Content, ended : BOOLEAN]) /\ Len(committed') = m + 1
       /\ committed'[m + 1] = e /\ \A n \in 1 .. m : committed'[n] = committed[n]
    <2>1. committed' = Append(committed, e)
        BY <1>1, <1>13
    <2> QED BY <1>2, <1>12, <2>1
<1>15. Before = m /\ Before' = m
    BY <1>1, <1>12, <1>14 DEF Before
<1>16. m + 1 <= updates
    BY <1>1, <1>2, <1>12 DEF NumInv
<1>17. JournalTypeOK'
    <2>1. header_pos' \in 0 .. Len(disk') /\ written' \in 0 .. Len(plan')
        BY <1>1, <1>2, <1>3, <1>9, <1>11
    <2> QED BY <1>1, <1>2, <1>4, <1>9, <1>11, <1>14, <2>1 DEF JournalTypeOK
<1>18. NumInv'
    <2>1. PICK M : M = updates * MaxFragments
        OBVIOUS
    <2>2. Numbered(disk, M) /\ Numbered(plan, M)
        BY <1>2, <2>1 DEF NumInv
    <2>3. z.kind = "h" => z.num <= M
        BY <1>7 DEF Header
    <2>4. Numbered(f, M)
        BY <1>2, <1>5, <1>7, <1>8, <2>2, <2>3, PutNumbered
    <2>5. Len(committed') + 0 <= updates
        BY <1>14, <1>16
    <2> QED BY <1>1, <1>9, <2>1, <2>2, <2>4, <2>5 DEF NumInv
<1>19. \A v \in 0 .. m : (AllEnded(v)' <=> AllEnded(v)) /\ ContentOf(v)' = ContentOf(v)
    <2>1. ASSUME NEW v \in 0 .. m PROVE \A u \in 1 .. v : u \in 1 .. m
        OBVIOUS
    <2>2. ASSUME NEW v \in 0 .. m PROVE AllEnded(v)' <=> AllEnded(v)
        BY <1>14, <2>1 DEF AllEnded
    <2>3. ASSUME NEW v \in 0 .. m PROVE ContentOf(v)' = ContentOf(v)
        <3>1. v = 0 \/ v \in 1 .. m
            OBVIOUS
        <3> QED BY <1>14, <3>1 DEF ContentOf
    <2> QED BY <2>2, <2>3
<1>20. ASSUME NEW b \in 0 .. header_pos, NEW v \in Nat, NEW x, Holds(disk, b, v, x)
       PROVE  Holds(f, b, v, x) /\ At(f, Latest, b) = At(disk, Latest, b)
    <2>1. b \in Nat /\ b <= Len(disk) /\ b <= Len(f)
        BY <1>2, <1>11
    <2>2. \A n \in 1 .. b : f[n] = disk[n]
        <3>1. ASSUME NEW n \in 1 .. b PROVE n \in 1 .. Len(disk) /\ n # p
            BY <1>2, <1>5
        <3> QED BY <1>11, <3>1
    <2> QED BY <1>2, <1>11, <1>20, <2>1, <2>2, KeepsVersion
<1>21. ASSUME AllEnded(m)
       PROVE  /\ Holds(f, header_pos, m, ContentOf(m))
              /\ plan = ToWrite(At(f, Latest, header_pos), content)
    <2>1. /\ Holds(disk, header_pos, m, ContentOf(m))
          /\ plan = ToWrite(At(disk, Latest, header_pos), content)
        BY <1>2, <1>15, <1>21 DEF RunInv
    <2>2. header_pos \in 0 .. header_pos
        BY <1>2
    <2>3. /\ Holds(f, header_pos, m, ContentOf(m))
          /\ At(f, Latest, header_pos) = At(disk, Latest, header_pos)
        BY <1>20, <2>1, <2>2
    <2> QED BY <2>1, <2>3
<1>22. /\ header_pos + Len(plan) <= Len(f) /\ f[header_pos + 1] = Header(DataBlocks(plan))
       /\ \A n \in 2 .. Len(plan) : f[header_pos + n] = plan[n]
    <2>1. ASSUME NEW n \in 2 .. Len(plan)
          PROVE  header_pos + n \in 1 .. Len(disk) /\ header_pos + n # p
        BY <1>2, <1>3, <1>5
    <2>2. header_pos + Len(plan) <= Len(f)
        BY <1>2, <1>3, <1>11
    <2>3. ASSUME NEW n \in 2 .. Len(plan) PROVE f[header_pos + n] = plan[n]
        BY <1>3, <1>11, <2>1
    <2> QED BY <1>5, <1>7, <1>11, <2>2, <2>3
<1>23. WrittenInv'
    BY <1>1, <1>3, <1>9, <1>22 DEF WrittenInv
<1>24. RunInv'
    <2>1. m \in 0 .. m
        OBVIOUS
    <2>2. AllEnded(Before)' <=> AllEnded(m)
        BY <1>15, <1>19, <2>1 DEF AllEnded
    <2>3. ContentOf(Before)' = ContentOf(m)
        BY <1>15, <1>19, <2>1 DEF ContentOf
    <2>4. AllEnded(Before)' => /\ Holds(disk', header_pos', Before', ContentOf(Before)')
                               /\ plan' = ToWrite(At(disk', Latest, header_pos'), content')
        BY <1>1, <1>9, <1>15, <1>21, <2>2, <2>3
    <2>5. Len(committed') \in Nat \ {0} /\ committed'[Len(committed')].content = content
        BY <1>13, <1>14
    <2> QED BY <1>1, <1>2, <1>4, <1>23, <2>4, <2>5 DEF RunInv
<1>25. VersInv'
    <2>1. ASSUME NEW v \in 0 .. m, AllEnded(v)'
          PROVE  \E b \in 0 .. Len(f) : EndsAt(b, v)'
        <3>1. PICK b \in 0 .. Len(disk) : EndsAt(b, v)
            BY <1>2, <1>12, <1>19, <2>1 DEF VersInv
        <3>2. b \in 0 .. header_pos /\ v \in Nat
            BY <1>1, <1>2, <1>15, <3>1 DEF EndsAt, Untouched
        <3>3. Holds(f, b, v, ContentOf(v))
            BY <1>20, <3>1, <3>2 DEF EndsAt
        <3>4. StopsAt(b, v)'
            <4>1. v # Len(committed')
                BY <1>14
            <4>2. CASE b + 1 = p
                <5>1. f[b + 1].kind = "c"
                    BY <1>7, <1>11, <4>2 DEF Header
                <5> QED BY <1>9, <4>1, <5>1 DEF StopsAt
            <4>3. CASE b + 1 # p
                <5>1. b + 1 \in 1 .. Len(disk)
                    BY <1>2, <1>5, <3>2, <1>6, <4>3
                <5>2. f[b + 1] = disk[b + 1] /\ b < Len(disk)
                    BY <1>11, <4>3, <5>1
                <5> QED BY <1>9, <3>1, <4>1, <5>2 DEF EndsAt, StopsAt
            <4> QED BY <4>2, <4>3
        <3>5. Untouched(b, v)'
            BY <1>1, <3>2 DEF Untouched
        <3>6. EndsAt(b, v)'
            BY <1>9, <1>19, <3>3, <3>4, <3>5 DEF EndsAt
        <3>7. b \in 0 .. Len(f)
            BY <1>11
        <3> QED BY <3>6, <3>7
    <2>2. ASSUME NEW v \in Nat, v = m + 1, AllEnded(v)'
          PROVE  \E b \in 0 .. Len(f) : EndsAt(b, v)'
        <3>1. e.ended /\ AllEnded(m)
            <4>1. v \in 1 .. v /\ \A u \in 1 .. m : u \in 1 .. v
                BY <2>2
            <4>2. \A u \in 1 .. v : committed'[u].ended
                BY <2>2 DEF AllEnded
            <4> QED BY <1>14, <2>2, <4>1, <4>2 DEF AllEnded
        <3>2. Len(disk) = header_pos + Len(plan)
            BY <1>13, <3>1
        <3>3. PICK c \in 0 .. Len(f) : c = Len(f)
            BY <1>2, <1>11
        <3>4. InFile(f, header_pos, plan)
            BY <1>22 DEF InFile
        <3>5. c = header_pos + Len(plan) /\ Len(f) \in Nat
            BY <1>2, <1>11, <3>2, <3>3
        <3>6. m < Latest
            BY <1>2, <1>16 DEF Latest
        <3>7. /\ Holds(f, header_pos, m, ContentOf(m))
              /\ plan = ToWrite(At(f, Latest, header_pos), content)
            BY <1>21, <3>1
        <3>8. Holds(f, c, v, content)
            BY <1>2, <1>4, <2>2, <3>4, <3>5, <3>6, <3>7, UpdateHolds
        <3>9. ContentOf(v)' = content
            BY <1>13, <1>14, <2>2 DEF ContentOf
        <3>10. StopsAt(c, v)'
            BY <1>9, <3>3 DEF StopsAt
        <3>11. Untouched(c, v)'
            BY <1>15, <2>2 DEF Untouched
        <3>12. EndsAt(c, v)'
            BY <1>9, <3>8, <3>9, <3>10, <3>11 DEF EndsAt
        <3> QED BY <3>12
    <2>3. \A v \in 0 .. m + 1 : v \in 0 .. m \/ (v \in Nat /\ v = m + 1)
        OBVIOUS
    <2> QED BY <1>9, <1>14, <2>1, <2>2, <2>3 DEF VersInv
<1> QED BY <1>17, <1>18, <1>24, <1>25 DEF JournalInv

(* What is cut off is no part of a version: the update that is taken back  *)
(* leaves the archive as it found it, and any other one ends the archive.  *)
LEMMA TruncateInv == ASSUME JournalInv, Truncate PROVE JournalInv'
<1> USE JournalAssumption
<1>1. /\ step = "truncate" /\ step' = "idle" /\ plan' = << >> /\ header_pos' = 0
      /\ written' = 0 /\ content' = << >> /\ updates' = updates
      /\ Len(plan) = 1 => disk' = SubSeq(disk, 1, header_pos) /\ committed' = Front(committed)
      /\ Len(plan) # 1 => /\ disk' = SubSeq(disk, 1, header_pos + Len(plan))
                          /\ committed' = [committed EXCEPT ![Len(committed)].ended = TRUE]
    BY DEF Truncate, Idle
<1>2. /\ disk \in Seq(Block) /\ plan \in Seq(Block)
      /\ committed \in Seq([content : Content, ended : BOOLEAN])
      /\ Len(disk) \in Nat /\ Len(plan) \in Nat \ {0} /\ Len(committed) \in Nat
      /\ header_pos \in Nat /\ written \in Nat /\ updates \in 0 .. MaxUpdates
      /\ header_pos + written <= Len(disk)
      /\ VersInv /\ NumInv /\ RunInv /\ WrittenInv
    BY <1>1, RunFacts
<1>3. /\ written = Len(plan) /\ \A n \in 2 .. written : disk[header_pos + n] = plan[n]
      /\ written >= 1 => disk[header_pos + 1] = Header(DataBlocks(plan))
    BY <1>1, <1>2 DEF WrittenInv
<1>4. content \in Content /\ Len(committed) \in Nat \ {0} /\ committed[Len(committed)].content = content
    BY <1>1, <1>2 DEF RunInv
<1>5. PICK m \in Nat : Len(committed) = m + 1
    <2>1. Len(committed) - 1 \in Nat
        BY <1>4
    <2> QED BY <2>1
<1>6. Before = m
    BY <1>1, <1>5 DEF Before
<1>7. m + 1 <= updates
    BY <1>1, <1>2, <1>5 DEF NumInv
<1>8. PICK c \in 0 .. Len(disk) : c = IF Len(plan) = 1 THEN header_pos ELSE header_pos + Len(plan)
    BY <1>2, <1>3
<1>9. header_pos <= c
    BY <1>2, <1>8
<1>10. PICK f : f = SubSeq(disk, 1, c)
    OBVIOUS
<1>11. disk' = f
    BY <1>1, <1>8, <1>10
<1>12. f \in Seq(Block) /\ Len(f) = c /\ (\A n \in 1 .. c : f[n] = disk[n])
    BY <1>2, <1>10, FirstPart
<1>13. /\ committed' \in Seq([content : Content, ended : BOOLEAN])
       /\ Len(committed') = IF Len(plan) = 1 THEN m ELSE m + 1
       /\ \A n \in 1 .. m : committed'[n] = committed[n]
       /\ Len(plan) # 1 => committed'[m + 1].content = content
    <2>1. CASE Len(plan) = 1
        <3>1. committed' = SubSeq(committed, 1, m)
            BY <1>1, <1>2, <1>5, <2>1 DEF Front
        <3>2. m \in 0 .. Len(committed)
            BY <1>5
        <3>3. PICK s : s = committed
            OBVIOUS
        <3>4. s \in Seq([content : Content, ended : BOOLEAN]) /\ m \in 0 .. Len(s)
            BY <1>2, <3>2, <3>3
        <3>5. PICK g : g = SubSeq(s, 1, m)
            OBVIOUS
        <3>6. PICK S : S = [content : Content, ended : BOOLEAN]
            OBVIOUS
        <3>7. s \in Seq(S)
            BY <3>4, <3>6
        <3>8. g \in Seq(S) /\ Len(g) = m /\ (\A n \in 1 .. m : g[n] = s[n])
            BY <3>4, <3>5, <3>7, FirstPart
        <3>9. g \in Seq([content : Content, ended : BOOLEAN])
            BY <3>6, <3>8
        <3>10. g = committed'
            BY <3>1, <3>3, <3>5
        <3> QED BY <2>1, <3>3, <3>8, <3>9, <3>10
    <2>2. CASE Len(plan) # 1
        <3>1. committed' = [committed EXCEPT ![m + 1].ended = TRUE]
            BY <1>1, <1>5, <2>2
        <3>2. m + 1 \in 1 .. Len(committed)
            BY <1>5
        <3>3. PICK e \in [content : Content, ended : BOOLEAN] : e = committed[m + 1]
            BY <1>2, <3>2, ElementOfSeq
        <3>4. PICK g \in [content : Content, ended : BOOLEAN] : g = [e EXCEPT !.ended = TRUE]
            BY <3>3
        <3>5. committed' = [committed EXCEPT ![m + 1] = g]
            BY <3>1, <3>3, <3>4
        <3>6. g.content = content
            BY <1>4, <1>5, <3>3, <3>4
        <3> QED BY <1>2, <1>5, <2>2, <3>2, <3>5, <3>6
    <2> QED BY <2>1, <2>2
<1>14. JournalTypeOK'
    <2>1. plan' \in Seq(Block) /\ header_pos' \in 0 .. Len(disk') /\ written' \in 0 .. Len(plan')
        BY <1>1, <1>8, <1>11, <1>12
    <2> QED BY <1>1, <1>2, <1>11, <1>12, <1>13, <2>1 DEF JournalTypeOK
<1>15. NumInv'
    <2>1. PICK M : M = updates * MaxFragments
        OBVIOUS
    <2>2. Numbered(disk, M)
        BY <1>2, <2>1 DEF NumInv
    <2>3. Numbered(f, M)
        <3>1. \A n \in 1 .. Len(f) : n \in 1 .. Len(disk) /\ f[n] = disk[n]
            BY <1>2, <1>8, <1>12
        <3> QED BY <2>2, <3>1 DEF Numbered
    <2>4. Numbered(plan', M)
        BY <1>1 DEF Numbered
    <2>5. Len(committed') + 0 <= updates
        <3>1. Len(committed') = m \/ Len(committed') = m + 1
            BY <1>13
        <3> QED BY <1>2, <1>7, <3>1
    <2> QED BY <1>1, <1>11, <2>1, <2>3, <2>4, <2>5 DEF NumInv
<1>16. \A v \in 0 .. m : (AllEnded(v)' <=> AllEnded(v)) /\ ContentOf(v)' = ContentOf(v)
    <2>1. ASSUME NEW v \in 0 .. m PROVE \A u \in 1 .. v : u \in 1 .. m
        OBVIOUS
    <2>2. ASSUME NEW v \in 0 .. m PROVE AllEnded(v)' <=> AllEnded(v)
        BY <1>13, <2>1 DEF AllEnded
    <2>3. ASSUME NEW v \in 0 .. m PROVE ContentOf(v)' = ContentOf(v)
        <3>1. v = 0 \/ v \in 1 .. m
            OBVIOUS
        <3> QED BY <1>13, <3>1 DEF ContentOf
    <2> QED BY <2>2, <2>3
<1>17. ASSUME NEW b \in 0 .. header_pos, NEW v \in Nat, NEW x, Holds(disk, b, v, x)
       PROVE  Holds(f, b, v, x) /\ At(f, Latest, b) = At(disk, Latest, b)
    <2>1. b \in Nat /\ b <= Len(disk) /\ b <= Len(f)
        BY <1>2, <1>8, <1>9, <1>12
    <2>2. \A n \in 1 .. b : f[n] = disk[n]
        <3>1. ASSUME NEW n \in 1 .. b PROVE n \in 1 .. c
            BY <1>2, <1>8, <1>9
        <3> QED BY <1>12, <3>1
    <2> QED BY <1>2, <1>12, <1>17, <2>1, <2>2, KeepsVersion
<1>18. \A b, v : Untouched(b, v)'
    BY <1>1 DEF Untouched
<1>19. ASSUME AllEnded(m)
       PROVE  /\ Holds(f, header_pos, m, ContentOf(m))
              /\ plan = ToWrite(At(f, Latest, header_pos), content)
    <2>1. /\ Holds(disk, header_pos, m, ContentOf(m))
          /\ plan = ToWrite(At(disk, Latest, header_pos), content)
        BY <1>2, <1>6, <1>19 DEF RunInv
    <2>2. header_pos \in 0 .. header_pos
        BY <1>2
    <2>3. /\ Holds(f, header_pos, m, ContentOf(m))
          /\ At(f, Latest, header_pos) = At(disk, Latest, header_pos)
        BY <1>17, <2>1, <2>2
    <2> QED BY <2>1, <2>3
<1>20. ASSUME NEW v \in 0 .. m, AllEnded(v)', v = m => Len(plan) # 1
       PROVE  \E b \in 0 .. Len(f) : EndsAt(b, v)'
    <2>1. PICK b \in 0 .. Len(disk) : EndsAt(b, v)
        <3>1. v \in 0 .. Len(committed)
            BY <1>5
        <3> QED BY <1>2, <1>16, <1>20, <3>1 DEF VersInv
    <2>2. b \in 0 .. header_pos /\ v \in Nat
        BY <1>1, <1>2, <1>6, <2>1 DEF EndsAt, Untouched
    <2>3. Holds(f, b, v, ContentOf(v))
        BY <1>17, <2>1, <2>2 DEF EndsAt
    <2>4. b \in 0 .. Len(f)
        BY <1>2, <1>8, <1>9, <1>12, <2>2
    <2>5. StopsAt(b, v)'
        <3>1. v # Len(committed')
            BY <1>13, <1>20
        <3>2. ASSUME b < Len(f) PROVE f[b + 1] = disk[b + 1] /\ b < Len(disk)
            <4>1. b + 1 \in 1 .. c
                BY <1>8, <1>12, <2>4, <3>2
            <4> QED BY <1>8, <1>12, <2>4, <4>1
        <3> QED BY <1>11, <2>1, <3>1, <3>2 DEF EndsAt, StopsAt
    <2>6. EndsAt(b, v)'
        BY <1>11, <1>16, <1>18, <2>3, <2>5 DEF EndsAt
    <2> QED BY <2>4, <2>6
<1>21. \A v : StopsAt(c, v)'
    BY <1>8, <1>11, <1>12 DEF StopsAt
<1>22. ASSUME Len(plan) = 1, AllEnded(m)' PROVE EndsAt(c, m)'
    <2>1. m \in 0 .. m /\ c = header_pos
        BY <1>8, <1>22
    <2>2. AllEnded(m) /\ ContentOf(m)' = ContentOf(m)
        BY <1>16, <1>22, <2>1
    <2>3. Holds(f, c, m, ContentOf(m))
        BY <1>19, <2>1, <2>2
    <2> QED BY <1>11, <1>18, <1>21, <2>2, <2>3 DEF EndsAt
<1>23. ASSUME NEW v \in Nat, v = m + 1, Len(plan) # 1, AllEnded(v)' PROVE EndsAt(c, v)'
    <2>1. AllEnded(m)
        <3>1. \A u \in 1 .. m : u \in 1 .. v
            BY <1>23
        <3>2. \A u \in 1 .. v : committed'[u].ended
            BY <1>23 DEF AllEnded
        <3> QED BY <1>13, <3>1, <3>2 DEF AllEnded
    <2>2. c = header_pos + Len(plan) /\ Len(f) \in Nat /\ c \in 0 .. Len(f)
        BY <1>2, <1>8, <1>12, <1>23
    <2>3. InFile(f, header_pos, plan)
        <3>1. header_pos + 1 \in 1 .. c /\ \A n \in 2 .. Len(plan) : header_pos + n \in 1 .. c
            BY <1>2, <2>2
        <3>2. header_pos + Len(plan) <= Len(f)
            BY <1>12, <2>2
        <3>3. f[header_pos + 1] = Header(DataBlocks(plan))
            BY <1>2, <1>3, <1>12, <3>1
        <3>4. ASSUME NEW n \in 2 .. Len(plan) PROVE f[header_pos + n] = plan[n]
            BY <1>3, <1>12, <3>1
        <3> QED BY <3>2, <3>3, <3>4 DEF InFile
    <2>4. m < Latest
        BY <1>2, <1>7 DEF Latest
    <2>5. /\ Holds(f, header_pos, m, ContentOf(m))
          /\ plan = ToWrite(At(f, Latest, header_pos), content)
        BY <1>19, <2>1
    <2>6. Holds(f, c, v, content)
        BY <1>2, <1>4, <1>23, <2>2, <2>3, <2>4, <2>5, UpdateHolds
    <2>7. ContentOf(v)' = content
        BY <1>13, <1>23 DEF ContentOf
    <2> QED BY <1>11, <1>18, <1>21, <2>6, <2>7 DEF EndsAt
<1>24. VersInv'
    <2>1. ASSUME NEW v \in 0 .. Len(committed'), AllEnded(v)'
          PROVE  \E b \in 0 .. Len(f) : EndsAt(b, v)'
        <3>1. c \in 0 .. Len(f)
            BY <1>8, <1>12
        <3>2. CASE v = m /\ Len(plan) = 1
            BY <1>22, <2>1, <3>1, <3>2
        <3>3. CASE v = m + 1 /\ Len(plan) # 1
            <4>1. v \in Nat
                BY <3>3
            <4> QED BY <1>23, <2>1, <3>1, <3>3, <4>1
        <3>4. CASE v \in 0 .. m /\ (v = m => Len(plan) # 1)
            BY <1>20, <2>1, <3>4
        <3>5. \/ v = m /\ Len(plan) = 1
              \/ v = m + 1 /\ Len(plan) # 1
              \/ v \in 0 .. m /\ (v = m => Len(plan) # 1)
            BY <1>2, <1>13, <2>1
        <3> QED BY <3>2, <3>3, <3>4, <3>5
    <2> QED BY <1>11, <2>1 DEF VersInv
<1> QED BY <1>1, <1>14, <1>15, <1>24 DEF JournalInv

(* An update that dies leaves its blocks, which no version needs. *)
LEMMA CrashInv == ASSUME JournalInv, Crash PROVE JournalInv'
<1> USE JournalAssumption
<1>1. /\ step # "idle" /\ step' = "idle" /\ plan' = << >> /\ header_pos' = 0
      /\ written' = 0 /\ content' = << >>
      /\ disk' = disk /\ committed' = committed /\ updates' = updates
    BY DEF Crash, Idle
<1>2. JournalTypeOK /\ VersInv /\ NumInv
    BY DEF JournalInv
<1>3. JournalTypeOK'
    <2>1. plan' \in Seq(Block) /\ header_pos' \in 0 .. Len(disk') /\ written' \in 0 .. Len(plan')
        BY <1>1, <1>2 DEF JournalTypeOK
    <2> QED BY <1>1, <1>2, <2>1 DEF JournalTypeOK
<1>4. NumInv'
    <2>1. Len(committed) \in Nat /\ updates \in Nat
        BY <1>2 DEF JournalTypeOK
    <2>2. Len(committed) + 0 <= updates
        BY <1>2, <2>1 DEF NumInv
    <2>3. PICK M : M = updates * MaxFragments
        OBVIOUS
    <2>4. Numbered(disk, M) /\ Numbered(plan', M)
        BY <1>1, <1>2, <2>3 DEF NumInv, Numbered
    <2> QED BY <1>1, <2>2, <2>3, <2>4 DEF NumInv
<1>5. VersInv'
    BY <1>1, <1>2 DEF VersInv, AllEnded, EndsAt, StopsAt, Untouched, ContentOf
<1> QED BY <1>1, <1>3, <1>4, <1>5 DEF JournalInv

(* Every step of zpaq or its end keeps the invariant. *)
LEMMA JournalNextInv == ASSUME JournalInv, [JournalNext]_journal PROVE JournalInv'
<1>1. ASSUME UNCHANGED journal PROVE JournalInv'
    BY <1>1 DEF journal, update, JournalInv, JournalTypeOK, VersInv, NumInv, RunInv, WrittenInv,
                EndsAt, StopsAt, Untouched, ContentOf, AllEnded, Before
<1>2. ASSUME NEW x \in Content, Add(x) PROVE JournalInv'
    BY <1>2, AddInv
<1> QED BY <1>1, <1>2, AppendInv, RewriteInv, TruncateInv, CrashInv DEF JournalNext

(* The inductive invariant of the journaling archive: every version that   *)
(* was finished, as were those before it, can be read from its own cells,  *)
(* whatever an update does behind them.                                    *)
THEOREM JournalInvariant == JournalSpec => []JournalInv
<1>1. JournalInit => JournalInv
    BY InitJournal
<1>2. JournalInv /\ [JournalNext]_journal => JournalInv'
    BY JournalNextInv
<1> QED BY <1>1, <1>2, PTL DEF JournalSpec

(* The archive consists of blocks with numbers and sizes in their bounds. *)
THEOREM JournalTypes == JournalSpec => []JournalTypeOK
<1>1. JournalInv => JournalTypeOK
    BY DEF JournalInv
<1> QED BY <1>1, JournalInvariant, PTL

(* Updates are transacted: as long as every version ended the archive, the *)
(* archive reads without an error as the last one, wherever add() is and   *)
(* wherever it has died.                                                   *)
THEOREM JournalAllOrNothing == JournalSpec => []AllOrNothing
<1>1. ASSUME JournalInv PROVE AllOrNothing
    <2> USE JournalAssumption
    <2>1. SUFFICES ASSUME \A v \in DOMAIN committed : committed[v].ended PROVE ReadsAsCommitted
        BY DEF AllOrNothing
    <2>2. /\ disk \in Seq(Block) /\ committed \in Seq([content : Content, ended : BOOLEAN])
          /\ VersInv /\ NumInv /\ updates \in 0 .. MaxUpdates
        BY <1>1 DEF JournalInv, JournalTypeOK
    <2>3. PICK v \in Nat : v = Len(committed)
        BY <2>2
    <2>4. AllEnded(v) /\ v \in 0 .. Len(committed)
        BY <2>1, <2>2, <2>3 DEF AllEnded
    <2>5. PICK b \in 0 .. Len(disk) : EndsAt(b, v)
        BY <2>2, <2>4 DEF VersInv
    <2>6. Holds(disk, b, v, ContentOf(v)) /\ (b < Len(disk) => disk[b + 1].kind = "c" /\ disk[b + 1].jmp < 0)
        BY <2>3, <2>5 DEF EndsAt, StopsAt
    <2>7. Latest \in v .. Latest
        BY <2>2, <2>3 DEF Latest, NumInv
    <2>8. PICK r : r = read_archive(Latest)
        OBVIOUS
    <2>9. r.errors = 0 /\ Extractable(r) /\ Extracted(r) = ContentOf(v)
        BY <2>2, <2>6, <2>7, <2>8, ReadsAsHeld
    <2>10. ContentOf(v) = IF committed = << >> THEN << >> ELSE Last(committed).content
        <3>1. v = 0 <=> committed = << >>
            BY <2>2, <2>3
        <3> QED BY <2>3, <3>1 DEF ContentOf, Last
    <2> QED BY <2>8, <2>9, <2>10 DEF ReadsAsCommitted
<1>2. JournalInv => AllOrNothing
    BY <1>1
<1> QED BY <1>2, JournalInvariant, PTL

(* A version that ended the archive, as did those before it, is extracted  *)
(* with -until as it was added, whatever later updates do and wherever     *)
(* they die.                                                               *)
THEOREM JournalFinishedStays == JournalSpec => []FinishedStays
<1>1. ASSUME JournalInv PROVE FinishedStays
    <2> USE JournalAssumption
    <2>1. SUFFICES ASSUME NEW v \in 1 .. Len(committed), \A u \in 1 .. v : committed[u].ended
                   PROVE  Extractable(read_archive(v)) /\ Extracted(read_archive(v)) = committed[v].content
        BY DEF FinishedStays
    <2>2. /\ disk \in Seq(Block) /\ committed \in Seq([content : Content, ended : BOOLEAN])
          /\ VersInv /\ NumInv /\ updates \in 0 .. MaxUpdates
        BY <1>1 DEF JournalInv, JournalTypeOK
    <2>3. AllEnded(v) /\ v \in 0 .. Len(committed) /\ v \in Nat
        BY <2>1, <2>2 DEF AllEnded
    <2>4. PICK b \in 0 .. Len(disk) : EndsAt(b, v)
        BY <2>2, <2>3 DEF VersInv
    <2>5. Holds(disk, b, v, ContentOf(v)) /\ (b < Len(disk) => disk[b + 1].kind = "c")
        BY <2>4 DEF EndsAt, StopsAt
    <2>6. v <= updates
        <3>1. Len(committed) \in Nat
            BY <2>2
        <3> QED BY <2>1, <2>2, <3>1 DEF NumInv
    <2>7. v \in v .. Latest
        BY <2>2, <2>6 DEF Latest
    <2>8. PICK r : r = read_archive(v)
        OBVIOUS
    <2>9. Extractable(r) /\ Extracted(r) = ContentOf(v)
        BY <2>2, <2>3, <2>5, <2>7, <2>8, ReadsAsHeld
    <2>10. ContentOf(v) = committed[v].content
        BY <2>1 DEF ContentOf
    <2> QED BY <2>8, <2>9, <2>10
<1>2. JournalInv => FinishedStays
    BY <1>1
<1> QED BY <1>2, JournalInvariant, PTL

=============================================================================
