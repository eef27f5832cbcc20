----------------------------- MODULE TaskQueue ------------------------------
(***************************************************************************)
(* One TaskQueue of quickpool.h: the ring buffer and its growth, push      *)
(* under the mutex, the lock-free try_pop, wait and stop on the condition  *)
(* variable, and the destructor.  TaskPool uses the queue through the      *)
(* indices alone; this module has what lies behind them.                   *)
(*                                                                         *)
(* A task is named by the index at which it is pushed.  A step is one      *)
(* access to what threads share; what a thread does while it holds the     *)
(* mutex and no popper can see is part of the step before.  Stores become  *)
(* visible in the order of the program, as on the x86-64 machines that     *)
(* units.lua builds for (buffer_ is stored relaxed, quickpool.h:481).      *)
(***************************************************************************)
EXTENDS Integers, Sequences

CONSTANTS
    Pusher,     \* the threads that push
    Popper,     \* the threads that pop
    Owner,      \* the one that waits for this queue
    Capacity,   \* the capacity of the first ring buffer
    MaxTasks    \* bound: how many tasks are pushed

ASSUME QueueAssumption ==
    /\ Capacity \in Nat \ {0}
    /\ MaxTasks \in Nat
    /\ Owner \in Popper
    /\ Pusher \cap Popper = {}
    /\ "none" \notin Pusher \cup Popper

VARIABLES
    top, bottom,    \* top_ and bottom_
    buffers,        \* old_buffers_ and the current one: what is in each slot
    mutex,          \* the thread that holds mutex_, or "none"
    stopped,        \* stopped_
    live,           \* the Task objects that push() has allocated
    ppc, pt,        \* ppc[p], pt[p]: step and t of a push
    pc, t, buf, ptr,  \* step, t, buffer and task_ptr of a try_pop or wait
    spc,            \* step of the thread that stops the queue and destroys it
    taken           \* history: what was popped

push == <<ppc, pt>>
pop  == <<pc, t, buf, ptr>>
vars == <<top, bottom, buffers, mutex, stopped, live, push, pop, spc, taken>>

Garbage == -1       \* what new T[capacity] leaves in a slot
Index == Nat
buffer == Len(buffers)  \* buffer_ points to the latest
capacity(g) == buffers[g].capacity

TypeOK ==
    /\ top \in Nat /\ bottom \in 0 .. MaxTasks
    /\ \A g \in 1 .. Len(buffers) :
          /\ capacity(g) \in Nat \ {0}
          /\ buffers[g].slot \in [0 .. capacity(g) - 1 -> Index \cup {Garbage}]
    /\ mutex \in Pusher \cup {Owner, "none"}
    /\ stopped \in BOOLEAN
    /\ live \subseteq Index
    /\ ppc \in [Pusher -> {"idle", "grow", "set", "publish", "notify"}]
    /\ pt \in [Pusher -> Index]
    /\ pc \in [Popper -> {"idle", "bottom", "buffer", "entry", "cas", "won",
                          "ready", "predicate", "block", "waiting", "woken", "left"}]
    /\ t \in [Popper -> Index]
    /\ buf \in [Popper -> 1 .. Len(buffers)]
    /\ ptr \in [Popper -> Index \cup {Garbage}]
    /\ spc \in {"stop", "notify", "join", "destroyed"}
    /\ taken \in Seq(Index \cup {Garbage})

Init ==
    /\ top = 0 /\ bottom = 0
    /\ buffers = <<[capacity |-> Capacity,
                    slot |-> [s \in 0 .. Capacity - 1 |-> Garbage]]>>
    /\ mutex = "none"
    /\ stopped = FALSE
    /\ live = {}
    /\ ppc = [p \in Pusher |-> "idle"] /\ pt = [p \in Pusher |-> 0]
    /\ pc = [w \in Popper |-> "idle"] /\ t = [w \in Popper |-> 0]
    /\ buf = [w \in Popper |-> 1] /\ ptr = [w \in Popper |-> Garbage]
    /\ spc = "stop"
    /\ taken = << >>

-----------------------------------------------------------------------------
(* RingBuffer.  i & mask_ is i % capacity_, a power of two. *)
set_entry(b, i, val) == [b EXCEPT !.slot[i % b.capacity] = val]
get_entry(g, i) == buffers[g].slot[i % capacity(g)]

(* A mistake for the check of TypeOK: no more slots than before. *)
enlarged_not(b, bot, from) ==
    [capacity |-> 2 * b.capacity, slot |-> b.slot]

(* Twice the capacity; the tasks from .. bot-1 are put at their new slots. *)
enlarged_copy(b, bot, from) ==
    [capacity |-> 2 * b.capacity,
     slot |-> [s \in 0 .. 2 * b.capacity - 1 |->
                 IF \E i \in from .. bot - 1 : i % (2 * b.capacity) = s
                 THEN b.slot[s % b.capacity] ELSE Garbage]]

-----------------------------------------------------------------------------
PGoto(p, step) == ppc' = [ppc EXCEPT ![p] = step]

(* push: takes the mutex and reads top_, which may go on to change.        *)
PushLock(p) ==
    /\ ppc[p] = "idle" /\ mutex = "none" /\ spc # "destroyed"
    /\ bottom < MaxTasks
    /\ mutex' = p
    /\ pt' = [pt EXCEPT ![p] = top]
    /\ PGoto(p, "grow")
    /\ UNCHANGED <<top, bottom, buffers, stopped, live, pop, spc, taken>>

(* A mistake for the check of NotOverfull: the buffer grows one task late. *)
PushGrowLate(p) ==
    /\ ppc[p] = "grow"
    /\ buffers' = IF capacity(buffer) < bottom - pt[p]
                  THEN Append(buffers, enlarged_copy(buffers[buffer], bottom, pt[p]))
                  ELSE buffers
    /\ PGoto(p, "set")
    /\ UNCHANGED <<top, bottom, mutex, stopped, live, pt, pop, spc, taken>>

(* A full buffer is replaced; the old one is kept for those who read it.   *)
PushGrow(p) ==
    /\ ppc[p] = "grow"
    /\ buffers' = IF capacity(buffer) < bottom - pt[p] + 1
                  THEN Append(buffers, enlarged_copy(buffers[buffer], bottom, pt[p]))
                  ELSE buffers
    /\ PGoto(p, "set")
    /\ UNCHANGED <<top, bottom, mutex, stopped, live, pt, pop, spc, taken>>

PushSet(p) ==
    /\ ppc[p] = "set"
    /\ buffers' = [buffers EXCEPT ![buffer] = set_entry(@, bottom, bottom)]
    /\ live' = live \cup {bottom}
    /\ PGoto(p, "publish")
    /\ UNCHANGED <<top, bottom, mutex, stopped, pt, pop, spc, taken>>

(* bottom_ is stored and the mutex released. *)
PushPublish(p) ==
    /\ ppc[p] = "publish"
    /\ bottom' = bottom + 1
    /\ mutex' = "none"
    /\ PGoto(p, "notify")
    /\ UNCHANGED <<top, buffers, stopped, live, pt, pop, spc, taken>>

(* cv_.notify_one(): only the owner waits. *)
notify_one ==
    pc' = [pc EXCEPT ![Owner] = IF @ = "waiting" THEN "woken" ELSE @]

(* A mistake for the check of EveryTaskTaken: nobody is notified. *)
PushQuietly(p) ==
    /\ ppc[p] = "notify"
    /\ PGoto(p, "idle")
    /\ UNCHANGED <<top, bottom, buffers, mutex, stopped, live, pt, pop, spc, taken>>

PushNotify(p) ==
    /\ ppc[p] = "notify"
    /\ notify_one
    /\ PGoto(p, "idle")
    /\ UNCHANGED <<top, bottom, buffers, mutex, stopped, live, pt, t, buf, ptr,
                   spc, taken>>

-----------------------------------------------------------------------------
Goto(w, step) == pc' = [pc EXCEPT ![w] = step]

shared == <<top, bottom, buffers, mutex, stopped, live, push, spc, taken>>

(* try_pop, which the owner calls when wait has returned and the others at *)
(* any time, reads top_ ... *)
PopTop(w) ==
    /\ pc[w] \in {"idle", "ready"} /\ spc # "destroyed"
    /\ t' = [t EXCEPT ![w] = top]
    /\ Goto(w, "bottom")
    /\ UNCHANGED <<shared, buf, ptr>>

(* ... then bottom_, ... *)
PopBottom(w) ==
    /\ pc[w] = "bottom"
    /\ Goto(w, IF t[w] < bottom THEN "buffer" ELSE "idle")
    /\ UNCHANGED <<shared, t, buf, ptr>>

(* ... buffer_ ... *)
PopBuffer(w) ==
    /\ pc[w] = "buffer"
    /\ buf' = [buf EXCEPT ![w] = buffer]
    /\ Goto(w, "entry")
    /\ UNCHANGED <<shared, t, ptr>>

(* ... and the slot, which push may be writing to. *)
PopEntry(w) ==
    /\ pc[w] = "entry"
    /\ ptr' = [ptr EXCEPT ![w] = get_entry(buf[w], t[w])]
    /\ Goto(w, "cas")
    /\ UNCHANGED <<shared, t, buf>>

(* A mistake for the checks of TakesItsTask and ImplementsFifo: top_ is    *)
(* advanced without a comparison.                                          *)
PopStore(w) ==
    /\ pc[w] = "cas"
    /\ top' = t[w] + 1
    /\ taken' = Append(taken, ptr[w])
    /\ Goto(w, "won")
    /\ UNCHANGED <<bottom, buffers, mutex, stopped, live, push, t, buf, ptr, spc>>

(* The task is taken if nobody else has advanced top_. *)
PopCas(w) ==
    /\ pc[w] = "cas"
    /\ IF top = t[w]
       THEN /\ top' = top + 1
            /\ taken' = Append(taken, ptr[w])
            /\ Goto(w, "won")
       ELSE Goto(w, "idle") /\ UNCHANGED <<top, taken>>
    /\ UNCHANGED <<bottom, buffers, mutex, stopped, live, push, t, buf, ptr, spc>>

(* The task is moved out and freed. *)
PopTake(w) ==
    /\ pc[w] = "won"
    /\ live' = live \ {ptr[w]}
    /\ Goto(w, "idle")
    /\ UNCHANGED <<top, bottom, buffers, mutex, stopped, push, t, buf, ptr, spc,
                   taken>>

-----------------------------------------------------------------------------
(* wait: takes the mutex, also after it was woken, ... *)
WaitLock ==
    /\ pc[Owner] \in {"idle", "woken"} /\ mutex = "none" /\ spc # "destroyed"
    /\ mutex' = Owner
    /\ Goto(Owner, "predicate")
    /\ UNCHANGED <<top, bottom, buffers, stopped, live, push, t, buf, ptr, spc,
                   taken>>

empty == bottom <= top

(* ... returns if there is a task or the queue is stopped ... *)
WaitCheck ==
    /\ pc[Owner] = "predicate"
    /\ IF ~empty \/ stopped
       THEN Goto(Owner, "ready") /\ mutex' = "none"
       ELSE Goto(Owner, "block") /\ UNCHANGED mutex
    /\ UNCHANGED <<top, bottom, buffers, stopped, live, push, t, buf, ptr, spc,
                   taken>>

(* ... and blocks otherwise, which releases the mutex. *)
WaitBlock ==
    /\ pc[Owner] = "block"
    /\ mutex' = "none"
    /\ Goto(Owner, "waiting")
    /\ UNCHANGED <<top, bottom, buffers, stopped, live, push, t, buf, ptr, spc,
                   taken>>

SpuriousWakeup ==
    /\ pc[Owner] = "waiting"
    /\ Goto(Owner, "woken")
    /\ UNCHANGED <<shared, t, buf, ptr>>

-----------------------------------------------------------------------------
(* A mistake for the check of StopEndsWait: stopped_ is set without the    *)
(* mutex.                                                                  *)
StopUnlocked ==
    /\ spc = "stop"
    /\ stopped' = TRUE
    /\ spc' = "notify"
    /\ UNCHANGED <<top, bottom, buffers, mutex, live, push, pop, taken>>

(* stop: sets stopped_ under the mutex ... *)
Stop ==
    /\ spc = "stop" /\ mutex = "none"
    /\ stopped' = TRUE
    /\ spc' = "notify"
    /\ UNCHANGED <<top, bottom, buffers, mutex, live, push, pop, taken>>

(* ... and notifies. *)
StopNotify ==
    /\ spc = "notify"
    /\ notify_one
    /\ spc' = "join"
    /\ UNCHANGED <<top, bottom, buffers, mutex, stopped, live, push, t, buf, ptr,
                   taken>>

(* A worker of a pool that has stopped leaves its loop. *)
Leave(w) ==
    /\ pc[w] = "idle" /\ stopped
    /\ Goto(w, "left")
    /\ UNCHANGED <<shared, t, buf, ptr>>

(* A mistake for the check of AllFreed: the task at top_ is left out. *)
DestroyAboveTop ==
    /\ spc = "join"
    /\ \A w \in Popper : pc[w] = "left"
    /\ \A p \in Pusher : ppc[p] = "idle"
    /\ live' = live \ {get_entry(buffer, i) : i \in top + 1 .. bottom - 1}
    /\ spc' = "destroyed"
    /\ UNCHANGED <<top, bottom, buffers, mutex, stopped, push, pop, taken>>

(* ~TaskQueue frees the tasks that were never popped. *)
Destroy ==
    /\ spc = "join"
    /\ \A w \in Popper : pc[w] = "left"
    /\ \A p \in Pusher : ppc[p] = "idle"
    /\ live' = live \ {get_entry(buffer, i) : i \in top .. bottom - 1}
    /\ spc' = "destroyed"
    /\ UNCHANGED <<top, bottom, buffers, mutex, stopped, push, pop, taken>>

-----------------------------------------------------------------------------
PushStep(p) == PushGrow(p) \/ PushSet(p) \/ PushPublish(p) \/ PushNotify(p)
TryPop(w) == PopBottom(w) \/ PopBuffer(w) \/ PopEntry(w) \/ PopCas(w) \/ PopTake(w)
Wait == WaitLock \/ WaitCheck \/ WaitBlock

Next ==
    \/ \E p \in Pusher : PushLock(p) \/ PushStep(p)
    \/ \E w \in Popper : PopTop(w) \/ TryPop(w) \/ Leave(w)
    \/ Wait \/ SpuriousWakeup
    \/ Stop \/ StopNotify \/ Destroy
    \/ spc = "destroyed" /\ UNCHANGED vars

(* A call that has begun goes on, and the owner calls wait again and       *)
(* again; nobody has to push, to steal or to stop.  std::mutex is not      *)
(* fair, but its holders are few and each releases it, hence SF.           *)
Fairness ==
    /\ \A p \in Pusher : WF_vars(PushStep(p))
    /\ \A w \in Popper : WF_vars(TryPop(w) \/ (pc[w] = "ready" /\ PopTop(w)))
    /\ SF_vars(WaitLock) /\ WF_vars(WaitCheck) /\ WF_vars(WaitBlock)
    /\ WF_vars(StopNotify)

Spec == Init /\ [][Next]_vars /\ Fairness

-----------------------------------------------------------------------------
(* "won race, get task" (quickpool.h:507): the pointer that a thread read  *)
(* before it won the race is that of the task at the index it has won, a   *)
(* task that nobody has freed, whether or not the slot was overwritten or  *)
(* the buffer replaced in the meantime.                                    *)
TakesItsTask ==
    \A w \in Popper :
        pc[w] = "won" => /\ ptr[w] = t[w] /\ ptr[w] \in live
                         /\ \A v \in Popper \ {w} : pc[v] = "won" => ptr[v] # ptr[w]

(* Every task that is in the queue is in the current buffer, whatever      *)
(* top_ was read by the push that last looked for room.                    *)
NotOverfull ==
    \A i \in top .. bottom - 1 : get_entry(buffer, i) = i

(* "Must free memory allocated by push(), but not freed by try_pop()"      *)
(* (quickpool.h:450): after the destructor no task object is left.         *)
AllFreed == spc = "destroyed" => live = {}

(* A queue hands out its tasks in order, each once. *)
Fifo == INSTANCE TaskFifo WITH
            items <- [k \in 1 .. bottom - top |-> top + k - 1]

ImplementsFifo == Fifo!Spec

(* stop() and push() are not missed by an owner that is about to block.    *)
StopEndsWait == stopped ~> pc[Owner] # "waiting"

(* A task that is in the queue does not stay there for ever.               *)
EveryTaskTaken == \A n \in 1 .. MaxTasks : bottom >= n ~> (top >= n \/ stopped)
=============================================================================
