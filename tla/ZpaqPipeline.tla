---------------------------- MODULE ZpaqPipeline ----------------------------
(***************************************************************************)
(* The threads of "zpaq add" (zpaq.cpp, CompressJob): the main thread puts *)
(* blocks into a ring of buffers, one compressThread per buffer compresses *)
(* what is in it, and the writeThread appends the results to the archive.  *)
(*                                                                         *)
(* Everything between lock(mutex) and release(mutex) is one step, and so   *)
(* is Semaphore::signal and each half of Semaphore::wait; that a sleeper   *)
(* wakes up by itself, as POSIX allows, is in ZpaqSpurious.  Assertions    *)
(* are compiled out (zpaq.cpp:77), so a step that would break one goes on. *)
(* compressThread takes its jobNumber from a counter under the mutex:      *)
(* thread i is the one that got buffer i.                                  *)
(***************************************************************************)
EXTENDS Integers, Sequences, FiniteSets

CONSTANTS
    Threads,        \* the option -threads
    Blocks          \* bound: how many blocks are added

ASSUME PipelineAssumption ==
    /\ Threads \in Nat \ {0}
    /\ Blocks \in Nat

qsize == 2 * Threads - 1
Slot == 0 .. qsize - 1
Thread == Slot \cup {-1, -2}
Main == -1
Writer == -2

VARIABLES
    q,              \* the buffers
    front,          \* next to remove from the queue
    empty, compressors, full, compressed,  \* the semaphores
    mpc, sent, k,   \* main thread: step, blocks written to the queue, end markers left
    cpc,            \* step of each compressThread
    wpc,            \* step of the writeThread
    archive,        \* the blocks that were written
    csize           \* one entry per block that the writeThread has handled

sems == <<empty, compressors, full, compressed>>
main == <<mpc, sent, k>>
vars == <<q, front, sems, main, cpc, wpc, archive, csize>>

None == -1          \* a StringBuffer of size 0
Hollow == 0         \* the block that compressBlock makes of no input
Data == None .. Blocks

Semaphore == [n : Int, asleep : SUBSET Thread, woken : SUBSET Thread]

TypeOK ==
    /\ q \in [Slot -> [state : {"EMPTY", "FULL", "COMPRESSING", "COMPRESSED", "WRITING"},
                       last : BOOLEAN, in : Data, out : Data]]
    /\ front \in Slot
    /\ empty \in Semaphore /\ empty.n \in 0 .. qsize
    /\ compressors \in Semaphore /\ compressors.n <= Threads
    /\ full \in [Slot -> Semaphore] /\ compressed \in [Slot -> Semaphore]
    /\ \A i \in Slot : full[i].n \in {0, 1} /\ compressed[i].n \in {0, 1}
    /\ mpc \in {"wait", "fill", "join", "done"}
    /\ sent \in 0 .. Blocks /\ k \in 0 .. qsize
    /\ cpc \in [Slot -> {"full", "check", "slot", "compress", "compressed", "ended"}]
    /\ wpc \in {"compressed", "take", "write", "free", "ended"}
    /\ archive \in Seq(Data) /\ csize \in Seq(Data)

init(n) == [n |-> n, asleep |-> {}, woken |-> {}]

(* A new CJ has method "", which is also the mark of the end of the input. *)
Init ==
    /\ q = [i \in Slot |-> [state |-> "EMPTY", last |-> TRUE, in |-> None, out |-> None]]
    /\ front = 0
    /\ empty = init(qsize) /\ compressors = init(Threads)
    /\ full = [i \in Slot |-> init(0)] /\ compressed = [i \in Slot |-> init(0)]
    /\ mpc = "wait" /\ sent = 0 /\ k = qsize
    /\ cpc = [i \in Slot |-> "full"]
    /\ wpc = "compressed"
    /\ archive = << >> /\ csize = << >>

-----------------------------------------------------------------------------
(* Semaphore::wait.  A thread that finds 0 sleeps; one that wakes up takes *)
(* its unit without a second look.                                         *)
MustSleep(s, th) == s.n = 0 /\ th \notin s.asleep \cup s.woken
Sleeping(s, th) == [s EXCEPT !.asleep = @ \cup {th}]
MayPass(s, th) == th \in s.woken \/ (th \notin s.asleep /\ s.n # 0)
Passed(s, th) == [s EXCEPT !.n = @ - 1, !.woken = @ \ {th}]

(* Semaphore::signal wakes one of the sleepers. *)
signal(s) ==
    IF s.asleep = {}
    THEN {[s EXCEPT !.n = @ + 1]}
    ELSE {[n |-> s.n + 1, asleep |-> s.asleep \ {th}, woken |-> s.woken \cup {th}] :
            th \in s.asleep}

-----------------------------------------------------------------------------
(* CompressJob::write, for a block, or with method "" once per buffer. *)
MainWaits ==
    /\ mpc = "wait"
    /\ \/ MustSleep(empty, Main) /\ empty' = Sleeping(empty, Main) /\ UNCHANGED mpc
       \/ MayPass(empty, Main) /\ empty' = Passed(empty, Main) /\ mpc' = "fill"
    /\ UNCHANGED <<q, front, compressors, full, compressed, sent, k, cpc, wpc,
                   archive, csize>>

(* The first EMPTY buffer, counted from a position; none if all are taken. *)
FirstEmpty(from) ==
    {i \in Slot : /\ q[i].state = "EMPTY"
                  /\ \A j \in Slot : q[j].state = "EMPTY" =>
                        (i - from) % qsize <= (j - from) % qsize}

last == sent = Blocks

FillSlot(i) ==
    /\ q' = [q EXCEPT ![i] = [state |-> "FULL", last |-> last,
                              in |-> IF last THEN None ELSE sent + 1, out |-> @.out]]
    /\ \E s \in signal(full[i]) : full' = [full EXCEPT ![i] = s]

FillFrom(from) ==
    /\ mpc = "fill"
    /\ \/ FirstEmpty(from) = {} /\ UNCHANGED <<q, full>>
       \/ \E i \in FirstEmpty(from) : FillSlot(i)
    /\ sent' = IF last THEN sent ELSE sent + 1
    /\ k' = IF last THEN k - 1 ELSE k
    /\ mpc' = IF last /\ k = 1 THEN "join" ELSE "wait"
    /\ UNCHANGED <<front, empty, compressors, compressed, cpc, wpc, archive, csize>>

(* A mistake for the check of InOrder: the search begins at buffer 0. *)
FillAnywhere == FillFrom(0)

Fill == FillFrom(front)

(* add() joins all its threads before it goes on. *)
Join ==
    /\ mpc = "join" /\ wpc = "ended" /\ \A i \in Slot : cpc[i] = "ended"
    /\ mpc' = "done"
    /\ UNCHANGED <<q, front, sems, sent, k, cpc, wpc, archive, csize>>

-----------------------------------------------------------------------------
Goto(i, step) == cpc' = [cpc EXCEPT ![i] = step]

(* compressThread: cj.full.wait(), ... *)
WaitFull(i) ==
    /\ cpc[i] = "full"
    /\ \/ /\ MustSleep(full[i], i) /\ UNCHANGED cpc
          /\ full' = [full EXCEPT ![i] = Sleeping(@, i)]
       \/ /\ MayPass(full[i], i) /\ Goto(i, "check")
          /\ full' = [full EXCEPT ![i] = Passed(@, i)]
    /\ UNCHANGED <<q, front, empty, compressors, compressed, main, wpc, archive,
                   csize>>

(* A mistake for the check of Terminates: at the end of the input the      *)
(* thread looks again instead of returning.                                *)
CheckMethodAgain(i) ==
    /\ cpc[i] = "check"
    /\ IF q[i].last
       THEN UNCHANGED <<q, cpc>>
       ELSE q' = [q EXCEPT ![i].state = "COMPRESSING"] /\ Goto(i, "slot")
    /\ UNCHANGED <<front, sems, main, wpc, archive, csize>>

(* ... then either the end of the input, or a block ... *)
CheckMethod(i) ==
    /\ cpc[i] = "check"
    /\ IF q[i].last
       THEN /\ \E s \in signal(compressed[i]) : compressed' = [compressed EXCEPT ![i] = s]
            /\ Goto(i, "ended")
            /\ UNCHANGED q
       ELSE /\ q' = [q EXCEPT ![i].state = "COMPRESSING"]
            /\ Goto(i, "slot")
            /\ UNCHANGED compressed
    /\ UNCHANGED <<front, empty, compressors, full, main, wpc, archive, csize>>

(* ... that has to wait until fewer than Threads blocks are compressed. *)
WaitCompressors(i) ==
    /\ cpc[i] = "slot"
    /\ \/ MustSleep(compressors, i) /\ compressors' = Sleeping(compressors, i) /\ UNCHANGED cpc
       \/ MayPass(compressors, i) /\ compressors' = Passed(compressors, i) /\ Goto(i, "compress")
    /\ UNCHANGED <<q, front, empty, full, compressed, main, wpc, archive, csize>>

(* libzpaq::compressBlock(&cj.in, &cj.out, ...); cj.in.resize(0) *)
Compress(i) ==
    /\ cpc[i] = "compress"
    /\ q' = [q EXCEPT ![i].out = IF q[i].in = None THEN Hollow ELSE q[i].in,
                      ![i].in = None]
    /\ Goto(i, "compressed")
    /\ UNCHANGED <<front, sems, main, wpc, archive, csize>>

Compressed(i) ==
    /\ cpc[i] = "compressed"
    /\ q' = [q EXCEPT ![i].state = "COMPRESSED"]
    /\ \E s \in signal(compressed[i]) : compressed' = [compressed EXCEPT ![i] = s]
    /\ compressors' \in signal(compressors)
    /\ Goto(i, "full")
    /\ UNCHANGED <<front, empty, full, main, wpc, archive, csize>>

-----------------------------------------------------------------------------
(* writeThread: waits for the buffer at the front, ... *)
WaitCompressed ==
    /\ wpc = "compressed"
    /\ LET s == compressed[front]
       IN  \/ /\ MustSleep(s, Writer) /\ UNCHANGED wpc
              /\ compressed' = [compressed EXCEPT ![front] = Sleeping(s, Writer)]
           \/ /\ MayPass(s, Writer) /\ wpc' = "take"
              /\ compressed' = [compressed EXCEPT ![front] = Passed(s, Writer)]
    /\ UNCHANGED <<q, front, empty, compressors, full, main, cpc, archive, csize>>

(* A mistake for the check of QueueNotFull: the buffer is given back as    *)
(* soon as its content is taken.                                           *)
TakeAndSignal ==
    /\ wpc = "take"
    /\ IF q[front].last
       THEN wpc' = "ended" /\ UNCHANGED <<q, csize, empty>>
       ELSE /\ q' = [q EXCEPT ![front].state = "WRITING"]
            /\ csize' = Append(csize, q[front].out)
            /\ empty' \in signal(empty)
            /\ wpc' = IF q[front].out = None THEN "free" ELSE "write"
    /\ UNCHANGED <<front, compressors, full, compressed, main, cpc, archive>>

(* ... ends at the mark of the end of the input, ... *)
Take ==
    /\ wpc = "take"
    /\ IF q[front].last
       THEN wpc' = "ended" /\ UNCHANGED <<q, csize>>
       ELSE /\ q' = [q EXCEPT ![front].state = "WRITING"]
            /\ csize' = Append(csize, q[front].out)
            /\ wpc' = IF q[front].out = None THEN "free" ELSE "write"
    /\ UNCHANGED <<front, sems, main, cpc, archive>>

(* ... writes to the archive without the mutex, ... *)
WriteOut ==
    /\ wpc = "write"
    /\ archive' = Append(archive, q[front].out)
    /\ wpc' = "free"
    /\ UNCHANGED <<q, front, sems, main, cpc, csize>>

(* A mistake for the check of TypeOK: the buffer is given back twice. *)
FreeTwice ==
    /\ wpc = "free"
    /\ q' = [q EXCEPT ![front].out = None, ![front].state = "EMPTY"]
    /\ front' = (front + 1) % qsize
    /\ \E s \in signal(empty) : empty' \in signal(s)
    /\ wpc' = "compressed"
    /\ UNCHANGED <<compressors, full, compressed, main, cpc, archive, csize>>

(* ... and gives the buffer back. *)
Free ==
    /\ wpc = "free"
    /\ q' = [q EXCEPT ![front].out = None, ![front].state = "EMPTY"]
    /\ front' = (front + 1) % qsize
    /\ empty' \in signal(empty)
    /\ wpc' = "compressed"
    /\ UNCHANGED <<compressors, full, compressed, main, cpc, archive, csize>>

-----------------------------------------------------------------------------
MainStep == MainWaits \/ Fill \/ Join
CompressStep(i) ==
    WaitFull(i) \/ CheckMethod(i) \/ WaitCompressors(i) \/ Compress(i) \/ Compressed(i)
WriteStep == WaitCompressed \/ Take \/ WriteOut \/ Free

Next ==
    \/ MainStep \/ WriteStep
    \/ \E i \in Slot : CompressStep(i)
    \/ mpc = "done" /\ UNCHANGED vars

(* Every thread is scheduled; a wait that can go on goes on. *)
Fairness ==
    /\ WF_vars(MainStep) /\ WF_vars(WriteStep)
    /\ \A i \in Slot : WF_vars(CompressStep(i))

Spec == Init /\ [][Next]_vars /\ Fairness

-----------------------------------------------------------------------------
(* Blocks may be compressed in any order and are written in the order in   *)
(* which they were added, none twice, none left out; when add() goes on,   *)
(* all are written and csize has one size for each ("blocklist.size()==    *)
(* job.csize.size()", zpaq.cpp:2593), from which the fragment tables are   *)
(* made.                                                                   *)
InOrder ==
    /\ archive = [i \in 1 .. Len(archive) |-> i]
    /\ mpc = "done" => Len(archive) = Blocks /\ csize = archive

(* "queue should not be full" (zpaq.cpp:1917): a buffer is EMPTY whenever  *)
(* write has passed its semaphore, though that is signalled by another     *)
(* thread than the one that looks at the states.                           *)
QueueNotFull == mpc = "fill" => \E i \in Slot : q[i].state = "EMPTY"

(* add() ends: every compressThread and the writeThread get their end mark *)
(* whatever buffers they are at.                                           *)
Terminates == <>(mpc = "done")
=============================================================================
