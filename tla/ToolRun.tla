------------------------------ MODULE ToolRun -------------------------------
(***************************************************************************)
(* How ctrlcenter2 runs a tool for a job: runSubprocess with the POSIX     *)
(* side of subprocess.h, the copy that compressFile makes when the tool    *)
(* fails, and the tools themselves as processes that print and exit.       *)
(* Several jobs run at a time, one per thread of the pool.                 *)
(*                                                                         *)
(* A pipe holds PipeSize units of output.  The parent's descriptors have   *)
(* no close-on-exec flag: a child inherits all that are open when it is    *)
(* spawned, the pipes of the other jobs too.  What exit(-1) does to the    *)
(* other threads is in TaskPool.                                           *)
(***************************************************************************)
EXTENDS Integers, FiniteSets

CONSTANTS
    Job,        \* the calls of runSubprocess
    Compress,   \* those of compressFile; the others are of hashFile
    Missing,    \* those whose executable no build makes
    Failing,    \* those whose tool may return an error
    Printed,    \* Printed[j]: how much the tool prints to "out" and to "err"
    Line,       \* Line[j]: where the first line of "out" ends, or its 127 bytes;
                \* more than Printed[j] when neither comes
    Threads,    \* number of threads of the pool
    PipeSize,   \* capacity of a pipe
    FdLimit     \* how many descriptors the process may have for this

Stream == {"in", "out", "err"}
Fd == Job \X (Stream \cup {"copy"}) \X {"r", "w"}

ASSUME ToolAssumption ==
    /\ IsFiniteSet(Job)
    /\ Compress \subseteq Job /\ Missing \subseteq Job
    /\ Failing \subseteq Job
    /\ Printed \in [Job -> [{"out", "err"} -> Nat]]
    /\ Line \in [Job -> Nat \ {0}]
    /\ Threads \in Nat \ {0} /\ PipeSize \in Nat \ {0} /\ FdLimit \in Nat

VARIABLES
    pc,         \* pc[j]: the step of job j
    fds,        \* the descriptors that are open in ctrlcenter2
    child,      \* child[j]: the state of the tool
    held,       \* held[j]: the descriptors of ctrlcenter2 that it inherited
    written,    \* written[j]: what it has written to its pipes
    value       \* value[j]: how much of its output runSubprocess returned

vars == <<pc, fds, child, held, written, value>>

NoValue == -1
Steps == {"ready", "in", "out", "err", "spawn", "close", "stdin", "wait", "gets",
          "destroy", "error", "dest", "copying", "done", "exit"}

TypeOK ==
    /\ pc \in [Job -> Steps]
    /\ fds \subseteq Fd
    /\ child \in [Job -> {"none", "running", "succeeded", "failed"}]
    /\ held \in [Job -> SUBSET Fd]
    /\ written \in [Job -> [{"out", "err"} -> 0 .. PipeSize]]
    /\ value \in [Job -> Nat \cup {NoValue}]

Init ==
    /\ pc = [j \in Job |-> "ready"]
    /\ fds = {}
    /\ child = [j \in Job |-> "none"]
    /\ held = [j \in Job |-> {}]
    /\ written = [j \in Job |-> [s \in {"out", "err"} |-> 0]]
    /\ value = [j \in Job |-> NoValue]

Goto(j, step) == pc' = [pc EXCEPT ![j] = step]
Room(n) == Cardinality(fds) + n <= FdLimit
tool == <<child, held, written, value>>

-----------------------------------------------------------------------------
(* A thread of the pool takes the job; jobs in "exit" keep their thread. *)
Begin(j) ==
    /\ pc[j] = "ready"
    /\ Cardinality({i \in Job : pc[i] \notin {"ready", "done"}}) < Threads
    /\ Goto(j, "in")
    /\ UNCHANGED <<fds, tool>>

After == [in |-> "out", out |-> "err", err |-> "spawn"]

(* subprocess_create opens a pipe for each stream.  When one fails, it     *)
(* returns -1, and the pipes before it stay open.                          *)
OpenPipe(j) ==
    /\ pc[j] \in Stream
    /\ IF Room(2)
       THEN fds' = fds \cup {<<j, pc[j], "r">>, <<j, pc[j], "w">>}
            /\ Goto(j, After[pc[j]])
       ELSE Goto(j, "error") /\ UNCHANGED fds
    /\ UNCHANGED tool

(* posix_spawn with its file actions.  Nothing is closed when it fails.    *)
Spawn(j) ==
    /\ pc[j] = "spawn"
    /\ IF j \in Missing
       THEN Goto(j, "error") /\ UNCHANGED <<child, held>>
       ELSE /\ child' = [child EXCEPT ![j] = "running"]
            /\ held' = [held EXCEPT ![j] =
                  fds \ {<<j, "in", "w">>, <<j, "out", "r">>, <<j, "err", "r">>}]
            /\ Goto(j, "close")
    /\ UNCHANGED <<fds, written, value>>

(* A mistake for the check of CallsReturn: the write end of stdout stays   *)
(* open in the parent.                                                     *)
CloseStdinOnly(j) ==
    /\ pc[j] = "close"
    /\ fds' = fds \ {<<j, "in", "r">>, <<j, "err", "w">>}
    /\ Goto(j, "stdin")
    /\ UNCHANGED tool

(* The parent closes the child's ends. *)
CloseChildEnds(j) ==
    /\ pc[j] = "close"
    /\ fds' = fds \ {<<j, "in", "r">>, <<j, "out", "w">>, <<j, "err", "w">>}
    /\ Goto(j, "stdin")
    /\ UNCHANGED tool

(* subprocess_join closes stdin ... *)
CloseStdin(j) ==
    /\ pc[j] = "stdin"
    /\ fds' = fds \ {<<j, "in", "w">>}
    /\ Goto(j, "wait")
    /\ UNCHANGED tool

(* A mistake for the check of TrustedAnswer: the output is read at once.   *)
WaitNot(j) ==
    /\ pc[j] = "wait"
    /\ Goto(j, "gets")
    /\ UNCHANGED <<fds, tool>>

(* ... and waits for the tool to end, while nobody reads its output. *)
WaitPid(j) ==
    /\ pc[j] = "wait"
    /\ child[j] \in {"succeeded", "failed"}
    /\ Goto(j, "gets")
    /\ UNCHANGED <<fds, tool>>

(* Nobody can write to the pipe of stdout any more. *)
AtEof(j) == \A f \in {fds} \cup {held[i] : i \in Job} : <<j, "out", "w">> \notin f

(* What fgets(tmp, 128, fp) gives of n units: no more than the first line. *)
FirstLine(j, n) == IF n >= Line[j] THEN Line[j] ELSE n

(* fgets returns at the end of a line, after 127 bytes or at the end of    *)
(* the output, which comes when the last holder of the write end is gone.  *)
Fgets(j) ==
    /\ pc[j] = "gets"
    /\ written[j]["out"] >= Line[j] \/ AtEof(j)
    /\ value' = IF child[j] = "failed" THEN value
                ELSE [value EXCEPT ![j] = FirstLine(j, written[j]["out"])]
    /\ Goto(j, "destroy")
    /\ UNCHANGED <<fds, child, held, written>>

(* A mistake for the check of NoExit: stderr is not closed. *)
DestroyStdout(j) ==
    /\ pc[j] = "destroy"
    /\ fds' = fds \ {<<j, "out", "r">>}
    /\ Goto(j, IF value[j] = NoValue THEN "error" ELSE "done")
    /\ UNCHANGED tool

(* subprocess_destroy *)
Destroy(j) ==
    /\ pc[j] = "destroy"
    /\ fds' = fds \ {<<j, "out", "r">>, <<j, "err", "r">>}
    /\ Goto(j, IF value[j] = NoValue THEN "error" ELSE "done")
    /\ UNCHANGED tool

-----------------------------------------------------------------------------
(* runSubprocess has returned an error: hashFile calls exit(-1). *)
HashError(j) ==
    /\ pc[j] = "error" /\ j \notin Compress
    /\ Goto(j, "exit")
    /\ UNCHANGED <<fds, tool>>

(* compressFile calls copyFile, which opens the source, ... *)
CopyOpen(j) ==
    /\ pc[j] = "error" /\ j \in Compress
    /\ IF Room(1)
       THEN fds' = fds \cup {<<j, "copy", "r">>} /\ Goto(j, "dest")
       ELSE Goto(j, "exit") /\ UNCHANGED fds
    /\ UNCHANGED tool

(* ... then the destination; if that fails, compressFile calls exit(-1). *)
CopyDest(j) ==
    /\ pc[j] = "dest"
    /\ IF Room(1)
       THEN fds' = fds \cup {<<j, "copy", "w">>} /\ Goto(j, "copying")
       ELSE fds' = fds \ {<<j, "copy", "r">>} /\ Goto(j, "exit")
    /\ UNCHANGED tool

(* A mistake for the check of TypeOK: the copy's error code is the value. *)
CopyGivesValue(j) ==
    /\ pc[j] = "copying"
    /\ fds' = fds \ {<<j, "copy", "r">>, <<j, "copy", "w">>}
    /\ value' = [value EXCEPT ![j] = -2]
    /\ Goto(j, "done")
    /\ UNCHANGED <<child, held, written>>

CopyEnd(j) ==
    /\ pc[j] = "copying"
    /\ fds' = fds \ {<<j, "copy", "r">>, <<j, "copy", "w">>}
    /\ Goto(j, "done")
    /\ UNCHANGED tool

-----------------------------------------------------------------------------
(* The tool prints; a write to a full pipe blocks. *)
ToolWrites(j) ==
    /\ child[j] = "running"
    /\ \E s \in {"out", "err"} :
          /\ written[j][s] < Printed[j][s] /\ written[j][s] < PipeSize
          /\ written' = [written EXCEPT ![j][s] = @ + 1]
    /\ UNCHANGED <<pc, fds, child, held, value>>

(* It exits when it has printed everything, or fails before; its           *)
(* descriptors are closed.                                                 *)
ToolExits(j) ==
    /\ child[j] = "running"
    /\ \/ written[j] = Printed[j] /\ child' = [child EXCEPT ![j] = "succeeded"]
       \/ j \in Failing /\ child' = [child EXCEPT ![j] = "failed"]
    /\ held' = [held EXCEPT ![j] = {}]
    /\ UNCHANGED <<pc, fds, written, value>>

-----------------------------------------------------------------------------
Call(j) == OpenPipe(j) \/ Spawn(j) \/ CloseChildEnds(j) \/ CloseStdin(j)
           \/ WaitPid(j) \/ Fgets(j) \/ Destroy(j) \/ HashError(j)
           \/ CopyOpen(j) \/ CopyDest(j) \/ CopyEnd(j)

Tool(j) == ToolWrites(j) \/ ToolExits(j)

Over == \A j \in Job : pc[j] \in {"done", "exit"}

Next == \/ \E j \in Job : Begin(j) \/ Call(j) \/ Tool(j)
        \/ Over /\ UNCHANGED vars

(* The threads and the processes are scheduled again and again. *)
Fairness == \A j \in Job : WF_vars(Begin(j)) /\ WF_vars(Call(j)) /\ WF_vars(Tool(j))

Spec == Init /\ [][Next]_vars /\ Fairness

-----------------------------------------------------------------------------
(* "These files will be compressed [...] and only these changed files will *)
(* be stored in the new folder" (concept.txt:86): a file whose tool fails  *)
(* is copied, and no job ends the program for lack of descriptors, as long *)
(* as there are six for each thread and six for each file whose executable *)
(* is missing: those are never closed.                                     *)
NoExit ==
    6 * (Threads + Cardinality(Missing)) <= FdLimit =>
        \A j \in Compress : pc[j] # "exit"

(* An answer that runSubprocess returns is of a tool that has succeeded,   *)
(* and it is the first line of what that tool printed (or 127 bytes, or    *)
(* all of it) and never less, though other tools run and end meanwhile.    *)
TrustedAnswer ==
    \A j \in Job : value[j] # NoValue =>
        child[j] = "succeeded" /\ value[j] = FirstLine(j, Printed[j]["out"])

(* Every job comes to its end, although a job may hold the write end of    *)
(* another job's pipe, if what each tool prints fits into its pipes.       *)
CallsReturn ==
    (\A j \in Job, s \in {"out", "err"} : Printed[j][s] <= PipeSize) =>
        \A j \in Job : <>(pc[j] \in {"done", "exit"})
=============================================================================
