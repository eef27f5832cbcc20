------------------------------ MODULE TaskPool ------------------------------
(***************************************************************************)
(* The thread pool of quickpool.h as ctrlcenter2 uses it: the main thread  *)
(* pushes a batch of tasks, polls done() and collects the results, once to *)
(* hash and once to compress; the workers pop tasks from their own queue   *)
(* and steal from the others.  At the end of main() the pool's destructor  *)
(* stops and joins the workers.  A task whose tool fails calls exit(-1),   *)
(* which runs that destructor on the worker's own thread.                  *)
(*                                                                         *)
(* A queue is the list of all tasks ever pushed to it, of which the first  *)
(* top[q] have been taken: the ring buffer that holds them is left out.    *)
(* Only the worker of a queue waits for it, and whoever makes the queue    *)
(* non-empty or stops it does so under the mutex of the wait and notifies  *)
(* it afterwards, so the wait is a guard.                                  *)
(* The tasks are packaged_tasks, which keep their exceptions to            *)
(* themselves: status_ never becomes errored here.                         *)
(***************************************************************************)
EXTENDS Integers, Sequences, FiniteSets

CONSTANTS
    N,          \* number of workers, and of queues
    TaskCount,  \* number of tasks in a batch
    MaxBatch,   \* number of batches
    Failing     \* the tasks <<batch, number>> whose tool may fail

Worker == 0 .. N - 1
Job    == 1 .. TaskCount
Task   == (1 .. MaxBatch) \X Job

ASSUME PoolAssumption ==
    /\ N \in Nat \ {0}
    /\ TaskCount \in Nat
    /\ MaxBatch \in Nat \ {0}
    /\ Failing \subseteq Task

VARIABLES
    \* TaskManager
    status,     \* status_
    todo,       \* todo_
    push_idx,   \* push_idx_
    queue,      \* queue[q]: every task that was pushed to queue q
    top,        \* top[q]: how many of them have been popped
    stopped,    \* the queues whose stopped_ is set
    \* the main thread
    mpc, batch, next,
    \* the workers
    pc,         \* pc[w]: where worker w is
    slot,       \* the k of try_pop
    seen,       \* the t of TaskQueue::try_pop
    task,       \* the task it has popped
    joined,     \* how many threads the destructor has joined
    \* history
    started,    \* started[x]: how often task x was run
    finished    \* the tasks that returned

manager == <<status, todo, push_idx, queue, top, stopped>>
main    == <<mpc, batch, next>>
workers == <<pc, slot, seen, task>>
history == <<started, finished>>
vars    == <<manager, main, workers, joined, history>>

MainSteps == {"push", "enqueue", "poll", "get", "stop", "stopQueues", "join",
              "ended", "aborted"}
WorkerSteps == {"top", "wait", "pop", "cas", "popped", "run", "report",
                "check", "left", "stop", "stopQueues", "join", "aborted"}

TypeOK ==
    /\ status \in {"running", "stopped"}
    /\ todo \in Int
    /\ push_idx \in Nat
    /\ queue \in [Worker -> Seq(Task)]
    /\ top \in [Worker -> Nat]
    /\ stopped \subseteq Worker
    /\ mpc \in MainSteps
    /\ batch \in 1 .. MaxBatch + 1
    /\ next \in 1 .. TaskCount + 1
    /\ pc \in [Worker -> WorkerSteps]
    /\ slot \in [Worker -> 0 .. N + 1]
    /\ seen \in [Worker -> Nat]
    /\ task \in [Worker -> Task \cup {<< >>}]
    /\ joined \in 0 .. N
    /\ started \in [Task -> Nat]
    /\ finished \subseteq Task

(* The constructor starts the workers. *)
Init ==
    /\ status = "running"
    /\ todo = 0
    /\ push_idx = 0
    /\ queue = [q \in Worker |-> << >>]
    /\ top = [q \in Worker |-> 0]
    /\ stopped = {}
    /\ mpc = "push" /\ batch = 1 /\ next = 1
    /\ pc = [w \in Worker |-> "top"]
    /\ slot = [w \in Worker |-> 0]
    /\ seen = [w \in Worker |-> 0]
    /\ task = [w \in Worker |-> << >>]
    /\ joined = 0
    /\ started = [x \in Task |-> 0]
    /\ finished = {}

-----------------------------------------------------------------------------
(* A mistake for the check of DoneMeansFinished: the task is not counted.  *)
PushUncounted ==
    /\ mpc = "push" /\ next <= TaskCount
    /\ mpc' = "enqueue"
    /\ UNCHANGED <<manager, batch, next, workers, joined, history>>

(* The main thread.  TaskManager::push counts the task first ...           *)
Push ==
    /\ mpc = "push" /\ next <= TaskCount
    /\ IF status = "running"
       THEN mpc' = "enqueue" /\ todo' = todo + 1 /\ UNCHANGED next
       ELSE next' = next + 1 /\ UNCHANGED <<mpc, todo>>
    /\ UNCHANGED <<status, push_idx, queue, top, stopped, batch, workers,
                   joined, history>>

(* ... and then puts it into the next queue, which wakes that worker.      *)
Enqueue ==
    /\ mpc = "enqueue"
    /\ queue' = [queue EXCEPT ![push_idx % N] = Append(@, <<batch, next>>)]
    /\ push_idx' = push_idx + 1
    /\ next' = next + 1
    /\ mpc' = "push"
    /\ UNCHANGED <<status, todo, top, stopped, batch, workers, joined, history>>

Pushed ==
    /\ mpc = "push" /\ next > TaskCount
    /\ mpc' = "poll"
    /\ UNCHANGED <<manager, batch, next, workers, joined, history>>

(* A mistake for the check of ImplementsJobBatch: done() is off by one.    *)
PollAlmostDone ==
    /\ mpc = "poll"
    /\ todo <= 1
    /\ mpc' = "get"
    /\ UNCHANGED <<manager, batch, next, workers, joined, history>>

(* while(!quickpool::done()) quickpool::wait(10): the wait ends after ten  *)
(* milliseconds, so the loop is left once done() holds.                    *)
PollDone ==
    /\ mpc = "poll"
    /\ todo <= 0
    /\ mpc' = "get"
    /\ UNCHANGED <<manager, batch, next, workers, joined, history>>

(* results[i].get() returns at once for a task that has run and blocks     *)
(* otherwise.  Only the results of the hash tasks, the odd batches, are    *)
(* asked for; what compressFile returns is not.                            *)
GetResults ==
    /\ mpc = "get"
    /\ batch % 2 = 1 => \A j \in Job : <<batch, j>> \in finished
    /\ batch' = batch + 1
    /\ next' = 1
    /\ mpc' = IF batch < MaxBatch THEN "push" ELSE "stop"
    /\ UNCHANGED <<manager, workers, joined, history>>

-----------------------------------------------------------------------------
(* A mistake for the check of ExitHoldsMain: stop() also clears the count, *)
(* to let the workers go.                                                  *)
SetStoppedAndDone ==
    /\ status' = "stopped"
    /\ todo' = 0
    /\ UNCHANGED <<push_idx, queue, top, stopped>>

(* The destructor.  TaskManager::stop: the status, then each queue.        *)
SetStopped ==
    /\ status' = "stopped"
    /\ UNCHANGED <<todo, push_idx, queue, top, stopped>>

StopQueue ==
    /\ \E q \in Worker \ stopped :
          /\ \A r \in 0 .. q - 1 : r \in stopped
          /\ stopped' = stopped \cup {q}
    /\ UNCHANGED <<status, todo, push_idx, queue, top>>

(* join_threads: worker number joined leaves its thread function. *)
JoinNext ==
    /\ joined < N
    /\ pc[joined] = "left"
    /\ joined' = joined + 1

(* main() has returned. *)
MainStops ==
    /\ mpc = "stop" /\ SetStopped /\ mpc' = "stopQueues"
    /\ UNCHANGED <<batch, next, workers, joined, history>>

MainStopsQueue ==
    /\ mpc = "stopQueues" /\ StopQueue
    /\ mpc' = IF stopped' = Worker THEN "join" ELSE mpc
    /\ UNCHANGED <<batch, next, workers, joined, history>>

MainJoins ==
    /\ mpc = "join" /\ JoinNext
    /\ mpc' = IF joined' = N THEN "ended" ELSE mpc
    /\ UNCHANGED <<manager, batch, next, workers, history>>

-----------------------------------------------------------------------------
Goto(w, step) == pc' = [pc EXCEPT ![w] = step]

(* while(!task_manager_.stopped()) *)
LoopTop(w) ==
    /\ pc[w] = "top"
    /\ Goto(w, IF status = "stopped" THEN "left" ELSE "wait")
    /\ UNCHANGED <<manager, main, slot, seen, task, joined, history>>

(* A mistake for the check of Terminates: the wait does not look at        *)
(* stopped_.                                                               *)
WaitForTaskOnly(w) ==
    /\ pc[w] = "wait"
    /\ top[w] < Len(queue[w])
    /\ Goto(w, "pop")
    /\ slot' = [slot EXCEPT ![w] = 0]
    /\ UNCHANGED <<manager, main, seen, task, joined, history>>

(* wait_for_jobs: until the own queue has a task or is stopped. *)
WaitForJobs(w) ==
    /\ pc[w] = "wait"
    /\ top[w] < Len(queue[w]) \/ w \in stopped
    /\ Goto(w, "pop")
    /\ slot' = [slot EXCEPT ![w] = 0]
    /\ UNCHANGED <<manager, main, seen, task, joined, history>>

(* The queue that worker w looks at in round slot[w] of try_pop. *)
victim(w) == (w + slot[w]) % N

(* A mistake for the check of TypeOK: the loop of try_pop has no end. *)
LoadIndicesForever(w) ==
    /\ pc[w] = "pop"
    /\ slot' = [slot EXCEPT ![w] = @ + 1]
    /\ UNCHANGED <<manager, main, pc, seen, task, joined, history>>

(* TaskQueue::try_pop reads the indices ... *)
LoadIndices(w) ==
    /\ pc[w] = "pop" /\ slot[w] <= N
    /\ IF top[victim(w)] < Len(queue[victim(w)])
       THEN /\ seen' = [seen EXCEPT ![w] = top[victim(w)]]
            /\ Goto(w, "cas")
            /\ UNCHANGED slot
       ELSE /\ slot' = [slot EXCEPT ![w] = @ + 1]
            /\ UNCHANGED <<pc, seen>>
    /\ UNCHANGED <<manager, main, task, joined, history>>

(* A mistake for the check of RunOnce: the slot is taken without a         *)
(* comparison.                                                             *)
StoreTop(w) ==
    /\ pc[w] = "cas"
    /\ top' = [top EXCEPT ![victim(w)] = seen[w] + 1]
    /\ task' = [task EXCEPT ![w] = queue[victim(w)][seen[w] + 1]]
    /\ Goto(w, "popped")
    /\ UNCHANGED <<status, todo, push_idx, queue, stopped, main, slot, seen,
                   joined, history>>

(* ... and takes the task it has seen, unless another worker was faster.   *)
CompareExchange(w) ==
    /\ pc[w] = "cas"
    /\ IF top[victim(w)] = seen[w]
       THEN /\ top' = [top EXCEPT ![victim(w)] = @ + 1]
            /\ task' = [task EXCEPT ![w] = queue[victim(w)][seen[w] + 1]]
            /\ Goto(w, "popped")
            /\ UNCHANGED slot
       ELSE /\ slot' = [slot EXCEPT ![w] = @ + 1]
            /\ Goto(w, "pop")
            /\ UNCHANGED <<top, task>>
    /\ UNCHANGED <<status, todo, push_idx, queue, stopped, main, seen, joined,
                   history>>

(* A task popped from a pool that has stopped is thrown away. *)
CheckRunning(w) ==
    /\ pc[w] = "popped"
    /\ IF status = "running"
       THEN Goto(w, "run") /\ UNCHANGED task
       ELSE Goto(w, "check") /\ task' = [task EXCEPT ![w] = << >>]
    /\ UNCHANGED <<manager, main, slot, seen, joined, history>>

(* try_pop has been through all queues. *)
NothingPopped(w) ==
    /\ pc[w] = "pop" /\ slot[w] > N
    /\ Goto(w, "check")
    /\ UNCHANGED <<manager, main, slot, seen, task, joined, history>>

(* A task has called exit(-1). *)
Exiting == \E w \in Worker : pc[w] \in {"stop", "stopQueues", "join", "aborted"}

(* execute_safely runs the task.  hashFile and compressFile call exit(-1)  *)
(* when their tool fails; a second exit(-1) at the same time is left out.  *)
RunTask(w) ==
    /\ pc[w] = "run"
    /\ started' = [started EXCEPT ![task[w]] = @ + 1]
    /\ \/ Goto(w, "report") /\ finished' = finished \cup {task[w]}
       \/ /\ task[w] \in Failing /\ ~Exiting
          /\ Goto(w, "stop") /\ UNCHANGED finished
    /\ UNCHANGED <<manager, main, slot, seen, task, joined>>

(* report_success *)
ReportSuccess(w) ==
    /\ pc[w] = "report"
    /\ todo' = todo - 1
    /\ task' = [task EXCEPT ![w] = << >>]
    /\ slot' = [slot EXCEPT ![w] = 0]
    /\ Goto(w, "pop")
    /\ UNCHANGED <<status, push_idx, queue, top, stopped, main, seen, joined,
                   history>>

(* } while (!task_manager_.done()) *)
CheckDone(w) ==
    /\ pc[w] = "check"
    /\ Goto(w, IF todo <= 0 THEN "top" ELSE "pop")
    /\ slot' = [slot EXCEPT ![w] = 0]
    /\ UNCHANGED <<manager, main, seen, task, joined, history>>

(* exit(-1) on a worker: the destructor of the pool runs on this thread. *)
WorkerStops(w) ==
    /\ pc[w] = "stop" /\ SetStopped /\ Goto(w, "stopQueues")
    /\ UNCHANGED <<main, slot, seen, task, joined, history>>

WorkerStopsQueue(w) ==
    /\ pc[w] = "stopQueues" /\ StopQueue
    /\ Goto(w, IF stopped' = Worker THEN "join" ELSE pc[w])
    /\ UNCHANGED <<main, slot, seen, task, joined, history>>

(* It joins the workers in turn.  When it comes to itself, join() throws   *)
(* in a destructor and the process is aborted.                             *)
WorkerJoins(w) ==
    /\ pc[w] = "join"
    /\ IF joined = w
       THEN /\ pc' = [v \in Worker |-> "aborted"]
            /\ mpc' = "aborted"
            /\ UNCHANGED joined
       ELSE JoinNext /\ UNCHANGED <<pc, mpc>>
    /\ UNCHANGED <<manager, batch, next, slot, seen, task, history>>

-----------------------------------------------------------------------------
Main == Push \/ Enqueue \/ Pushed \/ PollDone \/ GetResults \/ MainStops
        \/ MainStopsQueue \/ MainJoins

Work(w) == LoopTop(w) \/ WaitForJobs(w) \/ LoadIndices(w) \/ CompareExchange(w)
           \/ CheckRunning(w) \/ NothingPopped(w) \/ RunTask(w)
           \/ ReportSuccess(w) \/ CheckDone(w) \/ WorkerStops(w)
           \/ WorkerStopsQueue(w) \/ WorkerJoins(w)

(* The process is over. *)
Over == mpc \in {"ended", "aborted"}

Next == \/ Main
        \/ \E w \in Worker : Work(w)
        \/ Over /\ UNCHANGED vars

(* Every thread is scheduled again and again. *)
Fairness == WF_vars(Main) /\ \A w \in Worker : WF_vars(Work(w))

Spec == Init /\ [][Next]_vars /\ Fairness

-----------------------------------------------------------------------------
(* Workers that race for the same task do not both run it. *)
RunOnce == \A x \in Task : started[x] <= 1

(* done() never lies: when the main thread leaves its polling loop, every  *)
(* task it has pushed has returned, so the futures it reads are ready and  *)
(* no tool still writes to the output folder.                              *)
DoneMeansFinished ==
    mpc \in {"get", "stop", "stopQueues", "join", "ended"} =>
        \A x \in Task : x[1] <= batch => x \in finished

(* After exit(-1) in a task the main thread goes nowhere: the task that    *)
(* failed stays counted, so filehashes.txt and the database are not        *)
(* written for a backup that is not complete.                              *)
ExitHoldsMain == Exiting => mpc \in {"push", "enqueue", "poll", "aborted"}

(* Unless a task calls exit(-1), the pool ends: all batches are run and    *)
(* the destructor joins all workers.                                       *)
Terminates == <>(mpc = "ended" \/ Exiting)

(* The jobs of a batch are a set of which any open one may finish next. *)
Jobs == INSTANCE JobBatch WITH
            Job  <- Job,
            open <- {j \in Job : batch <= MaxBatch /\ <<batch, j>> \notin finished},
            dead <- Exiting

ImplementsJobBatch == Jobs!Spec
=============================================================================
