--------------------------- MODULE TaskPoolProofs ---------------------------
(***************************************************************************)
(* What TaskPool guarantees for any number of workers, tasks and batches   *)
(* and whichever tasks fail: no task is run twice, the main thread goes on *)
(* only when all tasks of its batches have returned, it does not go on     *)
(* after an exit(-1), and a batch is the set of open jobs of JobBatch.     *)
(***************************************************************************)
EXTENDS TaskPool, FiniteSetTheorems, TLAPS

(* A task is in some queue; a task has been popped from some queue. *)
Queued(x) == \E q \in Worker : \E k \in 1 .. Len(queue[q]) : queue[q][k] = x
Taken(x)  == \E q \in Worker : \E k \in 1 .. top[q] : queue[q][k] = x

(* Where a worker is while it has a task, and while it runs exit(-1). *)
ExitSteps == {"stop", "stopQueues", "join"}
Holding(w) == pc[w] \in {"popped", "run", "report"} \cup ExitSteps

(* The tasks that todo_ has to count: pushed, or about to be, and not yet  *)
(* reported.                                                               *)
Outstanding ==
    {x \in Task : /\ Queued(x) \/ (mpc = "enqueue" /\ x = <<batch, next>>)
                  /\ x \notin finished
                       \/ \E w \in Worker : pc[w] = "report" /\ task[w] = x}

-----------------------------------------------------------------------------
(* No task is in two places, and none is ahead of the main thread. *)
Queues ==
    \A q \in Worker :
        /\ top[q] <= Len(queue[q])
        /\ \A k \in 1 .. Len(queue[q]) :
              /\ queue[q][k][1] < batch
                   \/ (queue[q][k][1] = batch /\ queue[q][k][2] < next)
              /\ \A r \in Worker : \A l \in 1 .. Len(queue[r]) :
                    queue[q][k] = queue[r][l] => q = r /\ k = l

(* Where the main thread is, and that earlier batches are finished. *)
Progress ==
    /\ mpc \in {"push", "enqueue", "poll", "get"} => batch <= MaxBatch
    /\ mpc = "enqueue" => next <= TaskCount
    /\ mpc = "poll" => next = TaskCount + 1
    /\ mpc \in {"stop", "stopQueues", "join", "ended"} => batch = MaxBatch + 1
    /\ \A x \in Task : x[1] < batch => x \in finished
    /\ mpc = "get" => \A x \in Task : x[1] = batch => x \in finished

(* The pool is stopped by the end of main or by an exit(-1); up to then    *)
(* every task of the batch goes to a queue.                                *)
Stopping ==
    /\ \A w \in Worker : pc[w] = "aborted" => mpc = "aborted"
    /\ status = "stopped" => Exiting \/ mpc \in {"stopQueues", "join", "ended"}
    /\ ~Exiting /\ mpc \in {"push", "enqueue", "poll"} =>
          \A j \in Job : j < next => Queued(<<batch, j>>)

(* What a worker has read of a queue exists. *)
Casing ==
    \A w \in Worker :
        pc[w] = "cas" => slot[w] <= N /\ seen[w] < Len(queue[victim(w)])

(* A worker's task was popped; it has not been run before it is run, and   *)
(* it finishes only if it does not exit.                                   *)
Held ==
    \A w \in Worker :
        /\ Holding(w) => task[w] \in Task /\ Taken(task[w])
        /\ pc[w] \in {"popped", "run"} => started[task[w]] = 0
        /\ pc[w] = "report" => task[w] \in finished
        /\ pc[w] \in ExitSteps => task[w] \notin finished

(* Two workers have different tasks. *)
Own ==
    \A v, w \in Worker : v # w /\ Holding(v) /\ Holding(w) => task[v] # task[w]

(* Only tasks that were popped are run, and only those finish. *)
Runs ==
    /\ \A x \in Task : started[x] <= 1 /\ (started[x] >= 1 => Taken(x))
    /\ \A x \in finished : started[x] >= 1

Count == Cardinality(Outstanding) <= todo

Inv ==
    /\ TypeOK /\ Queues /\ Progress /\ Stopping /\ ExitHoldsMain
    /\ Casing /\ Held /\ Own /\ Runs /\ Count

-----------------------------------------------------------------------------
(* The queue a worker looks at is one of the queues. *)
LEMMA VictimType ==
    ASSUME NEW i \in Nat
    PROVE  i % N \in Worker
BY PoolAssumption DEF Worker

(* A task is a pair of a batch and a job. *)
LEMMA TaskPair ==
    /\ \A b \in 1 .. MaxBatch : \A j \in Job : <<b, j>> \in Task
    /\ \A x \in Task : x[1] \in 1 .. MaxBatch /\ x[2] \in Job /\ x = <<x[1], x[2]>>
BY DEF Task

(* What the main thread, the pool's flags or a worker without a task       *)
(* change does not touch the queues ...                                    *)
LEMMA QueuesFrame ==
    ASSUME Queues, UNCHANGED <<queue, top, batch, next>>
    PROVE  Queues'
BY DEF Queues

(* ... nor what the workers hold.                                          *)
LEMMA WorkersFrame ==
    ASSUME Casing, Held, Own,
           UNCHANGED <<queue, top, pc, slot, seen, task, started, finished>>
    PROVE  Casing' /\ Held' /\ Own'
BY DEF Casing, Held, Own, Holding, Taken, victim

(* Steps that take no task and run none leave Runs as it is. *)
LEMMA RunsFrame ==
    ASSUME Runs, UNCHANGED <<queue, top, started, finished>>
    PROVE  Runs'
BY DEF Runs, Taken

(* A worker moves on without a new task. *)
LEMMA MoveWorker ==
    ASSUME Casing, Held, Own, NEW w \in Worker,
           UNCHANGED <<queue, top, started, finished>>,
           \A v \in Worker \ {w} : /\ pc'[v] = pc[v] /\ slot'[v] = slot[v]
                                   /\ seen'[v] = seen[v] /\ task'[v] = task[v],
           pc'[w] = "cas" => slot'[w] <= N /\ seen'[w] < Len(queue[victim(w)]'),
           \/ pc'[w] \notin {"popped", "run", "report"} \cup ExitSteps
           \/ /\ task'[w] = task[w]
              /\ \/ pc[w] = "popped" /\ pc'[w] = "run"
                 \/ pc[w] \in ExitSteps /\ pc'[w] \in ExitSteps
    PROVE  Casing' /\ Held' /\ Own'
<1>1. Casing'
    BY DEF Casing, victim
<1>2. Held'
    BY DEF Held, Holding, Taken, ExitSteps
<1>3. \A v \in Worker : Holding(v)' => Holding(v) /\ task'[v] = task[v]
    BY DEF Holding, ExitSteps
<1>4. Own'
    BY <1>3 DEF Own
<1> QED BY <1>1, <1>2, <1>4

(* The finite set of tasks that todo_ counts. *)
LEMMA TaskFinite == IsFiniteSet(Task)
<1>1. IsFiniteSet(1 .. MaxBatch) /\ IsFiniteSet(Job)
    BY PoolAssumption, FS_Interval DEF Job
<1> QED BY <1>1, FS_Product DEF Task

(* There are finitely many outstanding tasks, so they can be counted. *)
LEMMA OutstandingFinite ==
    IsFiniteSet(Outstanding) /\ Cardinality(Outstanding) \in Nat
<1>1. Outstanding \subseteq Task
    BY DEF Outstanding
<1> QED BY <1>1, TaskFinite, FS_Subset, FS_CardinalityType

(* A step that adds no task to be counted keeps the count. *)
LEMMA CountFrame ==
    ASSUME TypeOK, Count, Outstanding' \subseteq Outstanding, todo' = todo
    PROVE  Count'
<1>1. IsFiniteSet(Outstanding')
    BY OutstandingFinite, FS_Subset
<1>2. Cardinality(Outstanding') <= Cardinality(Outstanding)
    BY OutstandingFinite, FS_Subset
<1>3. Cardinality(Outstanding') \in Nat
    BY <1>1, FS_CardinalityType
<1> QED BY <1>2, <1>3, OutstandingFinite DEF Count, TypeOK
-----------------------------------------------------------------------------
(* Every step keeps the types. *)
LEMMA TypeStep ==
    ASSUME Inv, [Next]_vars
    PROVE  TypeOK'
<1> USE PoolAssumption DEF manager, main, workers, history
<1>0. TypeOK
    BY DEF Inv
<1>1. CASE Push
    BY <1>0, <1>1 DEF Push, TypeOK, MainSteps
<1>2. CASE Enqueue
    <2>a. push_idx \in Nat /\ push_idx + 1 \in Nat
        BY <1>0 DEF TypeOK
    <2>1. push_idx % N \in Worker /\ push_idx + 1 \in Nat
        BY <2>a, VictimType, Zenon
    <2>2. <<batch, next>> \in Task
        BY <1>0, <1>2, TaskPair DEF Enqueue, Inv, Progress, TypeOK, Job
    <2>3. queue' \in [Worker -> Seq(Task)]
        BY <1>0, <1>2, <2>1, <2>2 DEF Enqueue, TypeOK
    <2>4. next' \in 1 .. TaskCount + 1
        BY <1>0, <1>2 DEF Enqueue, Inv, Progress, TypeOK
    <2> QED BY <1>0, <1>2, <2>1, <2>3, <2>4 DEF Enqueue, TypeOK, MainSteps
<1>3. CASE Pushed \/ PollDone
    BY <1>0, <1>3 DEF Pushed, PollDone, TypeOK, MainSteps
<1>4. CASE GetResults
    <2>1. batch' \in 1 .. MaxBatch + 1 /\ next' \in 1 .. TaskCount + 1
        BY <1>0, <1>4 DEF GetResults, Inv, Progress, TypeOK
    <2> QED BY <1>0, <1>4, <2>1 DEF GetResults, TypeOK, MainSteps
<1>5. CASE MainStops \/ MainStopsQueue
    BY <1>0, <1>5 DEF MainStops, MainStopsQueue, SetStopped, StopQueue, TypeOK, MainSteps
<1>6. CASE MainJoins
    <2>1. joined' \in 0 .. N
        BY <1>0, <1>6 DEF MainJoins, JoinNext, TypeOK
    <2> QED BY <1>0, <1>6, <2>1 DEF MainJoins, TypeOK, MainSteps
<1>7. ASSUME NEW w \in Worker, Work(w)
      PROVE  TypeOK'
    <2>0. /\ pc \in [Worker -> WorkerSteps] /\ slot \in [Worker -> 0 .. N + 1]
          /\ seen \in [Worker -> Nat] /\ top \in [Worker -> Nat]
          /\ task \in [Worker -> Task \cup {<< >>}] /\ queue \in [Worker -> Seq(Task)]
        BY <1>0 DEF TypeOK
    <2>v. victim(w) \in Worker
        <3>1. w + slot[w] \in Nat
            <4>1. w \in Nat /\ slot[w] \in Nat
                BY <2>0 DEF Worker
            <4> QED BY <4>1
        <3> QED BY <3>1, VictimType, Zenon DEF victim
    <2>n. 0 \in 0 .. N + 1 /\ \A k \in 0 .. N + 1 : k <= N => k + 1 \in 0 .. N + 1
        OBVIOUS
    <2>1. CASE LoopTop(w) \/ NothingPopped(w) \/ WorkerStops(w)
        BY <1>0, <2>0, <2>1
           DEF LoopTop, NothingPopped, WorkerStops, SetStopped, Goto, TypeOK, WorkerSteps
    <2>2. CASE WaitForJobs(w) \/ CheckDone(w)
        <3>1. slot' \in [Worker -> 0 .. N + 1]
            BY <2>0, <2>2, <2>n DEF WaitForJobs, CheckDone
        <3> QED BY <1>0, <2>0, <2>2, <3>1
                DEF WaitForJobs, CheckDone, Goto, TypeOK, WorkerSteps
    <2>3. CASE LoadIndices(w)
        <3>1. slot' \in [Worker -> 0 .. N + 1]
            <4>1. slot' = slot \/ slot' = [slot EXCEPT ![w] = slot[w] + 1]
                BY <2>3 DEF LoadIndices
            <4>2. slot[w] + 1 \in 0 .. N + 1
                BY <2>0, <2>3, <2>n DEF LoadIndices
            <4> QED BY <2>0, <4>1, <4>2
        <3>2. seen' \in [Worker -> Nat] /\ pc' \in [Worker -> WorkerSteps]
            BY <2>0, <2>3, <2>v DEF LoadIndices, Goto, WorkerSteps
        <3> QED BY <1>0, <2>3, <3>1, <3>2 DEF LoadIndices, TypeOK
    <2>4. CASE CompareExchange(w)
        <3>1. slot' \in [Worker -> 0 .. N + 1]
            <4>1. slot' = slot \/ slot' = [slot EXCEPT ![w] = slot[w] + 1]
                BY <2>4 DEF CompareExchange
            <4>2. pc[w] = "cas" /\ Casing
                BY <2>4 DEF CompareExchange, Inv
            <4>3. slot[w] \in 0 .. N + 1 /\ slot[w] <= N
                BY <2>0, <4>2 DEF Casing
            <4> QED BY <2>0, <2>n, <4>1, <4>3
        <3>p. pc' \in [Worker -> WorkerSteps]
            BY <2>0, <2>4 DEF CompareExchange, Goto, WorkerSteps
        <3>2. seen[w] + 1 \in 1 .. Len(queue[victim(w)])
            BY <2>0, <2>4, <2>v DEF CompareExchange, Inv, Casing
        <3>3. queue[victim(w)][seen[w] + 1] \in Task
            BY <2>0, <2>v, <3>2
        <3>4. task' \in [Worker -> Task \cup {<< >>}] /\ top' \in [Worker -> Nat]
            <4>1. CASE top[victim(w)] = seen[w]
                <5>1. /\ top' = [top EXCEPT ![victim(w)] = @ + 1]
                      /\ task' = [task EXCEPT ![w] = queue[victim(w)][seen[w] + 1]]
                    BY <2>4, <4>1 DEF CompareExchange
                <5>2. top[victim(w)] + 1 \in Nat
                    BY <2>0, <2>v
                <5> QED BY <2>0, <3>3, <5>1, <5>2
            <4>2. CASE top[victim(w)] # seen[w]
                BY <2>0, <2>4, <4>2 DEF CompareExchange
            <4> QED BY <4>1, <4>2
        <3> QED BY <1>0, <2>4, <3>1, <3>4, <3>p DEF CompareExchange, TypeOK
    <2>5. CASE CheckRunning(w)
        <3>1. task' \in [Worker -> Task \cup {<< >>}] /\ pc' \in [Worker -> WorkerSteps]
            BY <2>0, <2>5 DEF CheckRunning, Goto, WorkerSteps
        <3> QED BY <1>0, <2>5, <3>1 DEF CheckRunning, TypeOK
    <2>6. CASE RunTask(w)
        <3>1. task[w] \in Task
            BY <2>6 DEF RunTask, Inv, Held, Holding
        <3>2. started' \in [Task -> Nat] /\ finished' \subseteq Task
            BY <1>0, <2>6, <3>1 DEF RunTask, TypeOK
        <3>3. pc' \in [Worker -> WorkerSteps]
            BY <2>0, <2>6 DEF RunTask, Goto, WorkerSteps
        <3> QED BY <1>0, <2>6, <3>2, <3>3 DEF RunTask, TypeOK
    <2>7. CASE ReportSuccess(w)
        <3>1. /\ slot' \in [Worker -> 0 .. N + 1] /\ pc' \in [Worker -> WorkerSteps]
              /\ task' \in [Worker -> Task \cup {<< >>}]
            BY <2>0, <2>7 DEF ReportSuccess, Goto, WorkerSteps
        <3> QED BY <1>0, <2>7, <3>1 DEF ReportSuccess, TypeOK
    <2>8. CASE WorkerStopsQueue(w)
        <3>1. pc' \in [Worker -> WorkerSteps]
            BY <2>0, <2>8 DEF WorkerStopsQueue, Goto, WorkerSteps
        <3> QED BY <1>0, <2>8, <3>1 DEF WorkerStopsQueue, StopQueue, TypeOK
    <2>9. CASE WorkerJoins(w)
        <3>1. joined' \in 0 .. N
            BY <1>0, <2>9 DEF WorkerJoins, JoinNext, TypeOK
        <3>2. pc' \in [Worker -> WorkerSteps] /\ mpc' \in MainSteps
            BY <1>0, <2>0, <2>9 DEF WorkerJoins, WorkerSteps, MainSteps, TypeOK
        <3> QED BY <1>0, <2>9, <3>1, <3>2 DEF WorkerJoins, TypeOK
    <2> QED BY <1>7, <2>1, <2>2, <2>3, <2>4, <2>5, <2>6, <2>7, <2>8, <2>9 DEF Work
<1>8. CASE UNCHANGED vars
    BY <1>0, <1>8 DEF vars, TypeOK
<1> QED BY <1>1, <1>2, <1>3, <1>4, <1>5, <1>6, <1>7, <1>8 DEF Next, Main
(* What was popped stays popped, what was queued stays queued. *)
LEMMA QueuesGrow ==
    ASSUME Inv, [Next]_vars
    PROVE  /\ \A q \in Worker : /\ Len(queue'[q]) >= Len(queue[q]) /\ top'[q] >= top[q]
                                /\ \A k \in 1 .. Len(queue[q]) : queue'[q][k] = queue[q][k]
           /\ \A x : (Queued(x) => Queued(x)') /\ (Taken(x) => Taken(x)')
<1> USE DEF manager, main, workers, history
<1>0. /\ queue \in [Worker -> Seq(Task)] /\ top \in [Worker -> Nat]
      /\ \A q \in Worker : top[q] <= Len(queue[q])
    BY DEF Inv, TypeOK, Queues
<1>1. \A q \in Worker : /\ Len(queue'[q]) >= Len(queue[q]) /\ top'[q] >= top[q]
                        /\ \A k \in 1 .. Len(queue[q]) : queue'[q][k] = queue[q][k]
    <2>1. CASE UNCHANGED <<queue, top>>
        BY <1>0, <2>1
    <2>2. CASE Enqueue
        <3>1. PICK r : queue' = [queue EXCEPT ![r] = Append(@, <<batch, next>>)]
            BY <2>2 DEF Enqueue
        <3>2. top' = top
            BY <2>2 DEF Enqueue
        <3> QED BY <1>0, <3>1, <3>2
    <2>3. ASSUME NEW w \in Worker, CompareExchange(w), top[victim(w)] = seen[w]
          PROVE  \A q \in Worker : /\ Len(queue'[q]) >= Len(queue[q]) /\ top'[q] >= top[q]
                        /\ \A k \in 1 .. Len(queue[q]) : queue'[q][k] = queue[q][k]
        <3>1. PICK r : top' = [top EXCEPT ![r] = @ + 1]
            BY <2>3 DEF CompareExchange
        <3>2. queue' = queue
            BY <2>3 DEF CompareExchange
        <3> QED BY <1>0, <3>1, <3>2
    <2>4. ASSUME Main, ~Enqueue PROVE UNCHANGED <<queue, top>>
        BY <2>4 DEF Main, Push, Pushed, PollDone, GetResults, MainStops, SetStopped,
                    MainStopsQueue, StopQueue, MainJoins
    <2>5. ASSUME NEW w \in Worker, Work(w), ~(CompareExchange(w) /\ top[victim(w)] = seen[w])
          PROVE  UNCHANGED <<queue, top>>
        BY <2>5 DEF Work, LoopTop, WaitForJobs, LoadIndices, CompareExchange, CheckRunning,
                    NothingPopped, RunTask, ReportSuccess, CheckDone, WorkerStops,
                    SetStopped, WorkerStopsQueue, StopQueue, WorkerJoins
    <2> QED BY <2>1, <2>2, <2>3, <2>4, <2>5 DEF Next, vars
<1>2. queue' \in [Worker -> Seq(Task)] /\ top' \in [Worker -> Nat]
    BY TypeStep DEF TypeOK
<1>3. ASSUME NEW x, Queued(x) PROVE Queued(x)'
    <2>1. PICK q \in Worker : \E k \in 1 .. Len(queue[q]) : queue[q][k] = x
        BY <1>3 DEF Queued
    <2>2. PICK k \in 1 .. Len(queue[q]) : queue[q][k] = x
        BY <2>1
    <2>3. k \in 1 .. Len(queue'[q]) /\ queue'[q][k] = x
        BY <1>0, <1>1, <1>2, <2>2
    <2> QED BY <2>3 DEF Queued
<1>4. ASSUME NEW x, Taken(x) PROVE Taken(x)'
    <2>1. PICK q \in Worker : \E k \in 1 .. top[q] : queue[q][k] = x
        BY <1>4 DEF Taken
    <2>2. PICK k \in 1 .. top[q] : queue[q][k] = x
        BY <2>1
    <2>a. k \in 1 .. Len(queue[q])
        BY <1>0
    <2>b. k \in 1 .. top'[q]
        BY <1>0, <1>1, <1>2
    <2>3. k \in 1 .. top'[q] /\ queue'[q][k] = x
        BY <1>1, <2>2, <2>a, <2>b
    <2> QED BY <2>3 DEF Taken
<1> QED BY <1>1, <1>3, <1>4
(* A step that is none of Push, Enqueue, GetResults or a successful        *)
(* CompareExchange leaves the queues and the main thread's place in its    *)
(* batch alone.                                                            *)
LEMMA QueuesSteps ==
    ASSUME [Next]_vars
    PROVE  \/ UNCHANGED <<queue, top, batch, next>>
           \/ Push \/ Enqueue \/ GetResults
           \/ \E w \in Worker : CompareExchange(w) /\ top[victim(w)] = seen[w]
<1> USE DEF manager, main, workers, history
<1>1. ASSUME Main, ~Push, ~Enqueue, ~GetResults
      PROVE  UNCHANGED <<queue, top, batch, next>>
    BY <1>1 DEF Main, Pushed, PollDone, MainStops, SetStopped, MainStopsQueue,
                StopQueue, MainJoins
<1>2. ASSUME NEW w \in Worker, Work(w), ~(CompareExchange(w) /\ top[victim(w)] = seen[w])
      PROVE  UNCHANGED <<queue, top, batch, next>>
    BY <1>2 DEF Work, LoopTop, WaitForJobs, LoadIndices, CompareExchange, CheckRunning,
                NothingPopped, RunTask, ReportSuccess, CheckDone, WorkerStops,
                SetStopped, WorkerStopsQueue, StopQueue, WorkerJoins
<1>3. CASE UNCHANGED vars
    BY <1>3 DEF vars
<1> QED BY <1>1, <1>2, <1>3 DEF Next

(* The main thread pushes each task once, and a queue is not popped beyond *)
(* its end.                                                                *)
LEMMA QueuesStep ==
    ASSUME Inv, [Next]_vars
    PROVE  Queues'
<1> USE DEF manager, main, workers, history
<1>0. /\ queue \in [Worker -> Seq(Task)] /\ top \in [Worker -> Nat] /\ Queues
      /\ batch \in Nat /\ next \in Nat
      /\ \A q \in Worker : \A k \in 1 .. Len(queue[q]) :
            queue[q][k] \in Task /\ queue[q][k][1] \in Nat /\ queue[q][k][2] \in Nat
    <2>1. /\ queue \in [Worker -> Seq(Task)] /\ top \in [Worker -> Nat] /\ Queues
          /\ batch \in Nat /\ next \in Nat
        BY PoolAssumption DEF Inv, TypeOK
    <2>2. \A x \in Task : x[1] \in Nat /\ x[2] \in Nat
        BY TaskPair DEF Job
    <2> QED BY <2>1, <2>2
<1>1. CASE UNCHANGED <<queue, top, batch, next>>
    BY <1>0, <1>1, QueuesFrame
<1>2. CASE Push
    <2>1. UNCHANGED <<queue, top, batch>> /\ next' \in Nat /\ next' >= next
        BY <1>0, <1>2 DEF Push
    <2> QED BY <1>0, <2>1 DEF Queues
<1>3. CASE GetResults
    <2>1. UNCHANGED <<queue, top>> /\ batch' = batch + 1
        BY <1>3 DEF GetResults
    <2> QED BY <1>0, <2>1 DEF Queues
<1>4. CASE Enqueue
    <2> DEFINE r == push_idx % N
               n == Len(queue[r]) + 1
    <2>1. /\ queue' = [queue EXCEPT ![r] = Append(@, <<batch, next>>)]
          /\ UNCHANGED <<top, batch>> /\ next' = next + 1
        BY <1>4 DEF Enqueue
    <2>2. r \in Worker
        <3>1. push_idx \in Nat
            BY DEF Inv, TypeOK
        <3> QED BY <3>1, VictimType, Zenon
    <2> HIDE DEF r
    <2>3. /\ Len(queue'[r]) = n /\ queue'[r][n] = <<batch, next>>
          /\ \A k \in 1 .. Len(queue[r]) : queue'[r][k] = queue[r][k]
          /\ \A q \in Worker \ {r} : queue'[q] = queue[q]
          /\ n \in Nat
        BY <1>0, <2>1, <2>2
    <2>4. \A q \in Worker : \A k \in 1 .. Len(queue'[q]) :
             \/ q = r /\ k = n /\ queue'[q][k] = <<batch, next>>
             \/ k \in 1 .. Len(queue[q]) /\ queue'[q][k] = queue[q][k]
        BY <1>0, <2>2, <2>3
    <2>5. \A q \in Worker : \A k \in 1 .. Len(queue[q]) : queue[q][k] # <<batch, next>>
        BY <1>0 DEF Queues
    <2>6. \A q \in Worker : top'[q] <= Len(queue'[q])
        BY <1>0, <2>1, <2>2, <2>3 DEF Queues
    <2>7. \A q \in Worker : \A k \in 1 .. Len(queue'[q]) :
             queue'[q][k][1] < batch'
               \/ (queue'[q][k][1] = batch' /\ queue'[q][k][2] < next')
        BY <1>0, <2>1, <2>4 DEF Queues
    <2>8. ASSUME NEW q \in Worker, NEW k \in 1 .. Len(queue'[q]),
                 NEW s \in Worker, NEW l \in 1 .. Len(queue'[s]),
                 queue'[q][k] = queue'[s][l]
          PROVE  q = s /\ k = l
        <3>1. CASE queue'[q][k] = <<batch, next>>
            <4>1. q = r /\ k = n
                BY <2>4, <2>5, <3>1
            <4>2. s = r /\ l = n
                BY <2>4, <2>5, <2>8, <3>1
            <4> QED BY <4>1, <4>2
        <3>2. CASE queue'[q][k] # <<batch, next>>
            <4>1. k \in 1 .. Len(queue[q]) /\ queue'[q][k] = queue[q][k]
                BY <2>4, <3>2
            <4>2. l \in 1 .. Len(queue[s]) /\ queue'[s][l] = queue[s][l]
                BY <2>4, <2>8, <3>2
            <4>3. queue[q][k] = queue[s][l]
                BY <2>8, <4>1, <4>2
            <4>4. \A r1, r2 \in Worker :
                     \A k1 \in 1 .. Len(queue[r1]) : \A k2 \in 1 .. Len(queue[r2]) :
                         queue[r1][k1] = queue[r2][k2] => r1 = r2 /\ k1 = k2
                <5> SUFFICES ASSUME NEW r1 \in Worker, NEW r2 \in Worker,
                                    NEW k1 \in 1 .. Len(queue[r1]),
                                    NEW k2 \in 1 .. Len(queue[r2]),
                                    queue[r1][k1] = queue[r2][k2]
                             PROVE  r1 = r2 /\ k1 = k2
                    OBVIOUS
                <5>1. Queues
                    BY <1>0
                <5> QED BY <5>1 DEF Queues
            <4> QED BY <4>1, <4>2, <4>3, <4>4, Zenon
        <3> QED BY <3>1, <3>2
    <2> QED BY <2>6, <2>7, <2>8 DEF Queues
<1>5. ASSUME NEW w \in Worker, CompareExchange(w), top[victim(w)] = seen[w]
      PROVE  Queues'
    <2>1. PICK r : r = victim(w)
        OBVIOUS
    <2>2. top' = [top EXCEPT ![r] = @ + 1] /\ UNCHANGED <<queue, batch, next>>
        BY <1>5, <2>1 DEF CompareExchange
    <2>3. top[r] < Len(queue[r])
        BY <1>5, <2>1 DEF CompareExchange, Inv, Casing
    <2> QED BY <1>0, <2>2, <2>3 DEF Queues
<1> QED BY <1>1, <1>2, <1>3, <1>4, <1>5, QueuesSteps
(* A task that is popped has not been run and is nobody else's. *)
LEMMA FreshTask ==
    ASSUME Inv, NEW q \in Worker, top[q] < Len(queue[q])
    PROVE  LET x == queue[q][top[q] + 1]
           IN  /\ x \in Task /\ ~Taken(x) /\ started[x] = 0
               /\ \A v \in Worker : Holding(v) => task[v] # x
<1>0. /\ queue \in [Worker -> Seq(Task)] /\ top \in [Worker -> Nat]
      /\ started \in [Task -> Nat]
    BY DEF Inv, TypeOK
<1> DEFINE x == queue[q][top[q] + 1]
<1>1. top[q] + 1 \in 1 .. Len(queue[q]) /\ x \in Task
    BY <1>0
<1>2. ~Taken(x)
    <2> SUFFICES ASSUME NEW r \in Worker, NEW k \in 1 .. top[r], queue[r][k] = x
                 PROVE  FALSE
        BY DEF Taken
    <2>1. k \in 1 .. Len(queue[r])
        BY <1>0 DEF Inv, Queues
    <2>2. r = q /\ k = top[q] + 1
        BY <1>1, <2>1 DEF Inv, Queues
    <2> QED BY <1>0, <2>2
<1> HIDE DEF x
<1>3. started[x] = 0
    BY <1>0, <1>1, <1>2 DEF Inv, Runs
<1>4. \A v \in Worker : Holding(v) => task[v] # x
    BY <1>2 DEF Inv, Held
<1> QED BY <1>1, <1>2, <1>3, <1>4 DEF x

(* Every step keeps each worker's task its own. *)
LEMMA WorkersStep ==
    ASSUME Inv, [Next]_vars
    PROVE  Casing' /\ Held' /\ Own' /\ Runs'
<1> USE DEF manager, main, workers, history
<1>0. /\ Casing /\ Held /\ Own /\ Runs
      /\ pc \in [Worker -> WorkerSteps] /\ slot \in [Worker -> 0 .. N + 1]
      /\ seen \in [Worker -> Nat] /\ top \in [Worker -> Nat]
      /\ task \in [Worker -> Task \cup {<< >>}] /\ queue \in [Worker -> Seq(Task)]
      /\ started \in [Task -> Nat] /\ finished \subseteq Task
    BY DEF Inv, TypeOK
<1>1. CASE UNCHANGED <<queue, top, pc, slot, seen, task, started, finished>>
    BY <1>0, <1>1, WorkersFrame, RunsFrame
<1>2. CASE Enqueue
    <2>1. UNCHANGED <<pc, slot, seen, task, started, finished>>
        BY <1>2 DEF Enqueue
    <2>2. /\ \A q \in Worker : Len(queue'[q]) >= Len(queue[q])
          /\ \A x : Taken(x) => Taken(x)'
        BY QueuesGrow
    <2>3. queue' \in [Worker -> Seq(Task)]
        BY TypeStep DEF TypeOK
    <2>4. Casing'
        <3>1. ASSUME NEW w \in Worker, pc[w] = "cas"
              PROVE  seen[w] < Len(queue'[victim(w)])
            <4>1. w + slot[w] \in Nat
                BY <1>0 DEF Worker
            <4>2. victim(w) \in Worker
                BY <4>1, VictimType, Zenon DEF victim
            <4> QED BY <1>0, <2>2, <2>3, <3>1, <4>2 DEF Casing
        <3> QED BY <1>0, <2>1, <3>1 DEF Casing, victim
    <2>5. Held'
        BY <1>0, <2>1, <2>2 DEF Held, Holding
    <2>6. Own'
        BY <1>0, <2>1 DEF Own, Holding
    <2>7. Runs'
        BY <1>0, <2>1, <2>2 DEF Runs
    <2> QED BY <2>4, <2>5, <2>6, <2>7
<1>3. ASSUME NEW w \in Worker,
             LoopTop(w) \/ WaitForJobs(w) \/ NothingPopped(w) \/ CheckDone(w)
               \/ CheckRunning(w) \/ ReportSuccess(w)
      PROVE  Casing' /\ Held' /\ Own' /\ Runs'
    <2>1. UNCHANGED <<queue, top, started, finished>>
        BY <1>3 DEF LoopTop, WaitForJobs, NothingPopped, CheckDone, CheckRunning, ReportSuccess
    <2>2. \A v \in Worker \ {w} : /\ pc'[v] = pc[v] /\ slot'[v] = slot[v]
                                  /\ seen'[v] = seen[v] /\ task'[v] = task[v]
        BY <1>0, <1>3 DEF LoopTop, WaitForJobs, NothingPopped, CheckDone, CheckRunning,
                          ReportSuccess, Goto
    <2>3. /\ pc'[w] # "cas"
          /\ \/ pc'[w] \notin {"popped", "run", "report"} \cup ExitSteps
             \/ task'[w] = task[w] /\ pc[w] = "popped" /\ pc'[w] = "run"
        BY <1>0, <1>3 DEF LoopTop, WaitForJobs, NothingPopped, CheckDone, CheckRunning,
                          ReportSuccess, Goto, ExitSteps
    <2> QED BY <1>0, <2>1, <2>2, <2>3, MoveWorker, RunsFrame
<1>4. ASSUME NEW w \in Worker, WorkerStops(w) \/ WorkerStopsQueue(w)
      PROVE  Casing' /\ Held' /\ Own' /\ Runs'
    <2>1. UNCHANGED <<queue, top, slot, seen, task, started, finished>>
        BY <1>4 DEF WorkerStops, WorkerStopsQueue, SetStopped, StopQueue
    <2>2. /\ \A v \in Worker \ {w} : pc'[v] = pc[v]
          /\ pc[w] \in ExitSteps /\ pc'[w] \in ExitSteps
        BY <1>0, <1>4 DEF WorkerStops, WorkerStopsQueue, Goto, ExitSteps
    <2>3. pc'[w] # "cas"
        BY <2>2 DEF ExitSteps
    <2> QED BY <1>0, <2>1, <2>2, <2>3, MoveWorker, RunsFrame
<1>5. ASSUME NEW w \in Worker, LoadIndices(w)
      PROVE  Casing' /\ Held' /\ Own' /\ Runs'
    <2>1. UNCHANGED <<queue, top, task, started, finished>> /\ pc[w] = "pop" /\ slot[w] <= N
        BY <1>5 DEF LoadIndices
    <2>2. /\ \A v \in Worker \ {w} : /\ pc'[v] = pc[v] /\ slot'[v] = slot[v]
                                     /\ seen'[v] = seen[v]
          /\ pc'[w] \in {"pop", "cas"}
        BY <1>0, <1>5 DEF LoadIndices, Goto
    <2>3. ASSUME pc'[w] = "cas"
          PROVE  slot'[w] <= N /\ seen'[w] < Len(queue[victim(w)]')
        <3>1. top[victim(w)] < Len(queue[victim(w)])
            BY <1>5, <2>1, <2>3 DEF LoadIndices
        <3>2. seen'[w] = top[victim(w)] /\ slot' = slot
            BY <1>0, <1>5, <3>1 DEF LoadIndices
        <3> QED BY <2>1, <3>1, <3>2 DEF victim
    <2>4. pc'[w] \notin {"popped", "run", "report"} \cup ExitSteps
        BY <2>2 DEF ExitSteps
    <2> QED BY <1>0, <2>1, <2>2, <2>3, <2>4, MoveWorker, RunsFrame
<1>6. ASSUME NEW w \in Worker, CompareExchange(w)
      PROVE  Casing' /\ Held' /\ Own' /\ Runs'
    <2>0. UNCHANGED <<queue, seen, started, finished>> /\ pc[w] = "cas"
        BY <1>6 DEF CompareExchange
    <2>1. CASE top[victim(w)] # seen[w]
        <3>1. /\ UNCHANGED <<top, task>> /\ pc'[w] = "pop"
              /\ \A v \in Worker \ {w} : pc'[v] = pc[v] /\ slot'[v] = slot[v]
            BY <1>0, <1>6, <2>1 DEF CompareExchange, Goto
        <3>2. pc'[w] \notin {"popped", "run", "report"} \cup ExitSteps /\ pc'[w] # "cas"
            BY <3>1 DEF ExitSteps
        <3> QED BY <1>0, <2>0, <3>1, <3>2, MoveWorker, RunsFrame
    <2>2. CASE top[victim(w)] = seen[w]
        <3>1. PICK q \in Worker : q = victim(w)
            <4>1. w + slot[w] \in Nat
                BY <1>0 DEF Worker
            <4> QED BY <4>1, VictimType, Zenon DEF victim
        <3>2. top[q] < Len(queue[q]) /\ seen[w] = top[q]
            BY <1>0, <2>0, <2>2, <3>1 DEF Casing
        <3>3. PICK x : x = queue[q][top[q] + 1]
            OBVIOUS
        <3>4. /\ task' = [task EXCEPT ![w] = x] /\ top' = [top EXCEPT ![q] = @ + 1]
              /\ pc' = [pc EXCEPT ![w] = "popped"] /\ slot' = slot
            BY <1>6, <2>2, <3>1, <3>2, <3>3 DEF CompareExchange, Goto
        <3>5. x \in Task /\ started[x] = 0 /\ \A v \in Worker : Holding(v) => task[v] # x
            BY <3>2, <3>3, FreshTask
        <3>6. Taken(x)' /\ \A y : Taken(y) => Taken(y)'
            <4>1. top[q] + 1 \in 1 .. top'[q] /\ queue'[q][top[q] + 1] = x
                BY <1>0, <2>0, <3>3, <3>4
            <4> QED BY <4>1, QueuesGrow DEF Taken
        <3>7. Casing'
            BY <1>0, <2>0, <3>4 DEF Casing, victim
        <3>8. Held'
            BY <1>0, <2>0, <3>4, <3>5, <3>6 DEF Held, Holding, ExitSteps
        <3>9. \A v \in Worker \ {w} : (Holding(v)' <=> Holding(v)) /\ task'[v] = task[v]
            BY <1>0, <3>4 DEF Holding
        <3>10. Own'
            BY <1>0, <3>4, <3>5, <3>9 DEF Own
        <3>11. Runs'
            BY <1>0, <2>0, <3>6 DEF Runs
        <3> QED BY <3>7, <3>8, <3>10, <3>11
    <2> QED BY <2>1, <2>2
<1>7. ASSUME NEW w \in Worker, RunTask(w)
      PROVE  Casing' /\ Held' /\ Own' /\ Runs'
    <2>1. /\ UNCHANGED <<queue, top, slot, seen, task>> /\ pc[w] = "run"
          /\ started' = [started EXCEPT ![task[w]] = @ + 1]
          /\ \/ pc' = [pc EXCEPT ![w] = "report"] /\ finished' = finished \cup {task[w]}
             \/ pc' = [pc EXCEPT ![w] = "stop"] /\ finished' = finished
        BY <1>7 DEF RunTask, Goto
    <2>2. /\ task[w] \in Task /\ Taken(task[w]) /\ started[task[w]] = 0
          /\ \A v \in Worker \ {w} : Holding(v) => task[v] # task[w]
        BY <1>0, <2>1 DEF Held, Holding, Own
    <2>3. task[w] \notin finished
        BY <1>0, <2>2 DEF Runs
    <2>4. \A x : Taken(x)' = Taken(x)
        BY <2>1 DEF Taken
    <2>5. Casing'
        BY <1>0, <2>1 DEF Casing, victim
    <2>6. Held'
        BY <1>0, <2>1, <2>2, <2>3, <2>4 DEF Held, Holding, ExitSteps
    <2>7. \A v \in Worker : Holding(v)' => Holding(v)
        BY <1>0, <2>1 DEF Holding, ExitSteps
    <2>8. Own'
        BY <1>0, <2>1, <2>7 DEF Own
    <2>9. Runs'
        BY <1>0, <2>1, <2>2, <2>4 DEF Runs
    <2> QED BY <2>5, <2>6, <2>8, <2>9
<1>8. ASSUME NEW w \in Worker, WorkerJoins(w)
      PROVE  Casing' /\ Held' /\ Own' /\ Runs'
    <2>1. UNCHANGED <<queue, top, slot, seen, task, started, finished>>
        BY <1>8 DEF WorkerJoins
    <2>2. CASE UNCHANGED pc
        BY <1>1, <2>1, <2>2
    <2>3. CASE pc' = [v \in Worker |-> "aborted"]
        BY <1>0, <2>1, <2>3, RunsFrame DEF Casing, Held, Own, Holding, ExitSteps
    <2> QED BY <1>8, <2>2, <2>3 DEF WorkerJoins
<1>9. ASSUME Main, ~Enqueue
      PROVE  UNCHANGED <<queue, top, pc, slot, seen, task, started, finished>>
    BY <1>9 DEF Main, Push, Pushed, PollDone, GetResults, MainStops, SetStopped,
                MainStopsQueue, StopQueue, MainJoins
<1>10. CASE UNCHANGED vars
    BY <1>1, <1>10 DEF vars
<1> QED BY <1>1, <1>2, <1>3, <1>4, <1>5, <1>6, <1>7, <1>8, <1>9, <1>10 DEF Next, Work
-----------------------------------------------------------------------------
(* done() holds only when there is nothing left to report. *)
LEMMA NoneOutstanding ==
    ASSUME TypeOK, Count, todo <= 0
    PROVE  Outstanding = {}
<1>1. Cardinality(Outstanding) = 0
    BY OutstandingFinite DEF Count, TypeOK
<1> QED BY <1>1, OutstandingFinite, FS_EmptySet

(* A popped task is in a queue, and so is a task that was run. *)
LEMMA TakenQueued ==
    ASSUME Inv, NEW x, Taken(x)
    PROVE  Queued(x)
<1>1. PICK q \in Worker : \E k \in 1 .. top[q] : queue[q][k] = x
    BY DEF Taken
<1>2. PICK k \in 1 .. top[q] : queue[q][k] = x
    BY <1>1
<1>3. k \in 1 .. Len(queue[q])
    BY DEF Inv, TypeOK, Queues
<1> QED BY <1>2, <1>3 DEF Queued

(* The task that calls exit(-1) is still to be reported. *)
LEMMA ExitOutstanding ==
    ASSUME Inv, Exiting, mpc # "aborted"
    PROVE  Outstanding # {}
<1>1. PICK w \in Worker : pc[w] \in ExitSteps
    BY DEF Exiting, Inv, Stopping, ExitSteps
<1>2. task[w] \in Task /\ Taken(task[w]) /\ task[w] \notin finished
    BY <1>1 DEF Inv, Held, Holding
<1>3. Queued(task[w])
    BY <1>2, TakenQueued
<1>4. task[w] \in Outstanding
    BY <1>2, <1>3 DEF Outstanding
<1> QED BY <1>4

(* A task that is about to run belongs to the present batch and has not    *)
(* finished: the main thread is not past its polling loop.                 *)
LEMMA RunningTask ==
    ASSUME Inv, NEW w \in Worker, pc[w] = "run"
    PROVE  /\ task[w] \in Task /\ task[w] \notin finished /\ task[w][1] = batch
           /\ batch <= MaxBatch
           /\ mpc \in {"push", "enqueue", "poll", "aborted"}
<1>1. task[w] \in Task /\ Taken(task[w]) /\ started[task[w]] = 0
    BY DEF Inv, Held, Holding
<1>2. task[w] \notin finished
    BY <1>1 DEF Inv, Runs
<1>3. Queued(task[w])
    BY <1>1, TakenQueued
<1>4. PICK q \in Worker : \E k \in 1 .. Len(queue[q]) : queue[q][k] = task[w]
    BY <1>3 DEF Queued
<1>5. task[w][1] < batch \/ task[w][1] = batch
    BY <1>4 DEF Inv, Queues
<1>6. task[w][1] = batch
    BY <1>1, <1>2, <1>5 DEF Inv, Progress
<1>7. batch <= MaxBatch /\ batch \in Nat /\ MaxBatch \in Nat
    <2>1. task[w][1] \in 1 .. MaxBatch
        BY <1>1, TaskPair
    <2>2. MaxBatch \in Nat
        BY PoolAssumption
    <2> QED BY <1>6, <2>1, <2>2
<1>8. mpc \notin {"get", "stop", "stopQueues", "join", "ended"}
    BY <1>1, <1>2, <1>6, <1>7 DEF Inv, Progress
<1> QED BY <1>1, <1>2, <1>6, <1>7, <1>8 DEF Inv, TypeOK, MainSteps

(* Main counts batches and tasks up in step: what it has enqueued and what *)
(* it waits for keep Progress.                                             *)
LEMMA ProgressStep ==
    ASSUME Inv, [Next]_vars
    PROVE  Progress'
<1> USE DEF manager, main, workers, history
<1>0. /\ Progress /\ batch \in 1 .. MaxBatch + 1 /\ next \in 1 .. TaskCount + 1
      /\ TaskCount \in Nat /\ MaxBatch \in Nat
    BY PoolAssumption DEF Inv, TypeOK
<1>1. CASE UNCHANGED <<mpc, batch, next>> /\ finished \subseteq finished'
    BY <1>0, <1>1 DEF Progress
<1>2. CASE Push
    BY <1>0, <1>2 DEF Push, Progress
<1>3. CASE Enqueue
    BY <1>0, <1>3 DEF Enqueue, Progress
<1>4. CASE Pushed
    BY <1>0, <1>4 DEF Pushed, Progress
<1>5. CASE PollDone
    <2>1. mpc = "poll" /\ mpc' = "get" /\ UNCHANGED <<batch, next, finished>> /\ todo <= 0
        BY <1>5 DEF PollDone
    <2>2. Outstanding = {}
        BY <2>1, NoneOutstanding DEF Inv
    <2>3. ~Exiting
        BY <2>1, <2>2, ExitOutstanding
    <2>4. ASSUME NEW x \in Task, x[1] = batch PROVE x \in finished
        <3>1. x = <<batch, x[2]>> /\ x[2] \in Job /\ x[2] < next
            BY <1>0, <2>1, <2>4, TaskPair DEF Progress, Job
        <3>2. Queued(x)
            BY <2>1, <2>3, <3>1 DEF Inv, Stopping
        <3> QED BY <2>2, <3>2 DEF Outstanding
    <2> QED BY <1>0, <2>1, <2>4 DEF Progress
<1>6. CASE GetResults
    <2>1. /\ mpc = "get" /\ batch' = batch + 1 /\ UNCHANGED finished
          /\ mpc' = IF batch < MaxBatch THEN "push" ELSE "stop"
        BY <1>6 DEF GetResults
    <2>2. \A x \in Task : x[1] \in Nat
        BY TaskPair
    <2> QED BY <1>0, <2>1, <2>2 DEF Progress
<1>7. CASE MainStops \/ MainStopsQueue \/ MainJoins
    BY <1>0, <1>7 DEF MainStops, MainStopsQueue, MainJoins, Progress
<1>8. ASSUME NEW w \in Worker, Work(w), ~WorkerJoins(w)
      PROVE  UNCHANGED <<mpc, batch, next>> /\ finished \subseteq finished'
    BY <1>8 DEF Work, LoopTop, WaitForJobs, LoadIndices, CompareExchange, CheckRunning,
                NothingPopped, RunTask, ReportSuccess, CheckDone, WorkerStops,
                WorkerStopsQueue
<1>9. ASSUME NEW w \in Worker, WorkerJoins(w)
      PROVE  Progress'
    BY <1>0, <1>9 DEF WorkerJoins, Progress
<1>10. CASE UNCHANGED vars
    BY <1>1, <1>10 DEF vars
<1> QED BY <1>1, <1>2, <1>3, <1>4, <1>5, <1>6, <1>7, <1>8, <1>9, <1>10 DEF Next, Main

(* Once a worker has called exit main never gets past the poll loop, and   *)
(* exit is never taken back.                                               *)
LEMMA ExitStep ==
    ASSUME Inv, [Next]_vars
    PROVE  ExitHoldsMain' /\ (Exiting => Exiting')
<1> USE DEF manager, main, workers, history
<1>0. ExitHoldsMain /\ pc \in [Worker -> WorkerSteps]
    BY DEF Inv, TypeOK
<1>1. CASE Main
    <2>1. UNCHANGED pc
        BY <1>1 DEF Main, Push, Enqueue, Pushed, PollDone, GetResults, MainStops,
                    MainStopsQueue, MainJoins
    <2>2. Exiting' = Exiting
        BY <2>1 DEF Exiting
    <2>3. ASSUME Exiting PROVE mpc' \in {"push", "enqueue", "poll", "aborted"}
        <3>1. mpc \in {"push", "enqueue", "poll", "aborted"}
            BY <1>0, <2>3 DEF ExitHoldsMain
        <3>2. ~PollDone
            <4> SUFFICES ASSUME PollDone PROVE FALSE
                OBVIOUS
            <4>1. Outstanding # {}
                BY <2>3, ExitOutstanding DEF PollDone
            <4> QED BY <4>1, NoneOutstanding DEF PollDone, Inv
        <3> QED BY <1>1, <3>1, <3>2 DEF Main, Push, Enqueue, Pushed, GetResults, MainStops,
                    MainStopsQueue, MainJoins
    <2> QED BY <2>2, <2>3 DEF ExitHoldsMain
<1>2. ASSUME NEW w \in Worker, RunTask(w)
      PROVE  ExitHoldsMain' /\ (Exiting => Exiting')
    <2>1. mpc \in {"push", "enqueue", "poll", "aborted"} /\ mpc' = mpc
        BY <1>2, RunningTask DEF RunTask
    <2>2. Exiting => Exiting'
        BY <1>0, <1>2 DEF RunTask, Goto, Exiting
    <2> QED BY <2>1, <2>2 DEF ExitHoldsMain
<1>3. ASSUME NEW w \in Worker, Work(w), ~RunTask(w), ~WorkerJoins(w)
      PROVE  ExitHoldsMain' /\ (Exiting => Exiting')
    <2>1. mpc' = mpc
        BY <1>3 DEF Work, LoopTop, WaitForJobs, LoadIndices, CompareExchange, CheckRunning,
                    NothingPopped, ReportSuccess, CheckDone, WorkerStops, WorkerStopsQueue
    <2>2. /\ \A v \in Worker \ {w} : pc'[v] = pc[v]
          /\ \/ pc[w] \in ExitSteps /\ pc'[w] \in ExitSteps
             \/ /\ pc[w] \notin ExitSteps \cup {"aborted"}
                /\ pc'[w] \notin ExitSteps \cup {"aborted"}
        <3>1. CASE WorkerStops(w) \/ WorkerStopsQueue(w)
            BY <1>0, <3>1 DEF WorkerStops, WorkerStopsQueue, Goto, ExitSteps
        <3>2. CASE LoopTop(w) \/ WaitForJobs(w) \/ LoadIndices(w) \/ CompareExchange(w)
            BY <1>0, <3>2
               DEF LoopTop, WaitForJobs, LoadIndices, CompareExchange, Goto, ExitSteps
        <3>3. CASE CheckRunning(w) \/ NothingPopped(w) \/ ReportSuccess(w) \/ CheckDone(w)
            BY <1>0, <3>3
               DEF CheckRunning, NothingPopped, ReportSuccess, CheckDone, Goto, ExitSteps
        <3> QED BY <1>3, <3>1, <3>2, <3>3 DEF Work
    <2>3. Exiting' <=> Exiting
        BY <2>2 DEF Exiting, ExitSteps
    <2> QED BY <1>0, <2>1, <2>3 DEF ExitHoldsMain
<1>4. ASSUME NEW w \in Worker, WorkerJoins(w)
      PROVE  ExitHoldsMain' /\ (Exiting => Exiting')
    <2>1. CASE joined = w
        BY <1>4, <2>1 DEF WorkerJoins, Exiting, ExitHoldsMain
    <2>2. CASE joined # w
        BY <1>0, <1>4, <2>2 DEF WorkerJoins, Exiting, ExitHoldsMain
    <2> QED BY <2>1, <2>2
<1>5. CASE UNCHANGED vars
    BY <1>0, <1>5 DEF vars, ExitHoldsMain, Exiting
<1> QED BY <1>1, <1>2, <1>3, <1>4, <1>5 DEF Next
(* Only Enqueue makes a task queued, and it is the one that was counted.   *)
LEMMA QueuedStep ==
    ASSUME Inv, [Next]_vars, NEW x, Queued(x)'
    PROVE  Queued(x) \/ (Enqueue /\ x = <<batch, next>>)
<1> USE DEF manager, main, workers, history
<1>1. CASE UNCHANGED queue
    BY <1>1 DEF Queued
<1>2. CASE Enqueue
    <2>0. queue \in [Worker -> Seq(Task)] /\ push_idx \in Nat
        BY DEF Inv, TypeOK
    <2>1. push_idx % N \in Worker
        BY <2>0, VictimType, Zenon
    <2>2. PICK r \in Worker : queue' = [queue EXCEPT ![r] = Append(@, <<batch, next>>)]
        BY <1>2, <2>1 DEF Enqueue
    <2>3. PICK q \in Worker : \E k \in 1 .. Len(queue'[q]) : queue'[q][k] = x
        BY DEF Queued
    <2>4. PICK k \in 1 .. Len(queue'[q]) : queue'[q][k] = x
        BY <2>3
    <2>5. queue'[q] = IF q = r THEN Append(queue[r], <<batch, next>>) ELSE queue[q]
        BY <2>0, <2>2
    <2>6. x = <<batch, next>> \/ (k \in 1 .. Len(queue[q]) /\ queue[q][k] = x)
        BY <2>0, <2>4, <2>5
    <2> QED BY <1>2, <2>6 DEF Queued
<1>3. CASE Push \/ GetResults
    BY <1>1, <1>3 DEF Push, GetResults
<1>4. ASSUME NEW w \in Worker, CompareExchange(w)
      PROVE  UNCHANGED queue
    BY <1>4 DEF CompareExchange
<1> QED BY <1>1, <1>2, <1>3, <1>4, QueuesSteps

(* Without an enqueue, and with nobody new about to report, no task        *)
(* becomes outstanding.                                                    *)
LEMMA OutstandingFrame ==
    ASSUME Inv, [Next]_vars, ~Enqueue, finished \subseteq finished',
           mpc' = "enqueue" => mpc = "enqueue" /\ UNCHANGED <<batch, next>>,
           \A v \in Worker : pc'[v] = "report" => pc[v] = "report" /\ task'[v] = task[v]
    PROVE  Outstanding' \subseteq Outstanding
<1> SUFFICES ASSUME NEW x \in Outstanding' PROVE x \in Outstanding
    OBVIOUS
<1>1. /\ x \in Task
      /\ Queued(x)' \/ (mpc' = "enqueue" /\ x = <<batch', next'>>)
      /\ x \notin finished' \/ \E v \in Worker : pc'[v] = "report" /\ task'[v] = x
    BY DEF Outstanding
<1>2. Queued(x) \/ (mpc = "enqueue" /\ x = <<batch, next>>)
    BY <1>1, QueuedStep
<1>3. x \notin finished \/ \E v \in Worker : pc[v] = "report" /\ task[v] = x
    BY <1>1
<1> QED BY <1>1, <1>2, <1>3 DEF Outstanding

(* todo_ never counts too few: a task is counted before it is queued, and  *)
(* no longer counted only after it has returned.                           *)
LEMMA CountStep ==
    ASSUME Inv, [Next]_vars
    PROVE  Count'
<1> USE DEF manager, main, workers, history
<1>0. /\ TypeOK /\ Count /\ todo \in Int /\ pc \in [Worker -> WorkerSteps]
      /\ task \in [Worker -> Task \cup {<< >>}]
    BY DEF Inv, TypeOK
<1>1. CASE Outstanding' \subseteq Outstanding /\ todo' = todo
    BY <1>0, <1>1, CountFrame
<1>2. CASE Push
    <2>1. CASE status = "running"
        <3>1. /\ mpc' = "enqueue" /\ todo' = todo + 1
              /\ UNCHANGED <<batch, next, finished, pc, task>> /\ ~Enqueue
            BY <1>2, <2>1 DEF Push, Enqueue
        <3> DEFINE S == Outstanding \cup {<<batch, next>>}
        <3>2. Outstanding' \subseteq S
            <4> SUFFICES ASSUME NEW x \in Outstanding', x # <<batch, next>>
                         PROVE  x \in Outstanding
                OBVIOUS
            <4>1. /\ x \in Task /\ Queued(x)'
                  /\ x \notin finished \/ \E v \in Worker : pc[v] = "report" /\ task[v] = x
                BY <3>1 DEF Outstanding
            <4>2. Queued(x)
                BY <3>1, <4>1, QueuedStep
            <4> QED BY <4>1, <4>2 DEF Outstanding
        <3>3. IsFiniteSet(S) /\ Cardinality(S) <= Cardinality(Outstanding) + 1
              /\ Cardinality(S) \in Nat
            <4>1. IsFiniteSet(S) /\ Cardinality(S) = IF <<batch, next>> \in Outstanding
                                   THEN Cardinality(Outstanding)
                                   ELSE Cardinality(Outstanding) + 1
                BY OutstandingFinite, FS_AddElement
            <4> HIDE DEF S
            <4> QED BY <4>1, OutstandingFinite, FS_CardinalityType
        <3>4. Cardinality(Outstanding') <= Cardinality(S) /\ Cardinality(Outstanding') \in Nat
            BY <3>2, <3>3, FS_Subset, FS_CardinalityType
        <3> HIDE DEF S
        <3> QED BY <1>0, <3>1, <3>3, <3>4, OutstandingFinite DEF Count
    <2>2. CASE status # "running"
        <3>1. mpc' = "push" /\ UNCHANGED <<todo, finished, pc, task>> /\ ~Enqueue
            BY <1>2, <2>2 DEF Push, Enqueue
        <3> QED BY <1>1, <3>1, OutstandingFrame
    <2> QED BY <2>1, <2>2
<1>3. CASE Enqueue
    <2>1. UNCHANGED <<todo, finished, pc, task>> /\ mpc = "enqueue" /\ mpc' = "push"
        BY <1>3 DEF Enqueue
    <2>2. ASSUME NEW x \in Outstanding' PROVE x \in Outstanding
        BY <2>1, QueuedStep DEF Outstanding
    <2> QED BY <1>1, <2>1, <2>2
<1>4. CASE Pushed \/ PollDone \/ GetResults \/ MainStops \/ MainStopsQueue \/ MainJoins
    <2>1. /\ UNCHANGED <<todo, finished, pc, task>> /\ mpc' # "enqueue" /\ ~Enqueue
        BY <1>4 DEF Pushed, PollDone, GetResults, MainStops, SetStopped, MainStopsQueue,
                    StopQueue, MainJoins, Enqueue
    <2> QED BY <1>1, <2>1, OutstandingFrame
<1>5. ASSUME NEW w \in Worker, RunTask(w)
      PROVE  Count'
    <2>1. /\ UNCHANGED <<todo, queue, mpc, batch, next, task>>
          /\ \/ pc' = [pc EXCEPT ![w] = "report"] /\ finished' = finished \cup {task[w]}
             \/ pc' = [pc EXCEPT ![w] = "stop"] /\ finished' = finished
        BY <1>5 DEF RunTask, Goto
    <2>2. task[w] \notin finished /\ pc[w] = "run"
        BY <1>5, RunningTask DEF RunTask
    <2>3. \A v \in Worker : pc'[v] = "report" => pc[v] = "report" \/ v = w
        BY <1>0, <2>1
    <2>4. \A x : Queued(x)' = Queued(x)
        BY <2>1 DEF Queued
    <2>5. ASSUME NEW x \in Outstanding' PROVE x \in Outstanding
        BY <2>1, <2>2, <2>3, <2>4 DEF Outstanding
    <2> QED BY <1>1, <2>1, <2>5
<1>6. ASSUME NEW w \in Worker, ReportSuccess(w)
      PROVE  Count'
    <2>1. /\ pc[w] = "report" /\ todo' = todo - 1
          /\ task' = [task EXCEPT ![w] = << >>] /\ pc' = [pc EXCEPT ![w] = "pop"]
          /\ UNCHANGED <<queue, mpc, batch, next, finished>>
        BY <1>6 DEF ReportSuccess, Goto
    <2>2. /\ task[w] \in Task /\ task[w] \in finished /\ Taken(task[w])
          /\ \A v \in Worker \ {w} : pc[v] = "report" => task[v] # task[w]
        BY <2>1 DEF Inv, Held, Holding, Own
    <2>3. task[w] \in Outstanding
        BY <2>1, <2>2, TakenQueued DEF Outstanding
    <2>4. \A v \in Worker : pc'[v] = "report" => v # w /\ pc[v] = "report" /\ task'[v] = task[v]
        BY <1>0, <2>1
    <2>5. \A x : Queued(x)' = Queued(x)
        BY <2>1 DEF Queued
    <2> DEFINE S == Outstanding \ {task[w]}
    <2>6. ASSUME NEW x \in Outstanding' PROVE x \in S
        BY <2>1, <2>2, <2>4, <2>5 DEF Outstanding
    <2>7. IsFiniteSet(S) /\ Cardinality(S) = Cardinality(Outstanding) - 1
          /\ Cardinality(S) \in Nat
        BY <2>3, OutstandingFinite, FS_RemoveElement, FS_CardinalityType
    <2> HIDE DEF S
    <2>8. Cardinality(Outstanding') <= Cardinality(S) /\ Cardinality(Outstanding') \in Nat
        BY <2>6, <2>7, FS_Subset, FS_CardinalityType
    <2> QED BY <1>0, <2>1, <2>7, <2>8, OutstandingFinite DEF Count
<1>7. ASSUME NEW w \in Worker, Work(w), ~RunTask(w), ~ReportSuccess(w)
      PROVE  Count'
    <2>1. /\ UNCHANGED <<todo, finished, batch, next>> /\ (mpc' = mpc \/ mpc' = "aborted")
        BY <1>7 DEF Work, LoopTop, WaitForJobs, LoadIndices, CompareExchange, CheckRunning,
                    NothingPopped, CheckDone, WorkerStops, SetStopped, WorkerStopsQueue,
                    StopQueue, WorkerJoins
    <2>2. \A v \in Worker : pc'[v] = "report" => pc[v] = "report" /\ task'[v] = task[v]
        <3>1. CASE LoopTop(w) \/ WaitForJobs(w) \/ LoadIndices(w) \/ CompareExchange(w)
            BY <1>0, <3>1 DEF LoopTop, WaitForJobs, LoadIndices, CompareExchange, Goto
        <3>2. CASE CheckRunning(w) \/ NothingPopped(w) \/ CheckDone(w)
            BY <1>0, <3>2 DEF CheckRunning, NothingPopped, CheckDone, Goto
        <3>3. CASE WorkerStops(w) \/ WorkerStopsQueue(w) \/ WorkerJoins(w)
            BY <1>0, <3>3 DEF WorkerStops, WorkerStopsQueue, WorkerJoins, Goto
        <3> QED BY <1>7, <3>1, <3>2, <3>3 DEF Work
    <2>3. UNCHANGED queue
        BY <1>7 DEF Work, LoopTop, WaitForJobs, LoadIndices, CompareExchange, CheckRunning,
                    NothingPopped, CheckDone, WorkerStops, SetStopped, WorkerStopsQueue,
                    StopQueue, WorkerJoins
    <2>4. \A x : Queued(x)' = Queued(x)
        BY <2>3 DEF Queued
    <2>5. ASSUME NEW x \in Outstanding' PROVE x \in Outstanding
        BY <2>1, <2>2, <2>4 DEF Outstanding
    <2> QED BY <1>1, <2>1, <2>5
<1>8. CASE UNCHANGED vars
    <2>1. UNCHANGED <<todo, queue, mpc, batch, next, finished, pc, task>>
        BY <1>8 DEF vars
    <2> QED BY <1>1, <2>1 DEF Outstanding, Queued
<1> QED BY <1>2, <1>3, <1>4, <1>5, <1>6, <1>7, <1>8 DEF Next, Main
(* Workers end only after stopAll or through exit, and main joins only     *)
(* after it has stopped them.                                              *)
LEMMA StoppingStep ==
    ASSUME Inv, [Next]_vars
    PROVE  Stopping'
<1> USE DEF manager, main, workers, history
<1>0. /\ Stopping /\ pc \in [Worker -> WorkerSteps] /\ next \in Nat
      /\ (Exiting => Exiting') /\ \A x : Queued(x) => Queued(x)'
    <2>1. Stopping /\ pc \in [Worker -> WorkerSteps] /\ next \in Nat
        BY PoolAssumption DEF Inv, TypeOK
    <2>2. \A x : Queued(x) => Queued(x)'
        BY QueuesGrow
    <2> QED BY <2>1, <2>2, ExitStep
<1>1. CASE Push
    <2>1. /\ UNCHANGED <<pc, status, batch>> /\ mpc = "push" /\ mpc' \in {"push", "enqueue"}
          /\ status # "running" \/ next' = next
        BY <1>1 DEF Push
    <2>2. ~Exiting => status = "running"
        BY <2>1 DEF Inv, TypeOK, Stopping
    <2> QED BY <1>0, <2>1, <2>2 DEF Stopping, Exiting
<1>2. CASE Enqueue
    <2>1. /\ UNCHANGED <<pc, status, batch>> /\ mpc = "enqueue" /\ mpc' = "push"
          /\ next' = next + 1
        BY <1>2 DEF Enqueue
    <2>x. PICK x : x = <<batch, next>>
        OBVIOUS
    <2>2. Queued(x)'
        <3>0. queue \in [Worker -> Seq(Task)] /\ push_idx \in Nat
            BY DEF Inv, TypeOK
        <3>1. push_idx % N \in Worker
            BY <3>0, VictimType, Zenon
        <3>2. PICK r \in Worker : queue' = [queue EXCEPT ![r] = Append(@, <<batch, next>>)]
            BY <1>2, <3>1 DEF Enqueue
        <3>3. Len(queue[r]) + 1 \in 1 .. Len(queue'[r])
              /\ queue'[r][Len(queue[r]) + 1] = x
            BY <2>x, <3>0, <3>2
        <3> QED BY <3>3 DEF Queued
    <2>3. \A j \in Job : j < next' => j < next \/ j = next
        BY <1>0, <2>1 DEF Job
    <2>4. Exiting' = Exiting
        BY <2>1 DEF Exiting
    <2>5. ASSUME ~Exiting, NEW j \in Job, j < next'
          PROVE  Queued(<<batch, j>>)'
        <3>1. CASE j = next
            <4>1. x = <<batch', j>>
                BY <2>1, <2>x, <3>1
            <4> QED BY <2>2, <4>1
        <3>2. CASE j < next
            <4>1. PICK y : y = <<batch, j>>
                OBVIOUS
            <4>2. Queued(y)
                BY <1>0, <2>1, <2>5, <3>2, <4>1 DEF Stopping
            <4>3. Queued(y)' /\ y = <<batch', j>>
                BY <1>0, <2>1, <4>1, <4>2
            <4> QED BY <4>3
        <3> QED BY <2>3, <2>5, <3>1, <3>2
    <2> QED BY <1>0, <2>1, <2>4, <2>5 DEF Stopping
<1>3. CASE Pushed \/ PollDone
    <2>1. /\ UNCHANGED <<pc, status, batch, next>>
          /\ mpc \in {"push", "poll"} /\ mpc' \in {"poll", "get"}
        BY <1>3 DEF Pushed, PollDone
    <2>2. Exiting' = Exiting
        BY <2>1 DEF Exiting
    <2> QED BY <1>0, <2>1, <2>2 DEF Stopping
<1>4. CASE GetResults
    <2>1. UNCHANGED <<pc, status>> /\ mpc = "get" /\ next' = 1 /\ mpc' \in {"push", "stop"}
        BY <1>4 DEF GetResults
    <2>2. \A j \in Job : ~(j < next')
        BY <2>1 DEF Job
    <2> QED BY <1>0, <2>1, <2>2 DEF Stopping, Exiting
<1>5. CASE MainStops \/ MainStopsQueue \/ MainJoins
    <2>1. /\ UNCHANGED pc /\ mpc \notin {"aborted", "push"}
          /\ mpc' \in {"stopQueues", "join", "ended"}
        BY <1>5 DEF MainStops, MainStopsQueue, MainJoins
    <2> QED BY <1>0, <2>1 DEF Stopping
<1>6. ASSUME NEW w \in Worker, Work(w), ~WorkerJoins(w)
      PROVE  Stopping'
    <2>1. UNCHANGED <<mpc, batch, next>>
        BY <1>6 DEF Work, LoopTop, WaitForJobs, LoadIndices, CompareExchange, CheckRunning,
                    NothingPopped, RunTask, ReportSuccess, CheckDone, WorkerStops,
                    WorkerStopsQueue
    <2>2. status' = status \/ Exiting
        BY <1>6 DEF Work, LoopTop, WaitForJobs, LoadIndices, CompareExchange, CheckRunning,
                    NothingPopped, RunTask, ReportSuccess, CheckDone, WorkerStops,
                    WorkerStopsQueue, StopQueue, Exiting
    <2>3. \A v \in Worker : pc'[v] = "aborted" => pc[v] = "aborted"
        <3>1. CASE LoopTop(w) \/ WaitForJobs(w) \/ LoadIndices(w) \/ CompareExchange(w)
            BY <1>0, <3>1 DEF LoopTop, WaitForJobs, LoadIndices, CompareExchange, Goto
        <3>2. CASE CheckRunning(w) \/ NothingPopped(w) \/ CheckDone(w)
            BY <1>0, <3>2 DEF CheckRunning, NothingPopped, CheckDone, Goto
        <3>3. CASE WorkerStops(w) \/ WorkerStopsQueue(w) \/ RunTask(w) \/ ReportSuccess(w)
            BY <1>0, <3>3 DEF WorkerStops, WorkerStopsQueue, RunTask, ReportSuccess, Goto
        <3> QED BY <1>6, <3>1, <3>2, <3>3 DEF Work
    <2> QED BY <1>0, <2>1, <2>2, <2>3 DEF Stopping
<1>7. ASSUME NEW w \in Worker, WorkerJoins(w)
      PROVE  Stopping'
    <2>1. Exiting
        BY <1>7 DEF WorkerJoins, Exiting
    <2>2. CASE joined = w
        BY <1>0, <1>7, <2>1, <2>2 DEF WorkerJoins, Stopping
    <2>3. CASE joined # w
        BY <1>0, <1>7, <2>1, <2>3 DEF WorkerJoins, Stopping
    <2> QED BY <2>2, <2>3
<1>8. CASE UNCHANGED vars
    BY <1>0, <1>8 DEF vars, Stopping
<1> QED BY <1>1, <1>2, <1>3, <1>4, <1>5, <1>6, <1>7, <1>8 DEF Next, Main

-----------------------------------------------------------------------------
(* The constructor establishes the invariant: empty queues, no batch and   *)
(* no task.                                                                *)
LEMMA InvInit == Init => Inv
<1> SUFFICES ASSUME Init PROVE Inv
    OBVIOUS
<1>1. TypeOK
    <2>1. queue \in [Worker -> Seq(Task)]
        BY DEF Init
    <2>2. slot \in [Worker -> 0 .. N + 1] /\ joined \in 0 .. N
        BY PoolAssumption DEF Init
    <2>3. batch \in 1 .. MaxBatch + 1 /\ next \in 1 .. TaskCount + 1
        BY PoolAssumption DEF Init
    <2> QED BY <2>1, <2>2, <2>3 DEF Init, TypeOK, MainSteps, WorkerSteps
<1>2. Queues
    BY DEF Init, Queues
<1>3. Progress
    <2>1. \A x \in Task : ~(x[1] < batch)
        BY TaskPair DEF Init
    <2> QED BY <2>1, PoolAssumption DEF Init, Progress
<1>4. ~Exiting /\ ExitHoldsMain
    BY DEF Init, Exiting, ExitHoldsMain
<1>5. Stopping
    BY <1>4 DEF Init, Stopping, Job
<1>6. Casing /\ Held /\ Own
    BY DEF Init, Casing, Held, Own, Holding, ExitSteps
<1>7. Runs
    BY DEF Init, Runs
<1>8. Count
    <2>1. Outstanding = {}
        BY DEF Init, Outstanding, Queued
    <2> QED BY <2>1, FS_EmptySet DEF Init, Count
<1> QED BY <1>1, <1>2, <1>3, <1>4, <1>5, <1>6, <1>7, <1>8 DEF Inv

(* Every step keeps the invariant, one lemma per part of it. *)
LEMMA InvStep ==
    ASSUME Inv, [Next]_vars
    PROVE  Inv'
BY TypeStep, QueuesStep, ProgressStep, StoppingStep, ExitStep, WorkersStep, CountStep
   DEF Inv

(* The inductive invariant of the pool. *)
THEOREM PoolInvariant == Spec => []Inv
BY InvInit, InvStep, PTL DEF Spec

(* The pool's counters, queues and workers keep their types; no index of   *)
(* the queues or of try_pop's rounds leaves its range.                     *)
THEOREM PoolTypes == Spec => []TypeOK
<1>1. Inv => TypeOK
    BY DEF Inv
<1> QED BY <1>1, PoolInvariant, PTL

(* Workers that pop and steal from the same queues never run a task twice. *)
THEOREM TasksRunOnce == Spec => []RunOnce
<1>1. Inv => RunOnce
    BY DEF Inv, Runs, RunOnce
<1> QED BY <1>1, PoolInvariant, PTL

(* The main thread leaves its polling loop only when every task it has     *)
(* pushed has returned.                                                    *)
THEOREM DoneIsReliable == Spec => []DoneMeansFinished
<1>1. Inv => DoneMeansFinished
    <2> SUFFICES ASSUME Inv, mpc \in {"get", "stop", "stopQueues", "join", "ended"},
                        NEW x \in Task, x[1] <= batch
                 PROVE  x \in finished
        BY DEF DoneMeansFinished
    <2>1. x[1] \in Nat /\ x[1] <= MaxBatch /\ batch \in Nat /\ MaxBatch \in Nat
        BY TaskPair, PoolAssumption DEF Inv, TypeOK
    <2> QED BY <2>1 DEF Inv, Progress
<1> QED BY <1>1, PoolInvariant, PTL

(* After exit(-1) on a worker the main thread stays in its loops until the *)
(* process is aborted.                                                     *)
THEOREM ExitStopsMain == Spec => []ExitHoldsMain
<1>1. Inv => ExitHoldsMain
    BY DEF Inv
<1> QED BY <1>1, PoolInvariant, PTL
-----------------------------------------------------------------------------
(* The refinement: the open jobs are those of the present batch that have  *)
(* not returned.  Only a task that returns, a task that exits and the      *)
(* collection of the results are steps of JobBatch.                        *)

Open == {j \in Job : batch <= MaxBatch /\ <<batch, j>> \notin finished}

(* Every step of the pool is a step of JobBatch or leaves its variables    *)
(* alone.                                                                  *)
LEMMA JobsStep ==
    ASSUME Inv, [Next]_vars
    PROVE  [Jobs!Next]_(Jobs!vars)
<1> USE DEF manager, main, workers, history
<1>0. /\ pc \in [Worker -> WorkerSteps] /\ batch \in Nat /\ MaxBatch \in Nat
      /\ finished \subseteq Task
    BY PoolAssumption DEF Inv, TypeOK
<1>1. ASSUME UNCHANGED <<batch, finished>>, Exiting' = Exiting
      PROVE  UNCHANGED Jobs!vars
    BY <1>1 DEF Jobs!vars
<1>2. ASSUME NEW w \in Worker, RunTask(w)
      PROVE  Jobs!Next
    <2>1. /\ task[w] \in Task /\ task[w] \notin finished /\ task[w][1] = batch
          /\ batch <= MaxBatch /\ batch' = batch
        BY <1>2, RunningTask DEF RunTask
    <2>2. PICK j \in Job : task[w] = <<batch, j>>
        BY <2>1, TaskPair
    <2>3. j \in Open
        BY <2>1, <2>2 DEF Open
    <2>4. CASE pc' = [pc EXCEPT ![w] = "report"] /\ finished' = finished \cup {task[w]}
        <3>1. Exiting' = Exiting
            BY <1>0, <1>2, <2>4 DEF Exiting, RunTask
        <3>2. Open' = Open \ {j}
            BY <2>1, <2>2, <2>4 DEF Open
        <3>3. Jobs!Finish(j)
            BY <2>1, <2>3, <3>1, <3>2 DEF Jobs!Finish, Open
        <3> QED BY <3>3 DEF Jobs!Next
    <2>5. CASE pc' = [pc EXCEPT ![w] = "stop"] /\ finished' = finished /\ ~Exiting
        <3>1. Exiting'
            BY <1>0, <2>5 DEF Exiting
        <3>2. Open # {} /\ Open' = Open
            BY <2>1, <2>3, <2>5 DEF Open
        <3>3. Jobs!Die
            BY <2>1, <2>5, <3>1, <3>2 DEF Jobs!Die, Open
        <3> QED BY <3>3 DEF Jobs!Next
    <2> QED BY <1>2, <2>4, <2>5 DEF RunTask, Goto
<1>3. CASE GetResults
    <2>1. mpc = "get" /\ batch' = batch + 1 /\ UNCHANGED <<pc, finished>>
        BY <1>3 DEF GetResults
    <2>2. ~Exiting /\ Exiting' = Exiting /\ batch <= MaxBatch
        BY <2>1 DEF Inv, ExitHoldsMain, Exiting, Progress
    <2>3. Open = {}
        <3> SUFFICES ASSUME NEW j \in Job PROVE <<batch, j>> \in finished
            BY DEF Open
        <3>1. <<batch, j>> \in Task
            BY <2>2, TaskPair, PoolAssumption DEF Inv, TypeOK
        <3> QED BY <2>1, <3>1 DEF Inv, Progress
    <2>4. \A x \in finished : x[1] <= batch
        <3> SUFFICES ASSUME NEW x \in finished PROVE x[1] <= batch
            OBVIOUS
        <3>1. x \in Task /\ Taken(x)
            BY <1>0 DEF Inv, Runs
        <3>2. Queued(x)
            BY <3>1, TakenQueued
        <3>3. PICK q \in Worker : \E k \in 1 .. Len(queue[q]) : queue[q][k] = x
            BY <3>2 DEF Queued
        <3>4. x[1] < batch \/ x[1] = batch
            BY <3>3 DEF Inv, Queues
        <3> QED BY <1>0, <3>1, <3>4, TaskPair
    <2>5. Open' = IF batch < MaxBatch THEN Job ELSE {}
        BY <1>0, <2>1, <2>4 DEF Open
    <2>6. Jobs!NextBatch
        BY <2>1, <2>2, <2>3, <2>5 DEF Jobs!NextBatch, Open
    <2> QED BY <2>6 DEF Jobs!Next
<1>4. ASSUME Main, ~GetResults
      PROVE  UNCHANGED Jobs!vars
    <2>1. UNCHANGED <<batch, finished, pc>>
        BY <1>4 DEF Main, Push, Enqueue, Pushed, PollDone, MainStops, MainStopsQueue, MainJoins
    <2> QED BY <1>1, <2>1 DEF Exiting
<1>5. ASSUME NEW w \in Worker, Work(w), ~RunTask(w)
      PROVE  UNCHANGED Jobs!vars
    <2>1. UNCHANGED <<batch, finished>>
        BY <1>5 DEF Work, LoopTop, WaitForJobs, LoadIndices, CompareExchange, CheckRunning,
                    NothingPopped, ReportSuccess, CheckDone, WorkerStops, WorkerStopsQueue,
                    WorkerJoins
    <2>2. Exiting' = Exiting
        <3>1. CASE LoopTop(w) \/ WaitForJobs(w) \/ LoadIndices(w) \/ CompareExchange(w)
            BY <1>0, <3>1
               DEF LoopTop, WaitForJobs, LoadIndices, CompareExchange, Goto, Exiting
        <3>2. CASE CheckRunning(w) \/ NothingPopped(w) \/ ReportSuccess(w) \/ CheckDone(w)
            BY <1>0, <3>2
               DEF CheckRunning, NothingPopped, ReportSuccess, CheckDone, Goto, Exiting
        <3>3. CASE WorkerStops(w) \/ WorkerStopsQueue(w)
            BY <1>0, <3>3 DEF WorkerStops, WorkerStopsQueue, Goto, Exiting
        <3>4. CASE WorkerJoins(w)
            <4>1. Exiting /\ Exiting'
                BY <3>4, ExitStep DEF WorkerJoins, Exiting
            <4> QED BY <4>1 DEF Exiting
        <3> QED BY <1>5, <3>1, <3>2, <3>3, <3>4 DEF Work
    <2> QED BY <1>1, <2>1, <2>2
<1>6. CASE UNCHANGED vars
    BY <1>1, <1>6 DEF vars, Exiting
<1> QED BY <1>2, <1>3, <1>4, <1>5, <1>6 DEF Next

(* To the rest of the program the pool is a set of open jobs, of which any *)
(* may finish next, and the next batch starts when none is open: this is   *)
(* what BackupArchive takes for granted of the set pending.                *)
THEOREM PoolImplementsJobBatch == Spec => ImplementsJobBatch
<1>1. Init => Jobs!Init
    <2> SUFFICES ASSUME Init PROVE Jobs!Init
        OBVIOUS
    <2>1. Exiting = FALSE
        BY DEF Init, Exiting
    <2>2. Open = Job
        BY PoolAssumption DEF Init, Open
    <2> QED BY <2>1, <2>2 DEF Init, Jobs!Init, Open
<1> QED BY <1>1, JobsStep, PoolInvariant, PTL DEF Spec, ImplementsJobBatch, Jobs!Spec
=============================================================================
