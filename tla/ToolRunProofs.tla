---------------------------- MODULE ToolRunProofs ---------------------------
(***************************************************************************)
(* What runSubprocess guarantees for any number of jobs, of threads and of *)
(* descriptors, whatever the tools print: that it returns the whole first  *)
(* line of a tool that has succeeded, and that six descriptors per thread  *)
(* and six per file whose executable is missing are enough for every       *)
(* compressFile.                                                           *)
(***************************************************************************)
EXTENDS ToolRun, FiniteSetTheorems, TLAPS

Ended == {"succeeded", "failed"}

(* The output of a tool that has succeeded is complete; it is read only    *)
(* after waitpid, and no job runs a second tool.                           *)
Outputs == \A j \in Job :
    /\ child[j] = "succeeded" => written[j] = Printed[j]
    /\ pc[j] \in {"gets", "destroy"} => child[j] \in Ended
    /\ pc[j] \in {"ready", "in", "out", "err", "spawn"} => child[j] = "none"

(* The jobs that have a thread. *)
Active == {i \in Job : pc[i] \notin {"ready", "done"}}
Pool == Cardinality(Active) <= Threads

End == {"r", "w"}

(* The descriptors that a job has at a step, ... *)
Ends(step) ==
    CASE step = "out" -> {"in"} \X End
      [] step = "err" -> {"in", "out"} \X End
      [] step \in {"spawn", "close"} -> Stream \X End
      [] step = "stdin" -> {<<"in", "w">>, <<"out", "r">>, <<"err", "r">>}
      [] step \in {"wait", "gets", "destroy"} -> {<<"out", "r">>, <<"err", "r">>}
      [] step = "dest" -> {<<"copy", "r">>}
      [] step = "copying" -> {"copy"} \X End
      [] OTHER -> {}

(* ... apart from the six that stay open when posix_spawn finds no file. *)
Opening == {"ready", "in", "out", "err"}
Accounted == \A f \in fds :
    \/ <<f[2], f[3]>> \in Ends(pc[f[1]])
    \/ f[1] \in Missing /\ f[2] \in Stream /\ pc[f[1]] \notin Opening

(* All this holds if the descriptors are enough; otherwise a failed pipe() *)
(* leaves open what the calls before it have opened.                       *)
Enough == 6 * (Threads + Cardinality(Missing)) <= FdLimit
Descriptors == Enough => Accounted /\ \A j \in Compress : pc[j] # "exit"

Inv == TypeOK /\ Outputs /\ TrustedAnswer /\ Pool /\ Descriptors

-----------------------------------------------------------------------------
(* Counting descriptors. *)

(* subprocess_create makes three pipes, thus six descriptors. *)
LEMMA SixEnds == IsFiniteSet(Stream \X End) /\ Cardinality(Stream \X End) = 6
<1>1. IsFiniteSet({"r"}) /\ Cardinality({"r"}) = 1 /\ IsFiniteSet({"in"}) /\ Cardinality({"in"}) = 1
    BY FS_Singleton
<1>2. IsFiniteSet({"r"} \cup {"w"}) /\ Cardinality({"r"} \cup {"w"}) = 2
    BY <1>1, FS_AddElement
<1>3. IsFiniteSet({"in"} \cup {"out"}) /\ Cardinality({"in"} \cup {"out"}) = 2
    BY <1>1, FS_AddElement
<1>4. /\ IsFiniteSet(({"in"} \cup {"out"}) \cup {"err"})
      /\ Cardinality(({"in"} \cup {"out"}) \cup {"err"}) = 3
    BY <1>3, FS_AddElement
<1>5. End = {"r"} \cup {"w"} /\ Stream = ({"in"} \cup {"out"}) \cup {"err"}
    BY DEF End, Stream
<1>6. IsFiniteSet(End) /\ Cardinality(End) = 2 /\ IsFiniteSet(Stream) /\ Cardinality(Stream) = 3
    BY <1>2, <1>4, <1>5
<1>7. IsFiniteSet(Stream \X End) /\ Cardinality(Stream \X End) = Cardinality(Stream) * Cardinality(End)
    BY <1>6, FS_Product
<1> QED BY <1>6, <1>7

(* A pipe has two descriptors. *)
LEMMA TwoElements ==
    ASSUME NEW a, NEW b, a # b
    PROVE  IsFiniteSet({a, b}) /\ Cardinality({a, b}) = 2
<1>1. IsFiniteSet({a}) /\ Cardinality({a}) = 1
    BY FS_Singleton
<1>2. IsFiniteSet({a} \cup {b}) /\ Cardinality({a} \cup {b}) = 2
    BY <1>1, FS_AddElement
<1>3. {a, b} = {a} \cup {b}
    OBVIOUS
<1> QED BY <1>2, <1>3

(* A set of descriptors whose jobs are in J has at most six for each, if   *)
(* no job has both a pipe and a copy.                                      *)
LEMMA SixPerJob ==
    ASSUME NEW J, IsFiniteSet(J), NEW F \in SUBSET Fd,
           \A f \in F : f[1] \in J,
           \A f \in F, g \in F : f[1] = g[1] /\ f[2] = "copy" => g[2] = "copy"
    PROVE  IsFiniteSet(F) /\ Cardinality(F) <= 6 * Cardinality(J)
<1> DEFINE P == Stream \X End
           T == J \X P
           stream(f) == IF f[2] = "copy" THEN "in" ELSE f[2]
           h == [f \in F |-> <<f[1], <<stream(f), f[3]>>>>]
<1>1. IsFiniteSet(T) /\ Cardinality(T) = Cardinality(J) * 6
    BY SixEnds, FS_Product
<1>2. \A f \in F : /\ f[2] \in Stream \cup {"copy"} /\ f[3] \in End
                   /\ f = <<f[1], f[2], f[3]>>
    BY DEF Fd, End
<1>3. h \in [F -> T]
  <2>1. ASSUME NEW f \in F PROVE <<f[1], <<stream(f), f[3]>>>> \in T
      BY <1>2 DEF Stream
  <2> QED BY <2>1
<1>4. ASSUME NEW f \in F, NEW g \in F, h[f] = h[g] PROVE f = g
  <2>1. f[1] = g[1] /\ stream(f) = stream(g) /\ f[3] = g[3]
      BY <1>4
  <2>2. f[2] = g[2]
      BY <2>1
  <2> QED BY <1>2, <2>1, <2>2
<1>5. h \in Injection(F, T)
    BY <1>3, <1>4 DEF Injection, IsInjective
<1>6. IsFiniteSet(F) /\ Cardinality(F) <= Cardinality(T)
    BY <1>1, <1>5, FS_Injection
<1>7. Cardinality(J) \in Nat
    BY FS_CardinalityType
<1> QED BY <1>1, <1>6, <1>7

(* Six for each thread and for each missing executable are enough: a job   *)
(* has pipes or a copy, and both only if its executable is missing.        *)
LEMMA Fits ==
    ASSUME Enough, NEW A \in SUBSET Job, Cardinality(A) <= Threads, NEW F \in SUBSET Fd,
           \A f \in F : f[1] \in A \/ (f[1] \in Missing /\ f[2] \in Stream),
           \A f \in F, g \in F :
              f[1] = g[1] /\ f[2] = "copy" => g[2] = "copy" \/ g[1] \in Missing
    PROVE  IsFiniteSet(F) /\ Cardinality(F) <= FdLimit
<1> DEFINE F1 == {f \in F : f[1] \in Missing /\ f[2] \in Stream}
           F2 == {f \in F : ~(f[1] \in Missing /\ f[2] \in Stream)}
<1>1. /\ IsFiniteSet(A) /\ IsFiniteSet(Missing)
      /\ Cardinality(A) \in Nat /\ Cardinality(Missing) \in Nat
    BY ToolAssumption, FS_Subset, FS_CardinalityType
<1>2. \A f \in F : f[2] \in Stream \cup {"copy"}
    BY DEF Fd
<1>3. IsFiniteSet(F1) /\ Cardinality(F1) <= 6 * Cardinality(Missing)
  <2>1. \A f \in F1 : f[1] \in Missing /\ f[2] # "copy"
      BY DEF Stream
  <2>2. F1 \in SUBSET Fd
      OBVIOUS
  <2> HIDE DEF F1
  <2> QED BY <1>1, <2>1, <2>2, SixPerJob
<1>4. IsFiniteSet(F2) /\ Cardinality(F2) <= 6 * Cardinality(A)
  <2>1. \A f \in F2 : f[1] \in A
      OBVIOUS
  <2>2. \A f \in F2, g \in F2 : f[1] = g[1] /\ f[2] = "copy" => g[2] = "copy"
      BY <1>2
  <2>3. F2 \in SUBSET Fd
      OBVIOUS
  <2> HIDE DEF F2
  <2> QED BY <1>1, <2>1, <2>2, <2>3, SixPerJob
<1>5. F = F1 \cup F2 /\ F1 \cap F2 = {}
    OBVIOUS
<1> HIDE DEF F1, F2
<1>6. /\ IsFiniteSet(F1 \cup F2)
      /\ Cardinality(F1 \cup F2) = Cardinality(F1) + Cardinality(F2) - Cardinality(F1 \cap F2)
    BY <1>3, <1>4, FS_Union
<1>7. /\ Cardinality(F1 \cap F2) = 0
      /\ Cardinality(F1) \in Nat /\ Cardinality(F2) \in Nat
    BY <1>3, <1>4, <1>5, FS_EmptySet, FS_CardinalityType
<1>8. IsFiniteSet(F) /\ Cardinality(F) = Cardinality(F1) + Cardinality(F2)
    BY <1>5, <1>6, <1>7
<1> QED BY <1>1, <1>3, <1>4, <1>7, <1>8, ToolAssumption DEF Enough

(* A job without a thread has no descriptors of its own, and one that      *)
(* copies has no pipes.                                                    *)
LEMMA EndsOf ==
    ASSUME NEW step \in Steps, NEW s, NEW e, <<s, e>> \in Ends(step)
    PROVE  /\ step \notin {"ready", "in", "error", "done", "exit"}
           /\ s = "copy" <=> step \in {"dest", "copying"}
<1>1. CASE step \in {"ready", "in", "error", "done", "exit"}
    BY <1>1 DEF Ends
<1>2. CASE step \in {"dest", "copying"}
    BY <1>2 DEF Ends
<1>3. CASE step \in {"out", "err", "spawn", "close"}
    BY <1>3 DEF Ends, Stream
<1>4. CASE step \in {"stdin", "wait", "gets", "destroy"}
    BY <1>4 DEF Ends
<1> QED BY <1>1, <1>2, <1>3, <1>4 DEF Steps

(* Descriptors belong to jobs, and finitely many jobs run. *)
LEMMA Threaded ==
    ASSUME TypeOK
    PROVE  /\ Active \in SUBSET Job /\ IsFiniteSet(Active) /\ Cardinality(Active) \in Nat
           /\ \A f \in fds : f[1] \in Job
           /\ \A f \in fds : f[2] \in Stream \cup {"copy"} /\ f = <<f[1], f[2], f[3]>>
<1>1. Active \in SUBSET Job
    BY DEF Active
<1>2. IsFiniteSet(Active) /\ Cardinality(Active) \in Nat
    BY <1>1, ToolAssumption, FS_Subset, FS_CardinalityType
<1> QED BY <1>1, <1>2 DEF TypeOK, Fd

(* What is open, and what a job with a thread opens next, fits. *)
LEMMA RoomFor ==
    ASSUME TypeOK, Pool, Enough, Accounted, NEW j \in Active, NEW N \in SUBSET Fd,
           N \cap fds = {}, IsFiniteSet(N),
           \/ pc[j] \in Stream /\ \A f \in N : f[1] = j /\ f[2] \in Stream
           \/ pc[j] \in {"error", "dest"} /\ \A f \in N : f[1] = j /\ f[2] = "copy"
    PROVE  Room(Cardinality(N))
<1>1. /\ Active \in SUBSET Job /\ Cardinality(Active) <= Threads /\ j \in Job
      /\ pc \in [Job -> Steps] /\ fds \in SUBSET Fd
    BY Threaded DEF Pool, TypeOK
<1>2. ASSUME NEW f \in fds
      PROVE  /\ f[1] \in Job /\ f[2] \in Stream \cup {"copy"}
             /\ f[1] \in Active \/ (f[1] \in Missing /\ f[2] \in Stream)
             /\ f[1] \in Missing \/ <<f[2], f[3]>> \in Ends(pc[f[1]])
             /\ f[2] = "copy" => pc[f[1]] \in {"dest", "copying"}
             /\ pc[f[1]] \in {"dest", "copying"} => f[2] = "copy" \/ f[1] \in Missing
  <2>1. f[1] \in Job /\ f[2] \in Stream \cup {"copy"} /\ pc[f[1]] \in Steps
      BY <1>1, Threaded
  <2>2. CASE <<f[2], f[3]>> \in Ends(pc[f[1]])
      BY <2>1, <2>2, EndsOf DEF Active
  <2>3. CASE f[1] \in Missing /\ f[2] \in Stream
      BY <2>1, <2>3 DEF Stream
  <2> QED BY <2>1, <2>2, <2>3 DEF Accounted
<1> DEFINE F == fds \cup N
<1>3. F \in SUBSET Fd
    BY <1>1
<1>4. \A f \in F : f[1] \in Active \/ (f[1] \in Missing /\ f[2] \in Stream)
    BY <1>2
<1>5. ASSUME NEW f \in F, NEW g \in F, f[1] = g[1], f[2] = "copy"
      PROVE  g[2] = "copy" \/ g[1] \in Missing
  <2>1. CASE f \in fds /\ g \in fds
      BY <1>2, <1>5, <2>1
  <2>2. CASE f \in fds /\ g \in N
      BY <1>2, <1>5, <2>2 DEF Stream
  <2>3. CASE f \in N /\ g \in fds
    <3>1. pc[g[1]] \in {"error", "dest"}
        BY <1>5, <2>3 DEF Stream
    <3>2. CASE <<g[2], g[3]>> \in Ends(pc[g[1]])
        BY <1>1, <1>2, <2>3, <3>1, <3>2, EndsOf
    <3> QED BY <1>2, <2>3, <3>2
  <2>4. CASE f \in N /\ g \in N
      BY <1>5, <2>4 DEF Stream
  <2> QED BY <2>1, <2>2, <2>3, <2>4
<1>6. IsFiniteSet(F) /\ Cardinality(F) <= FdLimit
  <2> HIDE DEF F
  <2> QED BY <1>1, <1>3, <1>4, <1>5, Fits
<1>7. IsFiniteSet(fds) /\ Cardinality(F) = Cardinality(fds) + Cardinality(N)
  <2>1. IsFiniteSet(fds)
      BY <1>6, FS_Subset
  <2>2. Cardinality(fds \cup N) = Cardinality(fds) + Cardinality(N) - Cardinality(fds \cap N)
      BY <2>1, FS_Union
  <2>3. Cardinality(fds \cap N) = 0
      BY FS_EmptySet
  <2> QED BY <2>1, <2>2, <2>3, FS_CardinalityType
<1> QED BY <1>6, <1>7 DEF Room

-----------------------------------------------------------------------------
(* One step of one job. *)

(* A job that has started never goes back to waiting, so no more of them   *)
(* run than there are threads.                                             *)
LEMMA PoolStep ==
    ASSUME TypeOK, Pool, NEW j \in Active, NEW step \in Steps \ {"ready"}, Goto(j, step)
    PROVE  Pool'
<1>1. Active' \in SUBSET Active
    BY DEF TypeOK, Goto, Active
<1>2. IsFiniteSet(Active) /\ Cardinality(Active) \in Nat
    BY Threaded
<1>3. Cardinality(Active') <= Cardinality(Active) /\ Cardinality(Active') \in Nat
    BY <1>1, <1>2, FS_Subset, FS_CardinalityType
<1> QED BY <1>2, <1>3, ToolAssumption DEF Pool

(* A step of one job that leaves it with the descriptors of its step, or   *)
(* with those that a missing executable leaks, keeps the account.          *)
LEMMA AccountedStep ==
    ASSUME TypeOK, Accounted, NEW j \in Job, NEW step \in Steps, Goto(j, step),
           \A f \in fds' : f[1] # j => f \in fds,
           \A f \in fds' : f[1] = j =>
              <<f[2], f[3]>> \in Ends(step) \/ (j \in Missing /\ f[2] \in Stream /\ step \notin Opening)
    PROVE  Accounted'
<1> SUFFICES ASSUME NEW f \in fds'
             PROVE  \/ <<f[2], f[3]>> \in Ends(pc'[f[1]])
                    \/ f[1] \in Missing /\ f[2] \in Stream /\ pc'[f[1]] \notin Opening
    BY DEF Accounted, Ends
<1>1. pc' = [pc EXCEPT ![j] = step] /\ pc \in [Job -> Steps]
    BY DEF Goto, TypeOK
<1>2. CASE f[1] = j
    BY <1>1, <1>2
<1>3. CASE f[1] # j
  <2>1. f \in fds /\ pc'[f[1]] = pc[f[1]]
      BY <1>1, <1>3, Threaded
  <2> QED BY <2>1 DEF Accounted
<1> QED BY <1>2, <1>3

(* A worker takes the next job only when fewer than Threads are running. *)
LEMMA BeginStep ==
    ASSUME Inv, NEW j \in Job, Begin(j)
    PROVE  Inv'
<1>1. pc[j] = "ready" /\ Goto(j, "in") /\ UNCHANGED <<fds, child, held, written, value>>
    BY DEF Begin, tool
<1>2. TypeOK'
    BY <1>1 DEF Inv, TypeOK, Goto, Steps
<1>3. Outputs'
    BY <1>1 DEF Inv, TypeOK, Outputs, Goto
<1>4. TrustedAnswer'
    BY <1>1 DEF Inv, TrustedAnswer
<1>5. Pool'
  <2>1. Cardinality(Active) < Threads /\ IsFiniteSet(Active) /\ Cardinality(Active) \in Nat
      BY Threaded DEF Inv, Begin, Active
  <2>2. Active' = Active \cup {j} /\ j \notin Active
      BY <1>1 DEF Inv, TypeOK, Goto, Active
  <2>3. Cardinality(Active') = Cardinality(Active) + 1
      BY <2>1, <2>2, FS_AddElement
  <2> QED BY <2>1, <2>3, ToolAssumption DEF Pool
<1>6. Descriptors'
  <2> SUFFICES ASSUME Enough PROVE Accounted' /\ \A i \in Compress : pc'[i] # "exit"
      BY DEF Descriptors, Enough
  <2>1. Accounted /\ \A i \in Compress : pc[i] # "exit"
      BY DEF Inv, Descriptors
  <2>2. \A f \in fds : f[1] # j
    <3> SUFFICES ASSUME NEW f \in fds, f[1] = j PROVE FALSE
        OBVIOUS
    <3>1. <<f[2], f[3]>> \in Ends("ready")
        BY <1>1, <2>1 DEF Accounted, Opening
    <3> QED BY <3>1 DEF Ends
  <2>3. Accounted'
      BY <1>1, <2>1, <2>2, AccountedStep DEF Inv, Steps
  <2> QED BY <1>1, <2>1, <2>3 DEF Inv, TypeOK, Goto
<1> QED BY <1>2, <1>3, <1>4, <1>5, <1>6 DEF Inv

(* A step that does not concern the tool. *)
LEMMA CallOutputs ==
    ASSUME Inv, NEW j \in Job, NEW step \in Steps, Goto(j, step), UNCHANGED <<child, held, written, value>>,
           step \in {"gets", "destroy"} => child[j] \in Ended,
           step \in {"ready", "in", "out", "err", "spawn"} => child[j] = "none"
    PROVE  Outputs' /\ TrustedAnswer'
BY DEF Inv, TypeOK, Outputs, TrustedAnswer, Goto

(* With enough descriptors pipe() succeeds; its two ends are those of the  *)
(* next step.                                                              *)
LEMMA OpenPipeStep ==
    ASSUME Inv, NEW j \in Job, OpenPipe(j)
    PROVE  Inv'
<1>1. PICK s \in Stream : s = pc[j]
    BY DEF OpenPipe
<1>2. UNCHANGED <<child, held, written, value>>
    BY DEF OpenPipe, tool
<1>3. PICK t \in {"out", "err", "spawn"} : t = After[s] /\ Ends(s) \cup ({s} \X End) \subseteq Ends(t)
                                         /\ ~({s} \X End \cap Ends(s) # {})
  <2>1. CASE s = "in"
      BY <2>1 DEF After, Ends, End
  <2>2. CASE s = "out"
      BY <2>2 DEF After, Ends, End
  <2>3. CASE s = "err"
      BY <2>3 DEF After, Ends, End, Stream
  <2> QED BY <2>1, <2>2, <2>3 DEF Stream
<1>4. j \in Active
    BY <1>1 DEF Active, Stream
<1> DEFINE N == {<<j, s, "r">>, <<j, s, "w">>}
<1>5. N \in SUBSET Fd /\ \A f \in N : f[1] = j /\ f[2] = s /\ <<f[2], f[3]>> \in {s} \X End
    BY DEF Fd, End
<1>6. ASSUME Enough, NEW f \in fds, f[1] = j PROVE <<f[2], f[3]>> \in Ends(s)
    BY <1>1, <1>6 DEF Inv, Descriptors, Accounted, Opening, Stream
<1>7. PICK step \in {t, "error"} :
         /\ Goto(j, step)
         /\ step = t => fds' = fds \cup N
         /\ step = "error" => ~Room(2) /\ UNCHANGED fds
    BY <1>1, <1>3 DEF OpenPipe
<1>8. step \in Steps \ {"ready", "gets", "destroy", "exit"} /\ t # "error"
    BY <1>3 DEF Steps
<1>9. fds' \in SUBSET Fd
    BY <1>5, <1>7 DEF Inv, TypeOK
<1>10. TypeOK'
    BY <1>2, <1>7, <1>8, <1>9 DEF Inv, TypeOK, Goto
<1>11. Outputs' /\ TrustedAnswer'
  <2>1. child[j] = "none"
      BY <1>1 DEF Inv, Outputs, Stream
  <2> QED BY <1>2, <1>7, <1>8, <2>1, CallOutputs
<1>12. Pool'
    BY <1>4, <1>7, <1>8, PoolStep DEF Inv
<1>13. Descriptors'
  <2> SUFFICES ASSUME Enough PROVE Accounted' /\ \A i \in Compress : pc'[i] # "exit"
      BY DEF Descriptors, Enough
  <2>1. Accounted /\ \A i \in Compress : pc[i] # "exit"
      BY DEF Inv, Descriptors
  <2>2. N \cap fds = {}
      BY <1>3, <1>5, <1>6
  <2>3. IsFiniteSet(N) /\ Cardinality(N) = 2
    <3>1. <<j, s, "r">> # <<j, s, "w">>
        OBVIOUS
    <3> QED BY <3>1, TwoElements
  <2>4. Room(2)
    <3>1. Room(Cardinality(N))
      <4> HIDE DEF N
      <4> QED BY <1>1, <1>4, <1>5, <2>1, <2>2, <2>3, RoomFor DEF Inv
    <3> QED BY <2>3, <3>1
  <2>5. step = t /\ fds' = fds \cup N
      BY <1>7, <2>4
  <2>6. ASSUME NEW f \in fds', f[1] = j PROVE <<f[2], f[3]>> \in Ends(t)
    <3>1. CASE f \in fds
        BY <1>3, <1>6, <2>6, <3>1
    <3>2. CASE f \in N
        BY <1>3, <1>5, <3>2
    <3> QED BY <2>5, <3>1, <3>2
  <2>7. \A f \in fds' : f[1] # j => f \in fds
      BY <1>5, <2>5
  <2>8. Accounted'
      BY <1>7, <1>8, <2>1, <2>5, <2>6, <2>7, AccountedStep DEF Inv
  <2> QED BY <1>7, <1>8, <2>1, <2>8 DEF Inv, TypeOK, Goto
<1> QED BY <1>10, <1>11, <1>12, <1>13 DEF Inv

(* posix_spawn fails for a missing executable, and subprocess_create       *)
(* returns with all six descriptors open: the leak.                        *)
LEMMA SpawnStep ==
    ASSUME Inv, NEW j \in Job, Spawn(j)
    PROVE  Inv'
<1>1. pc[j] = "spawn" /\ UNCHANGED <<fds, written, value>>
    BY DEF Spawn
<1>2. PICK step \in {"error", "close"} :
         /\ Goto(j, step)
         /\ step = "error" => j \in Missing /\ UNCHANGED <<child, held>>
         /\ step = "close" => /\ child' = [child EXCEPT ![j] = "running"]
                              /\ held' = [held EXCEPT ![j] =
                                    fds \ {<<j, "in", "w">>, <<j, "out", "r">>, <<j, "err", "r">>}]
    BY DEF Spawn
<1>3. step \in Steps \ {"ready"} /\ j \in Active
    BY <1>1 DEF Steps, Active
<1>4. TypeOK'
  <2>1. PICK h \in SUBSET Fd : h = fds \ {<<j, "in", "w">>, <<j, "out", "r">>, <<j, "err", "r">>}
      BY DEF Inv, TypeOK
  <2> QED BY <1>1, <1>2, <1>3, <2>1 DEF Inv, TypeOK, Goto
<1>5. Outputs'
    BY <1>1, <1>2 DEF Inv, TypeOK, Outputs, Goto, Ended
<1>6. TrustedAnswer'
  <2>1. child[j] = "none" /\ \A i \in Job : i # j => child'[i] = child[i]
      BY <1>1, <1>2 DEF Inv, TypeOK, Outputs
  <2> QED BY <1>1, <2>1 DEF Inv, TrustedAnswer
<1>7. Pool'
    BY <1>2, <1>3, PoolStep DEF Inv
<1>8. Descriptors'
  <2> SUFFICES ASSUME Enough PROVE Accounted' /\ \A i \in Compress : pc'[i] # "exit"
      BY DEF Descriptors, Enough
  <2>1. Accounted /\ \A i \in Compress : pc[i] # "exit"
      BY DEF Inv, Descriptors
  <2>2. ASSUME NEW f \in fds, f[1] = j
        PROVE  <<f[2], f[3]>> \in Ends(step) \/ (j \in Missing /\ f[2] \in Stream /\ step \notin Opening)
    <3>1. <<f[2], f[3]>> \in Stream \X End
      <4>1. f[3] \in End
          BY DEF Inv, TypeOK, Fd, End
      <4> QED BY <1>1, <2>1, <2>2, <4>1 DEF Accounted, Ends
    <3>2. f[2] \in Stream
        BY <3>1
    <3>3. CASE step = "error"
        BY <1>2, <3>2, <3>3 DEF Opening
    <3>4. CASE step = "close"
        BY <3>1, <3>4 DEF Ends
    <3> QED BY <3>3, <3>4
  <2>3. Accounted'
      BY <1>1, <1>2, <1>3, <2>1, <2>2, AccountedStep DEF Inv
  <2> QED BY <1>2, <2>1, <2>3 DEF Inv, TypeOK, Goto
<1> QED BY <1>4, <1>5, <1>6, <1>7, <1>8 DEF Inv

(* A step of a job that opens nothing. *)
LEMMA ClosingStep ==
    ASSUME Inv, NEW j \in Active, pc[j] \notin Opening,
           NEW step \in Steps \ Opening, Goto(j, step),
           fds' \in SUBSET fds, UNCHANGED <<child, held, written>>,
           value' \in [Job -> Nat \cup {NoValue}], Outputs', TrustedAnswer',
           \A f \in fds' : <<f[2], f[3]>> \in Ends(pc[j]) /\ f[1] = j => <<f[2], f[3]>> \in Ends(step),
           step = "exit" => j \notin Compress
    PROVE  Inv'
<1>1. j \in Job
    BY DEF Active
<1>2. TypeOK'
    BY <1>1 DEF Inv, TypeOK, Goto
<1>3. Pool'
    BY PoolStep DEF Inv, Opening
<1>4. Descriptors'
  <2> SUFFICES ASSUME Enough PROVE Accounted' /\ \A i \in Compress : pc'[i] # "exit"
      BY DEF Descriptors, Enough
  <2>1. Accounted /\ \A i \in Compress : pc[i] # "exit"
      BY DEF Inv, Descriptors
  <2>2. \A f \in fds' : f[1] = j =>
           <<f[2], f[3]>> \in Ends(step) \/ (j \in Missing /\ f[2] \in Stream /\ step \notin Opening)
      BY <2>1 DEF Accounted
  <2>3. Accounted'
      BY <1>1, <2>1, <2>2, AccountedStep DEF Inv
  <2> QED BY <1>1, <2>1, <2>3 DEF Inv, TypeOK, Goto
<1> QED BY <1>2, <1>3, <1>4 DEF Inv

(* The parent closes the three ends that are the child's. *)
LEMMA CloseChildEndsStep ==
    ASSUME Inv, NEW j \in Job, CloseChildEnds(j)
    PROVE  Inv'
<1>1. /\ pc[j] = "close" /\ Goto(j, "stdin") /\ UNCHANGED <<child, held, written, value>>
      /\ fds' = fds \ {<<j, "in", "r">>, <<j, "out", "w">>, <<j, "err", "w">>}
    BY DEF CloseChildEnds, tool
<1>2. j \in Active /\ pc[j] \notin Opening /\ "stdin" \in Steps \ Opening
    BY <1>1 DEF Active, Opening, Steps
<1>3. Outputs' /\ TrustedAnswer' /\ value' \in [Job -> Nat \cup {NoValue}]
    BY <1>1, <1>2, CallOutputs DEF Inv, TypeOK
<1>4. ASSUME NEW f \in fds', <<f[2], f[3]>> \in Ends(pc[j]), f[1] = j
      PROVE  <<f[2], f[3]>> \in Ends("stdin")
  <2>1. f = <<j, f[2], f[3]>> /\ f \notin {<<j, "in", "r">>, <<j, "out", "w">>, <<j, "err", "w">>}
      BY <1>1, <1>4, Threaded DEF Inv
  <2>2. f[2] \in Stream /\ f[3] \in End
      BY <1>1, <1>4 DEF Ends
  <2>3. <<f[2], f[3]>> \in {<<"in", "w">>, <<"out", "r">>, <<"err", "r">>}
      BY <2>1, <2>2 DEF Stream, End
  <2> QED BY <2>3 DEF Ends
<1> QED BY <1>1, <1>2, <1>3, <1>4, ClosingStep

(* subprocess_join closes the write end of stdin first. *)
LEMMA CloseStdinStep ==
    ASSUME Inv, NEW j \in Job, CloseStdin(j)
    PROVE  Inv'
<1>1. /\ pc[j] = "stdin" /\ Goto(j, "wait") /\ UNCHANGED <<child, held, written, value>>
      /\ fds' = fds \ {<<j, "in", "w">>}
    BY DEF CloseStdin, tool
<1>2. j \in Active /\ pc[j] \notin Opening /\ "wait" \in Steps \ Opening
    BY <1>1 DEF Active, Opening, Steps
<1>3. Outputs' /\ TrustedAnswer' /\ value' \in [Job -> Nat \cup {NoValue}]
    BY <1>1, <1>2, CallOutputs DEF Inv, TypeOK
<1>4. ASSUME NEW f \in fds', <<f[2], f[3]>> \in Ends(pc[j]), f[1] = j
      PROVE  <<f[2], f[3]>> \in Ends("wait")
  <2>1. f = <<j, f[2], f[3]>> /\ f # <<j, "in", "w">>
      BY <1>1, <1>4, Threaded DEF Inv
  <2>2. <<f[2], f[3]>> \in {<<"in", "w">>, <<"out", "r">>, <<"err", "r">>}
      BY <1>1, <1>4 DEF Ends
  <2> QED BY <2>1, <2>2 DEF Ends
<1> QED BY <1>1, <1>2, <1>3, <1>4, ClosingStep

(* waitpid returns when the tool has ended. *)
LEMMA WaitPidStep ==
    ASSUME Inv, NEW j \in Job, WaitPid(j)
    PROVE  Inv'
<1>1. /\ pc[j] = "wait" /\ Goto(j, "gets") /\ UNCHANGED <<fds, child, held, written, value>>
      /\ child[j] \in Ended
    BY DEF WaitPid, tool, Ended
<1>2. j \in Active /\ pc[j] \notin Opening /\ "gets" \in Steps \ Opening
    BY <1>1 DEF Active, Opening, Steps
<1>3. Outputs' /\ TrustedAnswer' /\ value' \in [Job -> Nat \cup {NoValue}]
    BY <1>1, <1>2, CallOutputs DEF Inv, TypeOK
<1>4. Ends("wait") = Ends("gets")
    BY DEF Ends
<1> QED BY <1>1, <1>2, <1>3, <1>4, ClosingStep

(* A first line has a length. *)
LEMMA FirstLineNat ==
    ASSUME NEW j \in Job, NEW n \in Nat
    PROVE  FirstLine(j, n) \in Nat
BY ToolAssumption DEF FirstLine

(* fgets after the join reads what is in the pipe, all that the tool has   *)
(* printed if it has succeeded.                                            *)
LEMMA FgetsStep ==
    ASSUME Inv, NEW j \in Job, Fgets(j)
    PROVE  Inv'
<1>1. /\ pc[j] = "gets" /\ Goto(j, "destroy") /\ UNCHANGED <<fds, child, held, written>>
      /\ value' = IF child[j] = "failed" THEN value
                  ELSE [value EXCEPT ![j] = FirstLine(j, written[j]["out"])]
    BY DEF Fgets
<1>2. j \in Active /\ pc[j] \notin Opening /\ "destroy" \in Steps \ Opening
    BY <1>1 DEF Active, Opening, Steps
<1>3. child[j] \in Ended /\ (child[j] = "succeeded" => written[j] = Printed[j])
    BY <1>1 DEF Inv, Outputs
<1>4. Outputs'
    BY <1>1, <1>3 DEF Inv, TypeOK, Outputs, Goto
<1>5. PICK n \in Nat : n = FirstLine(j, written[j]["out"])
  <2>1. written[j]["out"] \in Nat
      BY DEF Inv, TypeOK
  <2> QED BY <2>1, FirstLineNat
<1>6. TrustedAnswer' /\ value' \in [Job -> Nat \cup {NoValue}]
    BY <1>1, <1>3, <1>5 DEF Inv, TypeOK, TrustedAnswer, Ended
<1>7. Ends("gets") = Ends("destroy")
    BY DEF Ends
<1> QED BY <1>1, <1>2, <1>4, <1>6, <1>7, ClosingStep

(* subprocess_destroy closes the two ends that are left. *)
LEMMA DestroyStep ==
    ASSUME Inv, NEW j \in Job, Destroy(j)
    PROVE  Inv'
<1>1. PICK step \in {"error", "done"} :
      /\ pc[j] = "destroy" /\ Goto(j, step) /\ UNCHANGED <<child, held, written, value>>
      /\ fds' = fds \ {<<j, "out", "r">>, <<j, "err", "r">>}
    BY DEF Destroy, tool
<1>2. j \in Active /\ pc[j] \notin Opening /\ step \in Steps \ Opening
    BY <1>1 DEF Active, Opening, Steps
<1>3. Outputs' /\ TrustedAnswer' /\ value' \in [Job -> Nat \cup {NoValue}]
    BY <1>1, <1>2, CallOutputs DEF Inv, TypeOK
<1>4. ASSUME NEW f \in fds', <<f[2], f[3]>> \in Ends(pc[j]), f[1] = j
      PROVE  FALSE
  <2>1. f = <<j, f[2], f[3]>> /\ f \notin {<<j, "out", "r">>, <<j, "err", "r">>}
      BY <1>1, <1>4, Threaded DEF Inv
  <2>2. <<f[2], f[3]>> \in {<<"out", "r">>, <<"err", "r">>}
      BY <1>1, <1>4 DEF Ends
  <2> QED BY <2>1, <2>2
<1> QED BY <1>1, <1>2, <1>3, <1>4, ClosingStep

(* A hash job whose tool fails exits the program; it is not a              *)
(* compressFile.                                                           *)
LEMMA HashErrorStep ==
    ASSUME Inv, NEW j \in Job, HashError(j)
    PROVE  Inv'
<1>1. /\ pc[j] = "error" /\ Goto(j, "exit") /\ UNCHANGED <<fds, child, held, written, value>>
      /\ j \notin Compress
    BY DEF HashError, tool
<1>2. j \in Active /\ pc[j] \notin Opening /\ "exit" \in Steps \ Opening
    BY <1>1 DEF Active, Opening, Steps
<1>3. Outputs' /\ TrustedAnswer' /\ value' \in [Job -> Nat \cup {NoValue}]
    BY <1>1, <1>2, CallOutputs DEF Inv, TypeOK
<1>4. Ends("error") = {}
    BY DEF Ends
<1> QED BY <1>1, <1>2, <1>3, <1>4, ClosingStep

(* The copy's two streams are closed at the end of copyFile. *)
LEMMA CopyEndStep ==
    ASSUME Inv, NEW j \in Job, CopyEnd(j)
    PROVE  Inv'
<1>1. /\ pc[j] = "copying" /\ Goto(j, "done") /\ UNCHANGED <<child, held, written, value>>
      /\ fds' = fds \ {<<j, "copy", "r">>, <<j, "copy", "w">>}
    BY DEF CopyEnd, tool
<1>2. j \in Active /\ pc[j] \notin Opening /\ "done" \in Steps \ Opening
    BY <1>1 DEF Active, Opening, Steps
<1>3. Outputs' /\ TrustedAnswer' /\ value' \in [Job -> Nat \cup {NoValue}]
    BY <1>1, <1>2, CallOutputs DEF Inv, TypeOK
<1>4. ASSUME NEW f \in fds', <<f[2], f[3]>> \in Ends(pc[j]), f[1] = j
      PROVE  FALSE
  <2>1. f = <<j, f[2], f[3]>> /\ f \notin {<<j, "copy", "r">>, <<j, "copy", "w">>}
      BY <1>1, <1>4, Threaded DEF Inv
  <2>2. f[2] = "copy" /\ f[3] \in End
      BY <1>1, <1>4 DEF Ends
  <2> QED BY <2>1, <2>2 DEF End
<1> QED BY <1>1, <1>2, <1>3, <1>4, ClosingStep

(* copyFile opens one descriptor after the other. *)
LEMMA CopyingStep ==
    ASSUME Inv, NEW j \in Job, NEW e \in End, NEW step \in {"dest", "copying"},
           NEW X \in SUBSET Fd,
           pc[j] \in {"error", "dest"}, pc[j] = "error" => e = "r" /\ step = "dest",
           pc[j] = "dest" => e = "w" /\ step = "copying",
           UNCHANGED <<child, held, written, value>>,
           IF Room(1) THEN fds' = fds \cup {<<j, "copy", e>>} /\ Goto(j, step)
                      ELSE fds' = fds \ X /\ Goto(j, "exit")
    PROVE  Inv'
<1> DEFINE c == <<j, "copy", e>>
           N == {c}
<1>1. N \in SUBSET Fd /\ IsFiniteSet(N) /\ Cardinality(N) = 1
  <2>1. c \in Fd
      BY DEF Fd, End
  <2> HIDE DEF c
  <2> QED BY <2>1, FS_Singleton
<1>2. PICK next \in {step, "exit"} :
         /\ Goto(j, next)
         /\ next = step => fds' = fds \cup N
         /\ next = "exit" => ~Room(1) /\ fds' = fds \ X
    OBVIOUS
<1>3. next \in Steps \ {"ready", "gets", "destroy"} /\ j \in Active /\ fds' \in SUBSET Fd
    BY <1>1, <1>2 DEF Steps, Active, Inv, TypeOK
<1>4. TypeOK'
    BY <1>2, <1>3 DEF Inv, TypeOK, Goto
<1>5. Outputs' /\ TrustedAnswer'
    BY <1>2, <1>3, CallOutputs
<1>6. Pool'
    BY <1>2, <1>3, PoolStep DEF Inv
<1>7. Descriptors'
  <2> SUFFICES ASSUME Enough PROVE Accounted' /\ \A i \in Compress : pc'[i] # "exit"
      BY DEF Descriptors, Enough
  <2>1. Accounted /\ \A i \in Compress : pc[i] # "exit"
      BY DEF Inv, Descriptors
  <2>2. ASSUME NEW f \in fds, f[1] = j
        PROVE  \/ pc[j] = "dest" /\ <<f[2], f[3]>> = <<"copy", "r">>
               \/ j \in Missing /\ f[2] \in Stream
    <3>1. <<f[2], f[3]>> \in Ends(pc[j]) \/ (j \in Missing /\ f[2] \in Stream)
        BY <2>1, <2>2 DEF Accounted
    <3>2. pc[j] = "error" => Ends(pc[j]) = {}
        BY DEF Ends
    <3>3. pc[j] = "dest" => Ends(pc[j]) = {<<"copy", "r">>}
        BY DEF Ends
    <3> QED BY <3>1, <3>2, <3>3
  <2>3. N \cap fds = {}
    <3> SUFFICES ASSUME c \in fds PROVE FALSE
        OBVIOUS
    <3>1. c[1] = j /\ c[2] = "copy" /\ c[3] = e
        OBVIOUS
    <3> QED BY <2>2, <3>1 DEF Stream
  <2>4. Room(1)
    <3>1. \A f \in N : f[1] = j /\ f[2] = "copy"
        OBVIOUS
    <3> HIDE DEF N
    <3> QED BY <1>1, <1>3, <2>1, <2>3, <3>1, RoomFor DEF Inv
  <2>5. next = step /\ fds' = fds \cup N
      BY <1>2, <2>4
  <2>6. ASSUME NEW f \in fds', f[1] = j
        PROVE  <<f[2], f[3]>> \in Ends(step) \/ (j \in Missing /\ f[2] \in Stream /\ step \notin Opening)
    <3>1. CASE f = c
      <4>1. <<f[2], f[3]>> = <<"copy", e>>
          BY <3>1
      <4>2. step = "dest" => e = "r"
          OBVIOUS
      <4> QED BY <4>1, <4>2 DEF Ends
    <3>2. CASE f \in fds
      <4>1. <<"copy", "r">> \in Ends(step)
          BY DEF Ends, End
      <4> QED BY <2>2, <2>6, <3>2, <4>1 DEF Opening
    <3> QED BY <2>5, <3>1, <3>2
  <2>7. \A f \in fds' : f[1] # j => f \in fds
      BY <2>5
  <2>8. Accounted'
      BY <1>2, <1>3, <2>1, <2>5, <2>6, <2>7, AccountedStep DEF Inv
  <2> QED BY <1>2, <2>1, <2>5, <2>8 DEF Inv, TypeOK, Goto
<1> QED BY <1>4, <1>5, <1>6, <1>7 DEF Inv

(* copyFile opens the source. *)
LEMMA CopyOpenStep ==
    ASSUME Inv, NEW j \in Job, CopyOpen(j)
    PROVE  Inv'
<1>1. {} \in SUBSET Fd /\ "r" \in End
    BY DEF End
<1>2. /\ pc[j] = "error" /\ UNCHANGED <<child, held, written, value>>
      /\ IF Room(1) THEN fds' = fds \cup {<<j, "copy", "r">>} /\ Goto(j, "dest")
                    ELSE fds' = fds \ {} /\ Goto(j, "exit")
    BY DEF CopyOpen, tool
<1> QED BY <1>1, <1>2, CopyingStep

(* copyFile opens the destination, with the source open. *)
LEMMA CopyDestStep ==
    ASSUME Inv, NEW j \in Job, CopyDest(j)
    PROVE  Inv'
<1>1. {<<j, "copy", "r">>} \in SUBSET Fd /\ "w" \in End
    BY DEF Fd, End
<1>2. /\ pc[j] = "dest" /\ UNCHANGED <<child, held, written, value>>
      /\ IF Room(1) THEN fds' = fds \cup {<<j, "copy", "w">>} /\ Goto(j, "copying")
                    ELSE fds' = fds \ {<<j, "copy", "r">>} /\ Goto(j, "exit")
    BY DEF CopyDest, tool
<1> QED BY <1>1, <1>2, CopyingStep

(* The tools open nothing in ctrlcenter2. *)
LEMMA ToolStep ==
    ASSUME Inv, NEW j \in Job, Tool(j)
    PROVE  Inv'
<1>1. UNCHANGED <<pc, fds, value>> /\ child[j] = "running"
    BY DEF Tool, ToolWrites, ToolExits
<1>2. TrustedAnswer' /\ Pool' /\ Descriptors'
  <2>1. TrustedAnswer'
    <3>1. \A i \in Job : i # j => child'[i] = child[i]
        BY DEF Inv, TypeOK, Tool, ToolWrites, ToolExits
    <3> QED BY <1>1, <3>1 DEF Inv, TrustedAnswer
  <2>2. Pool'
      BY <1>1 DEF Inv, Pool, Active
  <2>3. Descriptors'
      BY <1>1 DEF Inv, Descriptors, Accounted, Ends
  <2> QED BY <2>1, <2>2, <2>3
<1>3. CASE ToolWrites(j)
  <2>1. PICK s \in {"out", "err"} :
          /\ child[j] = "running" /\ UNCHANGED <<child, held>>
          /\ written[j][s] < PipeSize
          /\ written' = [written EXCEPT ![j][s] = @ + 1]
      BY <1>3 DEF ToolWrites
  <2>2. PICK n \in 0 .. PipeSize : n = written[j][s] + 1
      BY <2>1, ToolAssumption DEF Inv, TypeOK
  <2>3. written' \in [Job -> [{"out", "err"} -> 0 .. PipeSize]]
        /\ \A i \in Job : i # j => written'[i] = written[i]
    <3>1. written' = [written EXCEPT ![j][s] = n]
        BY <2>1, <2>2
    <3> QED BY <3>1 DEF Inv, TypeOK
  <2>4. TypeOK'
      BY <1>1, <2>1, <2>3 DEF Inv, TypeOK
  <2>5. Outputs'
      BY <1>1, <2>1, <2>3 DEF Inv, Outputs, Ended
  <2> QED BY <1>2, <2>4, <2>5 DEF Inv
<1>4. CASE ToolExits(j)
  <2>1. PICK c \in Ended :
          /\ child' = [child EXCEPT ![j] = c] /\ held' = [held EXCEPT ![j] = {}]
          /\ c = "succeeded" => written[j] = Printed[j]
          /\ UNCHANGED written
      BY <1>4 DEF ToolExits, Ended
  <2>2. TypeOK'
      BY <1>1, <2>1 DEF Inv, TypeOK, Ended
  <2>3. Outputs'
      BY <1>1, <2>1 DEF Inv, TypeOK, Outputs
  <2> QED BY <1>2, <2>2, <2>3 DEF Inv
<1> QED BY <1>3, <1>4 DEF Tool

-----------------------------------------------------------------------------
(* No job has a thread and nothing is open at first. *)
LEMMA InvInit == Init => Inv
<1> SUFFICES ASSUME Init PROVE Inv
    OBVIOUS
<1>1. TypeOK
    BY ToolAssumption DEF Init, TypeOK, Steps
<1>2. Outputs
    BY DEF Init, Outputs, Ended
<1>3. TrustedAnswer
    BY DEF Init, TrustedAnswer
<1>4. Pool
  <2>1. Active = {}
      BY DEF Init, Active
  <2> QED BY <2>1, FS_EmptySet, ToolAssumption DEF Pool
<1>5. Descriptors
  <2>1. Accounted
      BY DEF Init, Accounted
  <2> QED BY <2>1, ToolAssumption DEF Init, Descriptors
<1> QED BY <1>1, <1>2, <1>3, <1>4, <1>5 DEF Inv

(* Every step keeps the invariant, one lemma per action. *)
LEMMA InvStep == Inv /\ [Next]_vars => Inv'
<1> SUFFICES ASSUME Inv, [Next]_vars PROVE Inv'
    OBVIOUS
<1>1. CASE UNCHANGED vars
  <2>1. UNCHANGED <<pc, fds, child, held, written, value>>
      BY <1>1 DEF vars
  <2>2. TypeOK' /\ Outputs' /\ TrustedAnswer'
      BY <2>1 DEF Inv, TypeOK, Outputs, TrustedAnswer
  <2>3. Pool'
      BY <2>1 DEF Inv, Pool, Active
  <2>4. Descriptors'
      BY <2>1 DEF Inv, Descriptors, Accounted, Ends
  <2> QED BY <2>2, <2>3, <2>4 DEF Inv
<1>2. ASSUME NEW j \in Job, Begin(j) PROVE Inv'
    BY <1>2, BeginStep
<1>3. ASSUME NEW j \in Job, Call(j) PROVE Inv'
    BY <1>3, OpenPipeStep, SpawnStep, CloseChildEndsStep, CloseStdinStep, WaitPidStep, FgetsStep,
       DestroyStep, HashErrorStep, CopyOpenStep, CopyDestStep, CopyEndStep DEF Call
<1>4. ASSUME NEW j \in Job, Tool(j) PROVE Inv'
    BY <1>4, ToolStep
<1> QED BY <1>1, <1>2, <1>3, <1>4 DEF Next

(* Inv holds in every state of the calls of runSubprocess. *)
THEOREM ToolRunInvariant == Spec => []Inv
BY InvInit, InvStep, PTL DEF Spec

(* The state of runSubprocess and of the pipes keeps its type: no pipe is  *)
(* filled beyond its size.                                                 *)
THEOREM ToolRunTypes == Spec => []TypeOK
<1>1. Inv => TypeOK
    BY DEF Inv
<1> QED BY <1>1, ToolRunInvariant, PTL

(* The answer that runSubprocess returns is of a tool that has succeeded,  *)
(* and is the whole first line of it (or its first 127 bytes), although    *)
(* stdout is read only once, after subprocess_join.                        *)
THEOREM AnswersAreTrusted == Spec => []TrustedAnswer
<1>1. Inv => TrustedAnswer
    BY DEF Inv
<1> QED BY <1>1, ToolRunInvariant, PTL

(* With six descriptors for each thread and for each missing executable,   *)
(* whose pipes subprocess_create leaves open, compressFile never meets the *)
(* failed open that makes it call exit(-1).                                *)
THEOREM SixDescriptorsSuffice == Spec => []NoExit
<1>1. Inv => NoExit
    BY DEF Inv, Descriptors, Enough, NoExit
<1> QED BY <1>1, ToolRunInvariant, PTL
=============================================================================
