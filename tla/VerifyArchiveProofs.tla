------------------------ MODULE VerifyArchiveProofs -------------------------
(***************************************************************************)
(* What a report of verify mode is worth, for every set of files, every    *)
(* choice of tools, and any number of runs, kills and damaged files.       *)
(***************************************************************************)
EXTENDS VerifyArchive, TLAPS

(* The temporary file of f is what this run has unpacked: lepton and       *)
(* precomp-cpp overwrite it, zpaq does not, but only a killed verify       *)
(* leaves one that matters.                                                *)
Trusted(f) == ~MakesFolders(f) \/ kills = 0

(* Between two jobs a file that was left behind is one of a damaged file.  *)
Leftover ==
    \A f \in File : MakesFolders(f) /\ kills = 0
                    /\ (mode # "jobs" \/ pc[f] \in {"run", "done"}) =>
        tempFile[f] = Absent \/ (tempFile[f] = "partial" /\ stored[f] = "bad")

(* What a job has unpacked and hashed so far. *)
Unpacked ==
    mode = "jobs" => \A f \in File :
        /\ pc[f] \in {"unpack", "hash", "delete"} => stored[f] # Absent
        /\ pc[f] = "unpack" => tempFile[f] = "partial"
        /\ pc[f] = "hash" => tempFile[f] # Absent
        /\ pc[f] = "hash" /\ Trusted(f) => (tempFile[f] = "good" <=> stored[f] = "good")

Hashed ==
    mode \in {"jobs", "reported"} => \A f \in File :
        /\ pc[f] \in {"delete", "done"} /\ Trusted(f) =>
              (result[f] = "good" => stored[f] = "good")
        /\ pc[f] \in {"delete", "done"} /\ MakesFolders(f) /\ kills = 0
           /\ stored[f] = "good" => result[f] = "good"

Compared ==
    mode = "reported" => \A f \in File : pc[f] = "done" /\ (f \in reported <=> result[f] # "good")

Inv == TypeOK /\ Leftover /\ Unpacked /\ Hashed /\ Compared

-----------------------------------------------------------------------------
(* Before the first verify the temporary folder is empty. *)
LEMMA InvInit == Init => Inv
BY VerifyAssumption
   DEF Init, Inv, TypeOK, Leftover, Unpacked, Hashed, Compared, Absent, Content

(* Every step of verify keeps the invariant. *)
LEMMA InvStep ==
    ASSUME Inv, [Next]_vars
    PROVE  Inv'
<1> USE VerifyAssumption DEF Inv, disk, job, working, Trusted
<1>1. CASE StartVerify
    <2>1. TypeOK'
        BY <1>1 DEF StartVerify, TypeOK, Content
    <2> QED BY <1>1, <2>1 DEF StartVerify, TypeOK, Leftover, Unpacked, Hashed, Compared
<1>2. CASE CompareHashes
    <2>1. TypeOK'
        BY <1>2 DEF CompareHashes, TypeOK
    <2> QED BY <1>2, <2>1 DEF CompareHashes, TypeOK, Leftover, Unpacked, Hashed, Compared
<1>3. CASE Kill
    <2>1. TypeOK'
        BY <1>3 DEF Kill, TypeOK
    <2> QED BY <1>3, <2>1 DEF Kill, TypeOK, Leftover, Unpacked, Hashed, Compared
<1>4. ASSUME NEW f \in File, Damage(f)
      PROVE  Inv'
    <2>1. TypeOK'
        BY <1>4 DEF Damage, TypeOK
    <2> QED BY <1>4, <2>1 DEF Damage, TypeOK, Leftover, Unpacked, Hashed, Compared
<1>5. ASSUME NEW f \in File, ToolRefuses(f)
      PROVE  Inv'
    <2>1. TypeOK'
        BY <1>5 DEF ToolRefuses, JobError, TypeOK
    <2> QED BY <1>5, <2>1 DEF ToolRefuses, JobError, CanOpen, TypeOK, Leftover, Unpacked,
                              Hashed, Compared
<1>6. ASSUME NEW f \in File, ToolSkips(f)
      PROVE  Inv'
    <2>1. TypeOK'
        BY <1>6 DEF ToolSkips, TypeOK
    <2> QED BY <1>6, <2>1 DEF ToolSkips, SkipsExisting, TypeOK, Leftover, Unpacked,
                              Hashed, Compared
<1>7. ASSUME NEW f \in File, ToolStarts(f)
      PROVE  Inv'
    <2>1. TypeOK'
        BY <1>7 DEF ToolStarts, TypeOK, Content, Dir
    <2> QED BY <1>7, <2>1 DEF ToolStarts, TypeOK, Leftover, Unpacked, Hashed, Compared
<1>8. ASSUME NEW f \in File, ToolEnds(f)
      PROVE  Inv'
    <2>1. TypeOK'
        BY <1>8 DEF ToolEnds, JobError, TypeOK, Content, Absent
    <2>2. /\ mode = "jobs" /\ pc[f] = "unpack"
          /\ UNCHANGED <<stored, mode, reported, kills>>
        BY <1>8 DEF ToolEnds
    <2>3. CASE /\ tempFile' = [tempFile EXCEPT ![f] = stored[f]]
               /\ pc' = [pc EXCEPT ![f] = "hash"] /\ UNCHANGED result
        BY <2>1, <2>2, <2>3 DEF TypeOK, Leftover, Unpacked, Hashed, Compared
    <2>4. CASE stored[f] = "bad" /\ JobError(f) /\ UNCHANGED tempFile
        <3>1. Leftover'
            <4>1. ASSUME NEW g \in File, g # f, MakesFolders(g), kills = 0,
                         pc'[g] \in {"run", "done"}
                  PROVE  tempFile[g] = Absent \/ (tempFile[g] = "partial" /\ stored[g] = "bad")
                BY <2>2, <2>4, <4>1 DEF JobError, TypeOK, Leftover
            <4>2. ASSUME kills = 0, MakesFolders(f)
                  PROVE  tempFile[f] = "partial"
                BY <2>2, <4>2 DEF Unpacked
            <4> QED BY <2>2, <2>4, <4>1, <4>2 DEF JobError, TypeOK, Leftover
        <3>2. Unpacked' /\ Hashed' /\ Compared'
            BY <2>1, <2>2, <2>4 DEF JobError, TypeOK, Unpacked, Hashed, Compared
        <3> QED BY <2>1, <3>1, <3>2
    <2> QED BY <1>8, <2>3, <2>4 DEF ToolEnds
<1>9. ASSUME NEW f \in File, HashTemp(f)
      PROVE  Inv'
    <2>1. TypeOK'
        BY <1>9 DEF HashTemp, TypeOK, Unpacked
    <2> QED BY <1>9, <2>1 DEF HashTemp, TypeOK, Leftover, Unpacked, Hashed, Compared
<1>10. ASSUME NEW f \in File, DeleteTemp(f)
       PROVE  Inv'
    <2>1. TypeOK'
        BY <1>10 DEF DeleteTemp, TypeOK
    <2> QED BY <1>10, <2>1 DEF DeleteTemp, TypeOK, Leftover, Unpacked, Hashed, Compared
<1>11. CASE UNCHANGED vars
    BY <1>11 DEF vars, TypeOK, Leftover, Unpacked, Hashed, Compared
<1> QED BY <1>1, <1>2, <1>3, <1>4, <1>5, <1>6, <1>7, <1>8, <1>9, <1>10, <1>11
        DEF Next, Job

(* The inductive invariant of verify mode. *)
THEOREM VerifyInvariant == Spec => []Inv
BY InvInit, InvStep, PTL DEF Spec

(* The jobs and the temporary files keep their types: a job hashes only a  *)
(* file that is there.                                                     *)
THEOREM VerifyTypes == Spec => []TypeOK
<1>1. Inv => TypeOK
    BY DEF Inv
<1> QED BY <1>1, VerifyInvariant, PTL

(* A file that verify does not report unpacks to what the list has a hash  *)
(* of, unless it is one of zpaq's and a verify was killed before.          *)
THEOREM VerifyMissesNothing == Spec => []MissesNothing
<1>1. Inv => MissesNothing
    BY DEF Inv, TypeOK, Hashed, Compared, MissesNothing, Trusted
<1> QED BY <1>1, VerifyInvariant, PTL

(* For the files that zpaq has compressed the report is exact as long as   *)
(* no verify was killed.                                                   *)
THEOREM VerifyExactForZpaq == Spec => []ZpaqExact
<1>1. Inv => ZpaqExact
    BY DEF Inv, TypeOK, Hashed, Compared, ZpaqExact, Trusted
<1> QED BY <1>1, VerifyInvariant, PTL
=============================================================================
