--------------------------- MODULE VerifyArchive ----------------------------
(***************************************************************************)
(* ctrlcenter2 -v: every entry of the set's filehashes.txt is decompressed *)
(* to a temporary file by a job of the thread pool, that file is hashed    *)
(* and deleted, and when all jobs are done the hashes are compared.        *)
(*                                                                         *)
(* The archive is one that create mode has written: a file may be there    *)
(* compressed, as a plain copy since its tool failed, or not at all since  *)
(* it is the same as in an older set.  A hash stands for the content it    *)
(* is of: "good" is the content whose hash the list has.  Between two runs *)
(* of verify a stored file may be damaged.  A job leaves its temporary     *)
(* file behind when its tool fails or the program is killed.               *)
(***************************************************************************)
EXTENDS Naturals, FiniteSets

CONSTANTS
    File,       \* the entries of filehashes.txt
    Lepton,     \* those that decompressFile gives to lepton
    Precomp,    \* those that it gives to precomp-cpp, the rest is for zpaq
    Copied,     \* those that are in the set as plain copies
    Older,      \* those that are only in an older set
    Folder,     \* Folder[f]: the folder of f
    MaxRuns,    \* bound: how often verify is started
    MaxDamage,  \* bound: how often a stored file is damaged
    MaxKill     \* bound: how often verify is killed

ASSUME VerifyAssumption ==
    /\ Lepton \cup Precomp \cup Copied \cup Older \subseteq File
    /\ Lepton \cap Precomp = {}
    /\ MaxRuns \in Nat /\ MaxDamage \in Nat /\ MaxKill \in Nat

Absent == "absent"
Content == {"good", "bad", "partial"}
Dir == {Folder[f] : f \in File}

VARIABLES
    stored,     \* stored[f]: what the compressed file of f unpacks to
    tempFile,   \* tempFile[f]: what is in the temporary file of f
    tempDir,    \* the folders of the set that exist below temporaryFolder
    mode,       \* what the program does
    pc,         \* pc[f]: the step of the job of f
    result,     \* result[f]: the hash that the job of f returned
    reported,   \* the files with a hash mismatch
    runs, damages, kills

disk == <<stored, tempFile, tempDir>>
job  == <<pc, result>>
vars == <<disk, mode, job, reported, runs, damages, kills>>

TypeOK ==
    /\ stored \in [File -> {"good", "bad", Absent}]
    /\ tempFile \in [File -> Content \cup {Absent}]
    /\ tempDir \subseteq Dir
    /\ mode \in {"off", "jobs", "reported"}
    /\ pc \in [File -> {"run", "unpack", "hash", "delete", "done"}]
    /\ result \in [File -> Content \cup {"ERROR"}]
    /\ reported \subseteq File
    /\ runs \in 0 .. MaxRuns /\ damages \in 0 .. MaxDamage /\ kills \in 0 .. MaxKill

Init ==
    /\ stored = [f \in File |-> IF f \in Copied \cup Older THEN Absent ELSE "good"]
    /\ tempFile = [f \in File |-> Absent]
    /\ tempDir = {}
    /\ mode = "off"
    /\ pc = [f \in File |-> "run"]
    /\ result = [f \in File |-> "ERROR"]
    /\ reported = {}
    /\ runs = 0 /\ damages = 0 /\ kills = 0

-----------------------------------------------------------------------------
(* verifyArchive reads the list and pushes a job for every entry. *)
StartVerify ==
    /\ mode \in {"off", "reported"} /\ runs < MaxRuns
    /\ mode' = "jobs"
    /\ runs' = runs + 1
    /\ pc' = [f \in File |-> "run"]
    /\ result' = [f \in File |-> "ERROR"]
    /\ reported' = {}
    /\ UNCHANGED <<disk, damages, kills>>

(* Lepton and precomp-cpp open their output as it is; zpaq makes the       *)
(* folders of its output.                                                  *)
MakesFolders(f) == f \notin Lepton \cup Precomp
CanOpen(f) == MakesFolders(f) \/ Folder[f] \in tempDir

(* Without -force zpaq leaves out a file that exists, and returns 0. *)
SkipsExisting(f) == MakesFolders(f) /\ tempFile[f] # Absent

JobError(f) ==
    /\ pc' = [pc EXCEPT ![f] = "done"]
    /\ result' = [result EXCEPT ![f] = "ERROR"]

working == <<mode, reported, runs, damages, kills>>

(* decompressFile starts the tool, which finds no compressed file, cannot  *)
(* open its output or notices the damage first, ...                        *)
ToolRefuses(f) ==
    /\ mode = "jobs" /\ pc[f] = "run"
    /\ stored[f] # "good" \/ ~CanOpen(f)
    /\ ~(stored[f] = "bad" /\ SkipsExisting(f))
    /\ JobError(f)
    /\ UNCHANGED <<disk, working>>

(* ... or does nothing, ... *)
ToolSkips(f) ==
    /\ mode = "jobs" /\ pc[f] = "run"
    /\ stored[f] # Absent /\ SkipsExisting(f)
    /\ pc' = [pc EXCEPT ![f] = "hash"]
    /\ UNCHANGED <<disk, result, working>>

(* ... or begins to write ... *)
ToolStarts(f) ==
    /\ mode = "jobs" /\ pc[f] = "run"
    /\ stored[f] # Absent /\ CanOpen(f) /\ ~SkipsExisting(f)
    /\ tempDir' = tempDir \cup {Folder[f]}
    /\ tempFile' = [tempFile EXCEPT ![f] = "partial"]
    /\ pc' = [pc EXCEPT ![f] = "unpack"]
    /\ UNCHANGED <<stored, result, working>>

(* A mistake for the check of TypeOK: the output is somewhere else. *)
ToolEndsElsewhere(f) ==
    /\ mode = "jobs" /\ pc[f] = "unpack"
    /\ tempFile' = [tempFile EXCEPT ![f] = Absent]
    /\ pc' = [pc EXCEPT ![f] = "hash"]
    /\ UNCHANGED <<stored, tempDir, result, working>>

(* ... and ends.  The damage may have changed what comes out, or the tool  *)
(* notices it and returns an error; the job then leaves its file there.    *)
ToolEnds(f) ==
    /\ mode = "jobs" /\ pc[f] = "unpack"
    /\ \/ /\ tempFile' = [tempFile EXCEPT ![f] = stored[f]]
          /\ pc' = [pc EXCEPT ![f] = "hash"]
          /\ UNCHANGED result
       \/ /\ stored[f] = "bad"
          /\ JobError(f)
          /\ UNCHANGED tempFile
    /\ UNCHANGED <<stored, tempDir, working>>

(* The temporary file is hashed ... *)
HashTemp(f) ==
    /\ mode = "jobs" /\ pc[f] = "hash"
    /\ result' = [result EXCEPT ![f] = tempFile[f]]
    /\ pc' = [pc EXCEPT ![f] = "delete"]
    /\ UNCHANGED <<disk, working>>

(* A mistake for the check of MissesNothing: the file is not deleted. *)
KeepTemp(f) ==
    /\ mode = "jobs" /\ pc[f] = "delete"
    /\ pc' = [pc EXCEPT ![f] = "done"]
    /\ UNCHANGED <<disk, result, working>>

(* ... and deleted. *)
DeleteTemp(f) ==
    /\ mode = "jobs" /\ pc[f] = "delete"
    /\ tempFile' = [tempFile EXCEPT ![f] = Absent]
    /\ pc' = [pc EXCEPT ![f] = "done"]
    /\ UNCHANGED <<stored, tempDir, result, working>>

(* A mistake for the check of ZpaqExact: a result without a hash is left   *)
(* out.                                                                    *)
CompareHashesOnly ==
    /\ mode = "jobs"
    /\ \A f \in File : pc[f] = "done"
    /\ reported' = {f \in File : result[f] \notin {"good", "ERROR"}}
    /\ mode' = "reported"
    /\ UNCHANGED <<disk, job, runs, damages, kills>>

(* When all jobs are done, the hashes are compared.  The text "ERROR" of a *)
(* job has no second word, and so no hash.                                 *)
CompareHashes ==
    /\ mode = "jobs"
    /\ \A f \in File : pc[f] = "done"
    /\ reported' = {f \in File : result[f] # "good"}
    /\ mode' = "reported"
    /\ UNCHANGED <<disk, job, runs, damages, kills>>

-----------------------------------------------------------------------------
(* A stored file is damaged while it is not being read. *)
Damage(f) ==
    /\ mode # "jobs" /\ damages < MaxDamage
    /\ stored[f] = "good"
    /\ stored' = [stored EXCEPT ![f] = "bad"]
    /\ mode' = "off"
    /\ damages' = damages + 1
    /\ UNCHANGED <<tempFile, tempDir, job, reported, runs, kills>>

(* The program is killed, or a hash tool fails and calls exit(-1). *)
Kill ==
    /\ mode = "jobs" /\ kills < MaxKill
    /\ mode' = "off"
    /\ kills' = kills + 1
    /\ UNCHANGED <<disk, job, reported, runs, damages>>

Job(f) == ToolRefuses(f) \/ ToolSkips(f) \/ ToolStarts(f) \/ ToolEnds(f)
          \/ HashTemp(f) \/ DeleteTemp(f)

Over == mode # "jobs" /\ runs = MaxRuns

Next == \/ StartVerify \/ CompareHashes \/ Kill
        \/ \E f \in File : Job(f) \/ Damage(f)
        \/ Over /\ UNCHANGED vars

Spec == Init /\ [][Next]_vars

-----------------------------------------------------------------------------
(* "you optional can check that the decompressed files match the hashes of *)
(* the input files by doing a verification" (readme.txt:13): a file that   *)
(* is not reported unpacks to the content that the list has a hash of.     *)
(* Only a file of zpaq's that a killed verify was at may be missed, since  *)
(* zpaq leaves the old temporary file as it is.                            *)
MissesNothing ==
    mode = "reported" =>
        \A f \in File \ reported :
            stored[f] = "good" \/ (MakesFolders(f) /\ kills > 0)

(* For the files that zpaq has compressed the report is exact, whatever    *)
(* order the jobs run in and however often verify was run before, as long  *)
(* as none was killed.  For the other files it is not: lepton cannot open  *)
(* its output before a job of zpaq has made the folder.                    *)
ZpaqExact ==
    mode = "reported" /\ kills = 0 =>
        \A f \in File : MakesFolders(f) /\ stored[f] # Absent =>
            (f \in reported <=> stored[f] = "bad")
=============================================================================
