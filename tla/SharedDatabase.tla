--------------------------- MODULE SharedDatabase ---------------------------
(***************************************************************************)
(* Several runs of ctrlcenter2 that name the same database file: each      *)
(* loads it, create mode a second time, works, merges its list into what   *)
(* it has loaded and saves the result.  Nothing keeps two of them from     *)
(* doing so at the same time.                                              *)
(*                                                                         *)
(* The file is a sequence of blocks, here one entry long: fopen(.., "w")   *)
(* empties it, and a run that saves writes at its own position, whatever   *)
(* another one has done to the file.  Where nobody has written there is a  *)
(* hole, which parseBuffer takes for an entry.  BackupArchive has what one *)
(* run does in between, and what a crash leaves of the file.               *)
(***************************************************************************)
EXTENDS Naturals, Sequences, FiniteSets, Functions

CONSTANTS
    Run,        \* the runs
    Create,     \* those in create mode; the others merge
    Name,       \* the names of files
    List,       \* List[r]: the names in the filehashes.txt of run r
    Rebuild     \* the merges of a rebuilt database, which are run alone

Hole == "hole"

ASSUME RunAssumption ==
    /\ Create \subseteq Run /\ Rebuild \subseteq Run \ Create
    /\ List \in [Run -> Seq(Name)]
    /\ Hole \notin Name

VARIABLES
    db,         \* the blocks of the database file
    pc,         \* pc[r]: the step of run r
    loads,      \* loads[r]: how often it has still to load
    size,       \* size[r]: fileSize
    mem,        \* mem[r]: the entries it has read, its database
    at,         \* at[r]: how many entries of its list it has merged
    pos,        \* pos[r]: how many it has written
    removed,    \* the database was removed to be rebuilt
    overlapped  \* history: two runs were at work at the same time

run  == <<pc, loads, size, mem, at, pos>>
vars == <<db, run, removed, overlapped>>

Entry == Name \cup {Hole}

TypeOK ==
    /\ db \in Seq(Entry)
    /\ pc \in [Run -> {"new", "load", "read", "spin", "work", "save", "ended"}]
    /\ loads \in [Run -> 0 .. 2]
    /\ size \in [Run -> Nat]
    /\ mem \in [Run -> Seq(Entry)]
    /\ at \in [Run -> Nat] /\ pos \in [Run -> Nat]
    /\ \A r \in Run : pos[r] <= Len(mem[r])
    /\ removed \in BOOLEAN /\ overlapped \in BOOLEAN

Init ==
    /\ db = << >>
    /\ pc = [r \in Run |-> "new"]
    /\ loads = [r \in Run |-> IF r \in Create THEN 2 ELSE 1]
    /\ size = [r \in Run |-> 0]
    /\ mem = [r \in Run |-> << >>]
    /\ at = [r \in Run |-> 0]
    /\ pos = [r \in Run |-> 0]
    /\ removed = FALSE /\ overlapped = FALSE

Running == {r \in Run : pc[r] \notin {"new", "ended"}}
Goto(r, step) == pc' = [pc EXCEPT ![r] = step]

-----------------------------------------------------------------------------
(* The runs of a rebuild wait for each other, the rest for nobody. *)
Start(r) ==
    /\ pc[r] = "new"
    /\ IF r \in Rebuild THEN removed /\ Running = {} ELSE ~removed
    /\ Goto(r, "load")
    /\ overlapped' = (overlapped \/ Running # {})
    /\ UNCHANGED <<db, loads, size, mem, at, pos, removed>>

(* readFileHashes finds out how long the file is ... *)
OpenToRead(r) ==
    /\ pc[r] = "load"
    /\ size' = [size EXCEPT ![r] = Len(db)]
    /\ mem' = [mem EXCEPT ![r] = << >>]
    /\ loads' = [loads EXCEPT ![r] = @ - 1]
    /\ Goto(r, "read")
    /\ UNCHANGED <<db, at, pos, removed, overlapped>>

(* ... and reads until it has as much.  If the file has become shorter, it *)
(* stays in the loop: fread returns 0 from then on.                        *)
Read(r) ==
    /\ pc[r] = "read" /\ Len(mem[r]) < size[r]
    /\ IF Len(mem[r]) < Len(db)
       THEN mem' = [mem EXCEPT ![r] = Append(@, db[Len(@) + 1])] /\ UNCHANGED pc
       ELSE Goto(r, "spin") /\ UNCHANGED mem
    /\ UNCHANGED <<db, loads, size, at, pos, removed, overlapped>>

Loaded(r) ==
    /\ pc[r] = "read" /\ Len(mem[r]) = size[r]
    /\ Goto(r, IF loads[r] > 0 THEN "load" ELSE "work")
    /\ UNCHANGED <<db, loads, size, mem, at, pos, removed, overlapped>>

(* A mistake for the check of KeepsWithoutOverlap: a name that is not      *)
(* there takes the place of the last entry.                                *)
merged_over_last(entries, name) ==
    IF name \in Range(entries) THEN entries
    ELSE IF entries = << >> THEN <<name>>
    ELSE [entries EXCEPT ![Len(entries)] = name]

(* A mistake for the check of RebuildExact: names are not looked up. *)
merged_blindly(entries, name) == Append(entries, name)

(* mergeUpdates: a name that is not there yet comes at the end. *)
merged(entries, name) ==
    IF name \in Range(entries) THEN entries ELSE Append(entries, name)

(* The work of the run, and the merge of its list.  Create mode merges the *)
(* same list twice, which changes no name.                                 *)
MergeUpdates(r) ==
    /\ pc[r] = "work" /\ at[r] < Len(List[r])
    /\ mem' = [mem EXCEPT ![r] = merged(@, List[r][at[r] + 1])]
    /\ at' = [at EXCEPT ![r] = @ + 1]
    /\ UNCHANGED <<db, pc, loads, size, pos, removed, overlapped>>

(* saveFileHashes empties the file ... *)
OpenToWrite(r) ==
    /\ pc[r] = "work" /\ at[r] = Len(List[r])
    /\ db' = << >>
    /\ Goto(r, "save")
    /\ UNCHANGED <<loads, size, mem, at, pos, removed, overlapped>>

(* What a file is after a block was written at position i. *)
WriteAt(file, i, entry) ==
    [k \in 1 .. (IF i > Len(file) THEN i ELSE Len(file)) |->
        IF k = i THEN entry ELSE IF k <= Len(file) THEN file[k] ELSE Hole]

(* A mistake for the check of TypeOK: one entry too many is written. *)
WriteOneMore(r) ==
    /\ pc[r] = "save" /\ pos[r] <= Len(mem[r])
    /\ db' = WriteAt(db, pos[r] + 1, Hole)
    /\ pos' = [pos EXCEPT ![r] = @ + 1]
    /\ UNCHANGED <<pc, loads, size, mem, at, removed, overlapped>>

(* ... and writes its entries. *)
Write(r) ==
    /\ pc[r] = "save" /\ pos[r] < Len(mem[r])
    /\ db' = WriteAt(db, pos[r] + 1, mem[r][pos[r] + 1])
    /\ pos' = [pos EXCEPT ![r] = @ + 1]
    /\ UNCHANGED <<pc, loads, size, mem, at, removed, overlapped>>

Close(r) ==
    /\ pc[r] = "save" /\ pos[r] = Len(mem[r])
    /\ Goto(r, "ended")
    /\ UNCHANGED <<db, loads, size, mem, at, pos, removed, overlapped>>

(* The user stops a run that hangs. *)
KillHanging(r) ==
    /\ pc[r] = "spin"
    /\ Goto(r, "ended")
    /\ UNCHANGED <<db, loads, size, mem, at, pos, removed, overlapped>>

(* "start by removing the current database file and merge the hashfiles    *)
(* from all backups into the database" (concept.txt:95)                    *)
RemoveDatabase ==
    /\ ~removed /\ Running = {}
    /\ db' = << >>
    /\ removed' = TRUE
    /\ UNCHANGED <<run, overlapped>>

Step(r) == OpenToRead(r) \/ Read(r) \/ Loaded(r) \/ MergeUpdates(r)
           \/ OpenToWrite(r) \/ Write(r) \/ Close(r)

Over == removed /\ Running = {} /\ \A r \in Rebuild : pc[r] = "ended"

Next == \/ \E r \in Run : Start(r) \/ Step(r) \/ KillHanging(r)
        \/ RemoveDatabase
        \/ Over /\ UNCHANGED vars

Spec == Init /\ [][Next]_vars

-----------------------------------------------------------------------------
Saved(r) == pc[r] = "ended" /\ pos[r] > 0

(* "Deleted files will stay in the database file" (concept.txt:90): what a *)
(* run has saved is in the database when no run is at work.                *)
SavedStays ==
    Running = {} /\ ~removed =>
        \A r \in Run : Saved(r) => Range(List[r]) \subseteq Range(db)

(* That holds as long as no two runs were at work at the same time; the    *)
(* file then has every name once, and no run waits for bytes that the file *)
(* no longer has.                                                          *)
KeepsWithoutOverlap ==
    ~overlapped => /\ SavedStays
                   /\ \A r \in Run : pc[r] # "spin"
                   /\ Running = {} => IsInjective(db) /\ Hole \notin Range(db)

(* A database that is rebuilt as concept.txt says has the names of all     *)
(* lists and nothing else, whatever the runs before have done to it.       *)
RebuildExact ==
    (removed /\ Running = {} /\ \A r \in Rebuild : pc[r] = "ended") =>
        /\ Range(db) = UNION {Range(List[r]) : r \in Rebuild}
        /\ IsInjective(db)
=============================================================================
