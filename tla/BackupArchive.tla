--------------------------- MODULE BackupArchive ----------------------------
(***************************************************************************)
(* The modes "create" and "merge" of ctrlcenter2: createOrUpdateArchive,   *)
(* mergeFilelistToDatabase, the functions that hash and compress one file, *)
(* and the disk they work on.  One process runs at a time; it may die at   *)
(* every step (a kill, a power cut, exit(-1)), it may run again, and the   *)
(* user edits the input folder whenever he likes.                          *)
(*                                                                         *)
(* The jobs of the two parallel phases are the set pending: any job that   *)
(* is still open may finish next, and the phase is over when none is left. *)
(* TaskPool shows that this is what the thread pool does.                  *)
(*                                                                         *)
(* Backup sets are numbered: concept.txt asks for a different (or cleared) *)
(* output folder for every run that writes one.                            *)
(***************************************************************************)
EXTENDS FileHashes, FiniteSets

CONSTANTS
    Content,    \* what a file can contain
    Absent,     \* "there is no such file"
    Meow,       \* Meow[c]: the hash of content c
    UnableHash, \* the word the hash tool's error message has in its place
    Reported,   \* Reported[p]: p as it is read back from the hash tool
    Tool,       \* Tool[p]: the compressor that p's extension selects
    Symlink,    \* the paths that are symbolic links to regular files
    Unreadable, \* the paths in folders that cannot be opened
    MaxSets,    \* bound: number of backup sets written
    MaxEdits,   \* bound: number of times the user edits a file
    MaxFaults   \* bound: number of crashes, exits and failures

ASSUME BackupAssumption ==
    /\ IsFiniteSet(Path)
    /\ Absent \notin Content
    /\ Meow \in [Content -> Hash]
    /\ UnableHash \in Hash
    /\ Reported \in [Path -> Path]
    /\ Tool \in [Path -> {"lepton", "precomp", "zpaq"}]
    /\ Symlink \subseteq Path
    /\ Unreadable \subseteq Path
    /\ {MaxSets, MaxEdits, MaxFaults} \subseteq Nat

VARIABLES
    \* the disk
    input,          \* the input folder: what each path contains, or Absent
    archive,        \* the copies in the backup sets
    lists,          \* lists[n]: the filehashes.txt of set n
    dbFile,         \* the database file
    \* the process
    pc,             \* where it is
    dryRunFlag,
    filesToProcess, \* the files found, in the order they were found
    pending,        \* jobs of the thread pool that have not finished
    results,        \* results[i]: the entries in the output of hash job i
    filesHashes,    \* the list of the files found
    k,              \* the loop counter
    database,       \* gConfiguration.database
    \* history
    touched,        \* entries of files edited while a run was looking at them
    unlisted,       \* sets whose filehashes.txt was not saved in full
    edits,          \* number of edits so far
    faults          \* number of faults so far

disk    == <<input, archive, lists, dbFile>>
memory  == <<dryRunFlag, filesToProcess, pending, results, filesHashes, k,
             database>>
history == <<touched, unlisted, edits>>
vars    == <<disk, pc, memory, history, faults>>

(* A copy of one file in one backup set, compressed or plain. *)
Copy == [set : 1 .. MaxSets, path : Path, content : Content]

(* The number of the set that is being written. *)
folder == Len(lists)

CreateSteps == {"scan", "hash", "parse", "compress", "list", "merge",
                "remerge"}
Steps == CreateSteps \cup {"idle", "import", "save", "done", "failed"}

TypeOK ==
    /\ input \in [Path -> Content \cup {Absent}]
    /\ archive \subseteq Copy
    /\ lists \in Seq(Seq(FileEntry)) /\ Len(lists) <= MaxSets
    /\ dbFile \in Seq(FileEntry)
    /\ pc \in Steps
    /\ dryRunFlag \in BOOLEAN
    /\ filesToProcess \in Seq(Path)
    /\ pending \subseteq Nat
    /\ results \in Seq(Seq(FileEntry))
    /\ filesHashes \in Seq(FileEntry)
    /\ k \in Nat
    /\ database \in Seq(FileEntry)
    /\ touched \subseteq FileEntry
    /\ unlisted \subseteq Nat
    /\ edits \in 0 .. MaxEdits
    /\ faults \in 0 .. MaxFaults

Init ==
    /\ input \in [Path -> Content \cup {Absent}]
    /\ archive = {}
    /\ lists = << >>
    /\ dbFile = << >>
    /\ pc = "idle"
    /\ dryRunFlag = FALSE
    /\ filesToProcess = << >>
    /\ pending = {}
    /\ results = << >>
    /\ filesHashes = << >>
    /\ k = 0
    /\ database = << >>
    /\ touched = {}
    /\ unlisted = {}
    /\ edits = 0
    /\ faults = 0

(* The process ends, whatever the reason: its memory is gone. *)
EndProcess ==
    /\ pc' = "idle"
    /\ dryRunFlag' = FALSE
    /\ filesToProcess' = << >>
    /\ pending' = {}
    /\ results' = << >>
    /\ filesHashes' = << >>
    /\ k' = 0
    /\ database' = << >>

(* Something goes wrong. *)
Fault == faults < MaxFaults /\ faults' = faults + 1

-----------------------------------------------------------------------------
(* A mistake for the check of NamesKept: the database is not loaded.       *)
StartCreateBlank(dry) ==
    /\ pc = "idle"
    /\ dry \/ Len(lists) < MaxSets
    /\ database' = << >>
    /\ dryRunFlag' = dry
    /\ lists' = IF dry THEN lists ELSE Append(lists, << >>)
    /\ pc' = "scan"
    /\ UNCHANGED <<input, archive, dbFile, filesToProcess, pending, results,
                   filesHashes, k, history, faults>>

(* main(), with -c: the configuration and the first load of the database,  *)
(* which createOrUpdateArchive() loads a second time.  A run that writes   *)
(* gets a new output folder.                                               *)
StartCreate(dry) ==
    /\ pc = "idle"
    /\ dry \/ Len(lists) < MaxSets
    /\ database' = dbFile
    /\ dryRunFlag' = dry
    /\ lists' = IF dry THEN lists ELSE Append(lists, << >>)
    /\ pc' = "scan"
    /\ UNCHANGED <<input, archive, dbFile, filesToProcess, pending, results,
                   filesHashes, k, history, faults>>

(* Every order in which the files of S can be found. *)
Orders(S) == {s \in [1 .. Cardinality(S) -> S] : Range(s) = S}

(* The scan of the input folder, and the start of one hash job per file.   *)
(* A folder that cannot be opened is skipped without a word.               *)
Scan ==
    /\ pc = "scan"
    /\ \E s \in Orders({p \in Path \ Unreadable : input[p] # Absent}) :
          /\ filesToProcess' = s
          /\ pending' = DOMAIN s
          /\ results' = [i \in DOMAIN s |-> << >>]
    /\ pc' = "hash"
    /\ UNCHANGED <<disk, dryRunFlag, filesHashes, k, database, history,
                   faults>>

(* What the hash tool prints for a file it cannot open: "ERROR: Unable to  *)
(* load ...", of which parseBuffer makes an entry, and it still returns 0. *)
UnableLine == << [mHashValue |-> UnableHash, mPath |-> Garbage] >>

(* What the hash tool prints for path p, as runSubprocess hands it on and  *)
(* parseBuffer reads it: "MeowHash <hash> <path>", of which fgets keeps    *)
(* the first 127 characters.                                               *)
HashOutput(p) ==
    IF input[p] = Absent
    THEN UnableLine
    ELSE << [mHashValue |-> Meow[input[p]], mPath |-> Reported[p]] >>

(* A hash job ends.  For a file that may not be read the tool prints its   *)
(* error message, and without memory for the file nothing.                 *)
HashFile(i) ==
    /\ pc = "hash"
    /\ i \in pending
    /\ \/ /\ results' = [results EXCEPT ![i] = HashOutput(filesToProcess[i])]
          /\ UNCHANGED faults
       \/ /\ input[filesToProcess[i]] # Absent
          /\ \E output \in {UnableLine, << >>} :
                results' = [results EXCEPT ![i] = output]
          /\ Fault
    /\ pending' = pending \ {i}
    /\ UNCHANGED <<disk, pc, dryRunFlag, filesToProcess, filesHashes, k,
                   database, history>>

(* A hash job cannot run the tool, or the tool fails: exit(-1). *)
HashFileExits(i) ==
    /\ pc = "hash"
    /\ i \in pending
    /\ Fault
    /\ EndProcess
    /\ UNCHANGED <<disk, history>>

(* while(!quickpool::done()) is left. *)
HashingDone ==
    /\ pc = "hash"
    /\ pending = {}
    /\ pc' = "parse"
    /\ k' = 1
    /\ UNCHANGED <<disk, dryRunFlag, filesToProcess, pending, results,
                   filesHashes, database, history, faults>>

(* One future's result is appended to the list. *)
ParseResult ==
    /\ pc = "parse"
    /\ k <= Len(results)
    /\ filesHashes' = filesHashes \o results[k]
    /\ k' = k + 1
    /\ UNCHANGED <<disk, pc, dryRunFlag, filesToProcess, pending, results,
                   database, history, faults>>

(* A mistake for the checks of ListSound and BackupComplete: only new      *)
(* files are compressed.                                                   *)
CompressNewOnly ==
    /\ pc = "parse"
    /\ k > Len(results)
    /\ pending' = {i \in DOMAIN filesHashes :
                     CompareResult(filesHashes[i], database) = "eNew"}
    /\ pc' = "compress"
    /\ UNCHANGED <<disk, dryRunFlag, filesToProcess, results, filesHashes, k,
                   database, history, faults>>

(* The comparison with the database, the folders in the output folder      *)
(* (whose failure nobody looks at: it shows as a failure of a tool), and   *)
(* the start of one compression job per new or changed file.               *)
CompareToDatabase ==
    /\ pc = "parse"
    /\ k > Len(results)
    /\ pending' = {i \in DOMAIN filesHashes :
                     CompareResult(filesHashes[i], database) # "eSame"}
    /\ pc' = "compress"
    /\ UNCHANGED <<disk, dryRunFlag, filesToProcess, results, filesHashes, k,
                   database, history, faults>>

-----------------------------------------------------------------------------
(* The copy of path p, as it is now, in the set that is being written. *)
CopyOf(p) == [set |-> folder, path |-> p, content |-> input[p]]

(* Which outcomes the compressor of a path can have.  The program that     *)
(* compressFile starts for mp3, png, pdf and zip files, "precomnp-cpp",    *)
(* does not exist, so these jobs never succeed.                            *)
ToolCanWrite(p) ==
    /\ p \in Path
    /\ input[p] # Absent
    /\ \/ Tool[p] = "lepton"
       \/ Tool[p] = "zpaq" /\ p \notin Symlink

(* zpaq returns 0 and writes nothing for a path that does not exist and    *)
(* for one that is not a regular file; a garbled name has no extension     *)
(* that another tool is chosen for.                                        *)
ToolCanSkip(p) ==
    p \in Path => /\ Tool[p] = "zpaq"
                  /\ input[p] = Absent \/ p \in Symlink

(* A compression job: the tool writes the copy ...                         *)
ToolWrites(p) ==
    /\ ToolCanWrite(p)
    /\ archive' = archive \cup {CopyOf(p)}
    /\ UNCHANGED faults

(* ... or returns 0 having written nothing ...                             *)
ToolSkips(p) ==
    /\ ToolCanSkip(p)
    /\ UNCHANGED <<archive, faults>>

(* A mistake for the check of TypeOK: the copy of a file that is gone      *)
(* counts as made.                                                         *)
CopiesBlindly(p) ==
    /\ p \in Path
    /\ archive' = archive \cup {CopyOf(p)}
    /\ UNCHANGED faults

(* ... or fails, and the file is copied as it is.                          *)
ToolFailsAndCopies(p) ==
    /\ p \in Path /\ input[p] # Absent
    /\ archive' = archive \cup {CopyOf(p)}
    /\ IF Tool[p] = "precomp" THEN UNCHANGED faults ELSE Fault

(* compressFile() for entry i.  In a dry run it prints the command only.   *)
CompressFile(i) ==
    /\ pc = "compress"
    /\ i \in pending
    /\ LET p == filesHashes[i].mPath
       IN  IF dryRunFlag
           THEN UNCHANGED <<archive, faults>>
           ELSE ToolWrites(p) \/ ToolSkips(p) \/ ToolFailsAndCopies(p)
    /\ pending' = pending \ {i}
    /\ UNCHANGED <<input, lists, dbFile, pc, dryRunFlag, filesToProcess,
                   results, filesHashes, k, database, history>>

(* The tool fails and the copy fails as well: exit(-1).  This is all that  *)
(* can happen when a file that zpaq does not handle is gone.               *)
CompressFileExits(i) ==
    /\ pc = "compress"
    /\ i \in pending
    /\ ~dryRunFlag
    /\ LET p == filesHashes[i].mPath
       IN  IF p \in Path /\ input[p] = Absent /\ ~ToolCanSkip(p)
           THEN UNCHANGED faults
           ELSE Fault
    /\ EndProcess
    /\ UNCHANGED <<disk, history>>

(* A mistake for the check of DbSound: the pool is not waited for.         *)
CompressionNotAwaited ==
    /\ pc = "compress"
    /\ pc' = "list"
    /\ UNCHANGED <<disk, memory, history, faults>>

(* while(!quickpool::done()) is left, and the statistics are printed. *)
CompressionDone ==
    /\ pc = "compress"
    /\ pending = {}
    /\ pc' = "list"
    /\ UNCHANGED <<disk, memory, history, faults>>

-----------------------------------------------------------------------------
(* A mistake for the check of DbFromLists: the wrong list is saved.        *)
WriteWrongList ==
    /\ pc = "list"
    /\ lists' = IF dryRunFlag THEN lists
                ELSE [lists EXCEPT ![folder] = database]
    /\ pc' = "merge"
    /\ k' = 1
    /\ UNCHANGED <<input, archive, dbFile, dryRunFlag, filesToProcess, pending,
                   results, filesHashes, database, history, faults>>

(* filesHashes.saveFileHashes(filehashesName), whose result is ignored: a  *)
(* file that cannot be opened or written to goes unnoticed.                *)
WriteFileHashes ==
    /\ pc = "list"
    /\ \/ dryRunFlag /\ UNCHANGED <<lists, unlisted, faults>>
       \/ /\ ~dryRunFlag
          /\ lists' = [lists EXCEPT ![folder] = filesHashes]
          /\ UNCHANGED <<unlisted, faults>>
       \/ /\ ~dryRunFlag
          /\ Fault
          /\ \E written \in ShortWrites(filesHashes) \cup {lists[folder]} :
                lists' = [lists EXCEPT ![folder] = written]
          /\ unlisted' = unlisted \cup {folder}
    /\ pc' = "merge"
    /\ k' = 1
    /\ UNCHANGED <<input, archive, dbFile, dryRunFlag, filesToProcess,
                   pending, results, filesHashes, database, touched, edits>>

(* main(), with -m: the database is loaded, then the filehashes.txt of the *)
(* set the user names.                                                     *)
StartMerge(n, dry) ==
    /\ pc = "idle"
    /\ database' = dbFile
    /\ filesHashes' = lists[n]
    /\ dryRunFlag' = dry
    /\ pc' = "import"
    /\ k' = 1
    /\ UNCHANGED <<disk, filesToProcess, pending, results, history, faults>>

(* One round of the loop of database.mergeUpdates(). *)
MergeOne ==
    /\ pc \in {"merge", "remerge", "import"}
    /\ k <= Len(filesHashes)
    /\ database' = MergeUpdate(database, filesHashes[k])
    /\ k' = k + 1
    /\ UNCHANGED <<disk, pc, dryRunFlag, filesToProcess, pending, results,
                   filesHashes, history, faults>>

(* mergeUpdates() returns.  createOrUpdateArchive() calls it once, and     *)
(* once more before it saves.                                              *)
MergeDone ==
    /\ pc \in {"merge", "remerge", "import"}
    /\ k > Len(filesHashes)
    /\ pc' = IF dryRunFlag THEN "done"
             ELSE IF pc = "merge" THEN "remerge" ELSE "save"
    /\ k' = 1
    /\ UNCHANGED <<disk, dryRunFlag, filesToProcess, pending, results,
                   filesHashes, database, history, faults>>

(* database.saveFileHashes(databaseFilename).  A file that cannot be       *)
(* opened is reported, a full disk is not.                                 *)
SaveDatabase ==
    /\ pc = "save"
    /\ \/ /\ dbFile' = database
          /\ pc' = "done"
          /\ UNCHANGED faults
       \/ /\ Fault
          /\ dbFile' \in ShortWrites(database) \cup {dbFile}
          /\ pc' = "failed"
    /\ UNCHANGED <<input, archive, lists, memory, history>>

(* main() returns. *)
Finish ==
    /\ pc \in {"done", "failed"}
    /\ EndProcess
    /\ UNCHANGED <<disk, history, faults>>

-----------------------------------------------------------------------------
(* The process is killed.  What it was writing is cut off. *)
Crash ==
    /\ pc # "idle"
    /\ Fault
    /\ EndProcess
    /\ \/ UNCHANGED <<lists, dbFile>>
       \/ /\ pc = "list" /\ ~dryRunFlag
          /\ \E written \in ShortWrites(filesHashes) :
                lists' = [lists EXCEPT ![folder] = written]
          /\ UNCHANGED dbFile
       \/ /\ pc = "save"
          /\ dbFile' \in ShortWrites(database)
          /\ UNCHANGED lists
    /\ UNCHANGED <<input, archive, history>>

(* The entry that file p, as it is now, should have in a list. *)
EntryOf(p) == [mHashValue |-> Meow[input[p]], mPath |-> p]

(* The user writes or removes a file.  From the hash of a file to the end  *)
(* of its compression, a run that writes assumes that it stays as it is:   *)
(* the entry it has, or will never have, in that run is noted.             *)
Edit(p, c) ==
    /\ edits < MaxEdits
    /\ input[p] # c
    /\ input' = [input EXCEPT ![p] = c]
    /\ touched' = IF /\ pc \in {"hash", "parse", "compress"}
                     /\ ~dryRunFlag
                     /\ input[p] # Absent
                  THEN touched \cup {EntryOf(p)} ELSE touched
    /\ edits' = edits + 1
    /\ UNCHANGED <<archive, lists, dbFile, pc, memory, unlisted, faults>>

(* The database is lost. *)
LoseDatabase ==
    /\ pc = "idle"
    /\ dbFile # << >>
    /\ Fault
    /\ dbFile' = << >>
    /\ UNCHANGED <<input, archive, lists, pc, memory, history>>

-----------------------------------------------------------------------------
Create ==
    \/ \E dry \in BOOLEAN : StartCreate(dry)
    \/ Scan
    \/ \E i \in pending : HashFile(i)
    \/ \E i \in pending : HashFileExits(i)
    \/ HashingDone
    \/ ParseResult
    \/ CompareToDatabase
    \/ \E i \in pending : CompressFile(i)
    \/ \E i \in pending : CompressFileExits(i)
    \/ CompressionDone
    \/ WriteFileHashes

MergeAndSave ==
    \/ \E n \in DOMAIN lists, dry \in BOOLEAN : StartMerge(n, dry)
    \/ MergeOne
    \/ MergeDone
    \/ SaveDatabase
    \/ Finish

Environment ==
    \/ Crash
    \/ \E p \in Path, c \in Content \cup {Absent} : Edit(p, c)
    \/ LoseDatabase

Next == Create \/ MergeAndSave \/ Environment

Spec == Init /\ [][Next]_vars

-----------------------------------------------------------------------------
(* Set n or an older one has a copy of the file that this entry is about,  *)
(* with the content it records.                                            *)
ArchivedBy(e, n) ==
    \E copy \in archive : /\ copy.set <= n
                          /\ copy.path = e.mPath
                          /\ Meow[copy.content] = e.mHashValue

(* A path that a line cut off in a list cannot show by accident. *)
Untorn == {q \in Path : \A p \in Path : q \notin Prefix[p]}

(* The paths the program can treat properly: never the cut form of another *)
(* path, and not a symbolic link that zpaq leaves out.                     *)
Faithful == {q \in Untorn : /\ \A p \in Path : Reported[p] = q => p = q
                            /\ ~(q \in Symlink /\ Tool[q] = "zpaq")}

(* What an entry must satisfy to be trusted by later runs. *)
SoundBy(e, n) == e.mPath \in Faithful /\ e \notin touched => ArchivedBy(e, n)

(* The database never claims too much.  A file that it lists with some     *)
(* hash is skipped by every later run that finds the same hash, so there   *)
(* must be a copy with that content - whatever failed, whenever a run      *)
(* died and in whichever order lists were merged.  Only the hash that a    *)
(* file had before an edit that fell between its hash and its compression  *)
(* is exempt.                                                              *)
DbSound == \A e \in Range(dbFile) : SoundBy(e, Len(lists))

(* Every entry of the filehashes.txt of set n can be restored from the     *)
(* sets 1 .. n: also the entries of unchanged files, of which set n itself *)
(* has no copy, and also when the run died before it updated the database. *)
ListSound == \A n \in DOMAIN lists : \A e \in Range(lists[n]) : SoundBy(e, n)

(* The database can be rebuilt: each of its entries is in the              *)
(* filehashes.txt of some set, because that file is written before the     *)
(* database is - as long as no filehashes.txt failed to be written.        *)
DbFromLists ==
    unlisted = {} =>
        \A e \in Range(dbFile) :
            e.mPath \in Untorn => \E n \in DOMAIN lists : e \in Range(lists[n])

(* The hash tool has given a hash for file number i of the run. *)
Answered(i) == results[i] # << >> /\ results[i][1].mPath # Garbage

(* The backup is complete: when the compression jobs are done, every file  *)
(* the scan found and the hash tool answered for, and that was not edited  *)
(* after that, has a copy of what it contains now, in this set or in an    *)
(* older one.                                                              *)
BackupComplete ==
    pc = "compress" /\ pending = {} /\ ~dryRunFlag =>
        \A i \in DOMAIN filesToProcess :
            LET p == filesToProcess[i]
            IN  /\ p \in Faithful
                /\ Reported[p] = p
                /\ Answered(i)
                /\ results[i][1] \notin touched
                => /\ input[p] # Absent
                   /\ results[i][1] = EntryOf(p)
                   /\ ArchivedBy(EntryOf(p), folder)

(* "Deleted files will stay in the database file" (concept.txt:90): a save *)
(* of the database that is completed keeps every name the file had before. *)
NamesKept ==
    [][pc = "save" /\ pc' = "done" => Names(dbFile) \subseteq Names(dbFile')]_vars

-----------------------------------------------------------------------------
(* What the documents promise and the program does not keep:               *)
(* "In this database the cummulative file status is stored", and a file    *)
(* that it shows as changed "will be compressed" and "stored in the new    *)
(* folder" (concept.txt:79, 86-88): without the exception of DbSound for   *)
(* files edited between their hash and their compression, whatever the     *)
(* database records has a copy.                                            *)
StoredAsRecorded ==
    \A e \in Range(dbFile) : e.mPath \in Faithful => ArchivedBy(e, Len(lists))

-----------------------------------------------------------------------------
(* The inductive invariant: what a run knows at each of its steps.         *)

(* The loop counters and the open jobs stay within the lists they index,   *)
(* and a run that writes has a set to write to.                            *)
Indices ==
    /\ pc \in {"idle", "scan"} => results = << >> /\ filesToProcess = << >>
    /\ pc \in {"idle", "scan", "hash"} => filesHashes = << >>
    /\ pc = "idle" => database = << >> /\ ~dryRunFlag
    /\ DOMAIN results = DOMAIN filesToProcess
    /\ pc = "hash" => pending \subseteq DOMAIN filesToProcess
    /\ pc = "compress" => pending \subseteq DOMAIN filesHashes
    /\ pc \in {"parse", "merge", "remerge", "import"} => k >= 1
    /\ pc \in CreateSteps /\ ~dryRunFlag => Len(lists) >= 1
    /\ pc = "save" => ~dryRunFlag

(* The hash that an entry records is the hash of the file as it is now. *)
Current(e) ==
    e.mPath \in Faithful /\ e \notin touched =>
        /\ input[e.mPath] # Absent
        /\ e.mHashValue = Meow[input[e.mPath]]

(* In a run that writes, until the compression is over, what was hashed is *)
(* what is there.                                                          *)
HashesCurrent ==
    ~dryRunFlag =>
        /\ pc \in {"hash", "parse"} =>
              \A i \in DOMAIN results : \A e \in Range(results[i]) : Current(e)
        /\ pc \in {"parse", "compress"} =>
              \A e \in Range(filesHashes) : Current(e)

(* What a run that writes has in memory and may save is sound: the         *)
(* database it has loaded, and the list of files once their jobs are done. *)
MemorySound ==
    ~dryRunFlag =>
        /\ \A e \in Range(database) : SoundBy(e, Len(lists))
        /\ pc = "compress" =>
              \A i \in DOMAIN filesHashes \ pending :
                  SoundBy(filesHashes[i], Len(lists))
        /\ pc \in {"list", "merge", "remerge", "import"} =>
              \A e \in Range(filesHashes) : SoundBy(e, Len(lists))

SoundInv == TypeOK /\ Indices /\ HashesCurrent /\ MemorySound /\ DbSound /\ ListSound

(* Some set's list has this entry. *)
Listed(e) == e.mPath \in Untorn => \E n \in DOMAIN lists : e \in Range(lists[n])

(* The list of the set being written is empty until it is saved; what is   *)
(* merged into the database is on the disk by then.                        *)
MemoryListed ==
    ~dryRunFlag =>
        /\ pc \in {"scan", "hash", "parse", "compress", "list"} =>
              lists[folder] = << >>
        /\ unlisted = {} =>
              /\ \A e \in Range(database) : Listed(e)
              /\ pc \in {"merge", "remerge", "import"} =>
                    \A e \in Range(filesHashes) : Listed(e)

ListedInv == TypeOK /\ Indices /\ MemoryListed /\ DbFromLists

(* The database in memory has every name of the database on the disk. *)
NamesInMemory ==
    pc \notin {"idle", "done", "failed"} => Names(dbFile) \subseteq Names(database)

(* Every answer of the hash tool is in the list that is compared. *)
AnswersParsed ==
    ~dryRunFlag =>
        /\ pc \in {"hash", "parse", "compress"} =>
              \A i \in DOMAIN results :
                  LET p == filesToProcess[i]
                      a == results[i][1]
                  IN  /\ Reported[p] = p
                      /\ Answered(i)
                      /\ a \notin touched
                      => input[p] # Absent /\ a = EntryOf(p)
        /\ pc = "parse" =>
              \A i \in DOMAIN results :
                  i < k => Range(results[i]) \subseteq Range(filesHashes)
        /\ pc = "compress" =>
              \A i \in DOMAIN results : Range(results[i]) \subseteq Range(filesHashes)
=============================================================================
