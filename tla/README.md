# A TLA+ model of BackupSuite

BackupSuite makes incremental backups to read-only media.  `ctrlcenter2` hashes
the files of an input folder, compresses those that are new or changed into a
fresh output folder (a *backup set*), writes the set's `filehashes.txt` and
records every file in a database.  The next run compares with that database and
leaves out what has not changed.  So one mistake is fatal: an entry of the
database for which no set has a copy.  The file is skipped by every later run
and nobody notices before the restore.  The core of this project is about that
entry, and about the thread pool that the two parallel phases of a run rely on.
Around it are the parts that the core takes for granted: how the folder is
scanned, how a tool is run, what verify mode can see, what two processes do to
one database, and how zpaq, which stores most of the files, writes its archive.

## Inventory

| part | source | state | operations | interacts with |
|---|---|---|---|---|
| FileHashes | ctrlcenter2.cpp 183-335 | ordered list of (hash, path) | parseBuffer, compareToFileHashes, mergeUpdates, readFileHashes, saveFileHashes | database, filehashes.txt |
| create mode | ctrlcenter2.cpp 337-482, 554-704 | database, files found, hashes, futures | scan, hash, compare, make folders, compress, write list, merge, save | pool, tools, disk |
| merge mode | ctrlcenter2.cpp 752-771 | database, one list | load, merge, save | lists of all sets |
| verify mode | ctrlcenter2.cpp 484-549, 708-748 | one list, futures | decompress, hash, compare | pool, tools |
| running a tool | ctrlcenter2.cpp 337-364, subprocess.h | pipes, process | create, join, read the first line, destroy | tools |
| thread pool | quickpool.h 438-1011 | todo_, status_, queues, workers | push/async, try_pop, wait, done, stop, join | create, verify |
| queue of the pool | quickpool.h 406-550 | top_, bottom_, ring buffers, mutex, stopped_ | push, try_pop, wait, stop, destructor | workers, main thread |
| folders | tinydir.h, tinydirhelper.h, ctrlcenter2.cpp 562-639 | stack of folders, files found | list, make | create, the user |
| main | ctrlcenter2.cpp 775-871 | Configuration | options, load of the database, choice of mode | all |
| zpaq add, threads | zpaq.cpp 167-203, 1843-2014 | ring of buffers, semaphores | fill, compress, write | archive file |
| zpaq archive | zpaq.cpp 741-798, 1359-1665, 2109-2714, 3130-3262 | blocks of the archive | read, append, rewrite the header, truncate | create, verify |
| other tools | meow_hash, lepton, precomp-cpp | - | hash, compress | third-party |
| ctrlcenter.py | ctrlcenter/ctrlcenter.py | database, hashes, counter | create, merge, verify | the deprecated predecessor |

What is hard here, and where a test hardly reaches:

* a run can die at every step, and `saveFileHashes` empties a file before it
  writes it; the next run reads whatever is left, including a line cut in two;
* the user works on the input folder during a run, which looks at a file twice:
  to hash it and, a phase later, to compress it;
* tools fail, print nothing, or return 0 without having done anything;
* lists are merged by hand, in any order, on top of newer ones;
* tasks are stolen between queues without locks, while a counter that is changed
  in other steps tells the main thread that everything is done;
* a task that cannot go on calls `exit(-1)`, which destroys the pool on one of
  the pool's own threads;
* a ring buffer is replaced by a larger one while threads read the old one
  without a lock, and a pointer is read before it is known to be one's own;
* processes started by several threads inherit each other's pipes, and a tool
  that cannot be started leaves its own open;
* two runs may name the same database, and nothing locks it;
* a verify that is killed leaves files that the next one finds;
* zpaq appends to an archive in which an earlier, interrupted update has left
  its remains.

`PROJECT.json` lists each of these hazards with its line and its properties.

## Modules

| module | models |
|---|---|
| `FileHashes` | the class FileHashes as operators on sequences of entries |
| `BackupArchive` | create and merge mode, the disk, crashes, edits, failures |
| `TaskPool` | TaskManager, TaskQueue's index protocol and ThreadPool of quickpool.h as ctrlcenter2 uses them |
| `JobBatch` | abstract: a batch of jobs that finish in any order |
| `TaskQueue` | one queue of the pool: ring buffers, mutex, condition variable |
| `TaskFifo` | abstract: a queue that gives each task once, in order |
| `ToolRun` | runSubprocess, subprocess.h and copyFile: pipes, descriptors, processes |
| `VerifyArchive` | verify mode and its temporary files |
| `SharedDatabase` | several processes that load, merge and save one database |
| `FolderScan` | the scan of the input folder and the folders of the output |
| `ZpaqPipeline` | the threads of `zpaq add` |
| `ZpaqSpurious` | the same threads, with wakeups that nobody has signalled |
| `ZpaqJournal` | the blocks of a zpaq archive, updates and crashes |
| `BackupArchiveProofs`, `TaskQueueProofs`, `TaskPoolProofs`, `ToolRunProofs`, `VerifyArchiveProofs`, `SharedDatabaseProofs`, `FolderScanProofs`, `ZpaqProofs` | theorems and their proofs; `BackupArchiveProofs` begins with the lemmas about `FileHashes`, `ZpaqProofs` is about `ZpaqPipeline` and `ZpaqJournal` |
| `MCBackupArchive`, `MCTaskPool`, `MCToolRun`, `MCVerifyArchive`, `MCSharedDatabase`, `MCFolderScan` | instances for TLC |

How they fit together: `TaskQueue` implements `TaskFifo`, the list of tasks that
`TaskPool` works with; `TaskPool` implements `JobBatch`, the parallel phase that
`BackupArchive` and `VerifyArchive` assume; `ToolRun` has what happens inside one
job, `FolderScan` what is behind the step `Scan`, `SharedDatabase` what happens
when the assumption of one process at a time is dropped; `ZpaqPipeline` delivers
the data blocks that `ZpaqJournal` appends in order.

`BackupArchive` treats the jobs of a parallel phase as the set `pending`, from
which any job may finish next.  `JobBatch` states that as a specification, and
`TaskPool` is shown to implement it (`ImplementsJobBatch`), with the open jobs
mapped to the tasks of the batch that have not returned.

### FileHashes

A list is a sequence of records `[mHashValue, mPath]`.  `MergeUpdate` and
`CompareResult` are the loop bodies of `mergeUpdates` and
`compareToFileHashes`.  `ShortWrites(l)` is what `readFileHashes` can return for
a file that `saveFileHashes(l)` wrote only in part: some of the first lines, and
perhaps a line that is cut.  `parseBuffer` runs over the end of such a line into
the ten bytes of the buffer that are never set, so its path is the part that was
written, or that and whatever follows in memory.  `Prefix[p]` is the set of other
files whose path a cut line for `p` can show; every other outcome is `Garbage`, a
name that is no file's.  The hash value of a garbled name is of no consequence.
Left out: the name of the hash function, which is never looked at, and the
prefix of the option `-u`, which is cut off on writing and put back on reading.
A missing file and an empty file read as the same list.

### BackupArchive

The disk is `input`, the set of copies `archive`, `lists[n]` (the filehashes.txt
of set `n`) and `dbFile`; the process is `pc` and the variables it has in memory.

| action | code |
|---|---|
| `StartCreate`, `Scan` | main and createOrUpdateArchive up to the start of the hash jobs |
| `HashFile`, `HashFileExits` | hashFile: a hash, the error message for a file that is gone or may not be read (`UnableLine`), nothing, or exit(-1) |
| `HashingDone`, `ParseResult` | the polling loop, the loop over the futures |
| `CompareToDatabase` | compareToFileHashes, the folders, the start of the compression jobs |
| `CompressFile` (`ToolWrites`, `ToolSkips`, `ToolFailsAndCopies`), `CompressFileExits` | compressFile and its fallback copy |
| `CompressionDone`, `WriteFileHashes` | the second polling loop, filehashes.txt, whose result is ignored |
| `StartMerge` | main and mergeFilelistToDatabase up to the merge |
| `MergeOne`, `MergeDone`, `SaveDatabase`, `Finish` | mergeUpdates (twice in create mode), the save, the return from main |
| `Crash`, `Edit`, `LoseDatabase` | the environment |

A dry run takes the same steps and writes nothing.  The compressor of a path is the
constant `Tool`; mp3, png, pdf and zip files are always copied as they are, because
the program that compressFile starts for them is called `precomnp-cpp` (lines 416
and 430) and does not exist.  `Reported[p]` is the path that is left of `p` when
`runSubprocess` reads the hash tool's line with `fgets(tmp, 128, fp)`.  The run has
neither cut paths nor symbolic links nor files that are always copied; for these
there are the theorems, which hold for any `Reported`, `Symlink`, `Prefix` and
`Tool`.  Two history variables record when the program's own assumptions were
broken: `touched` (the entry, path and hash, that a file had before an edit between
the start of the hash jobs and the end of the compression jobs of a run that writes;
only that old hash is exempt from the properties, never the path) and `unlisted`
(sets whose filehashes.txt failed to be written).

Assumptions: one process at a time; every run that writes gets a new or cleared
output folder, as concept.txt asks; a tool or a fallback copy that reports
success has written all of the file; hash collisions are possible (`Meow` need
not be injective), and a file counts as stored when a copy has the same hash.
Tools that outlive a process that was ended are left out.

### TaskPool

Each worker has a program counter; reading the indices of a queue, the
compare-and-swap on `top_`, the check of the status, running the task, and
`report_success` are separate steps, and so are counting a task and putting it
into a queue.  The destructor is modelled in the main thread and in a worker
whose task has called `exit(-1)`, where the join of the own thread throws and
aborts the process.  Waiting on a queue is a guard: only that queue's worker
waits for it, and what it waits for is changed under the mutex of the wait and
followed by a notification.  Memory is sequentially consistent.  A second
`exit(-1)` while the first is under way is undefined and left out.  Errored
pools are left out because `async` wraps a task in a `packaged_task`, which keeps
its exceptions.

### TaskQueue

A step is one access to shared memory: `push` is lock and load of `top_`, growth,
store to the slot, store of `bottom_` with the unlock, notification; `try_pop` is
load of `top_`, of `bottom_`, of `buffer_`, of the slot, the compare-and-swap,
and the deletion of the task object.  Old ring buffers stay in `buffers`, as in
`old_buffers_`, and a slot that was never written holds garbage.  `wait` is split
into lock, predicate and block, so that a notification can come between the last
two if the code lets it.  A task is named by its index; `live` is the set of task
objects on the heap.  Stores become visible in program order, which is what the
x86-64 targets of units.lua give; the store of `buffer_` is relaxed
(quickpool.h:481), so another machine could show more.

### ToolRun

A job opens three pipes, spawns the tool, closes the ends that are the tool's,
closes stdin, waits, reads one line and closes the rest.  `Fgets` returns at the
end of the first line, after 127 bytes or at the end of the output, whichever comes
first; `Line[j]` is where the first two are, and the value of a call is how much
it has got (`FirstLine`).  `held[j]` is what the
child inherited: all descriptors of the process at that moment, since none has
close-on-exec.  A pipe without a whole line ends only when nobody holds the write
end.  The tools (external) print and exit.  The fallback copy needs two descriptors,
and only the lack of them makes it fail here: a source that is gone or a disk that
is full is a failure in `BackupArchive`.  The
number of jobs is finite (`ToolAssumption`), as a folder has finitely many files.

### VerifyArchive

A job is `decompressFile`: the tool refuses, skips, or writes; then the temporary
file is hashed and deleted.  Which tool makes folders and which skips an existing
file comes from the sources of zpaq (extract) and lepton (open_fdout).  Files
that the list names but the set does not hold, because they were copied or are
in an older set, are constants.  `Damage` and `Kill` are the environment.

### SharedDatabase

The file is a sequence of blocks, one entry each.  Opening for writing empties
it; each writer has its own position, so two that save at the same time write
over each other or leave holes.  Create mode loads the database twice (main and
createOrUpdateArchive).  `MergeUpdates` is one iteration of the loop of
mergeUpdates, for the entry `at[r] + 1` of the run's list: a name that is already
there, also because the loop has just added it, is not added again.  The merges of
a rebuild run alone, as concept.txt describes.

### FolderScan

The directory tree is a function from paths to kinds.  The user may create, delete
and move entries while the scan runs, directories with their content included; an
open directory stays open when it is moved, and an entry that comes or goes is
returned by `readdir` or not.  `stable` is the history of what nobody touched.
tinydir takes every slash and backslash from the end of a path before it opens it
(tinydir.h:20), and puts what it finds below the shorter path: `Bare[n]` is what
that leaves of a name and `Opened` of a path, and the names of which it leaves all
are `Plain`.  So a directory `x\` is never read, the directory `x`, if there is one,
is read instead (the history variable `again`), and a directory `\` is its parent
once more.  The last never ends, so `AtBound` stops the model, not the program, when
`MaxListed` paths are listed and such a directory is next. `MakeFolder` is the loop
with `cachedDir`; `Parts` is what a name becomes when its backslashes are turned
into separators, at least one part, of which some may be empty (`Nothing`).  Every
file found is taken as changed, the case in which most folders are made.  Symbolic
links to directories are not modelled: the scan follows them, and a cycle ends only
when the kernel refuses the path.

### ZpaqPipeline

The class `Semaphore` is a count, the threads asleep and the threads woken: a woken
thread takes its unit without looking again, as in the code, where `if` stands in
the place of `while`.  A thread wakes up only after a `signal`, and so the
properties and theorems of this module are about systems without the spurious
wakeups that POSIX allows.  `ZpaqSpurious` adds these as a step of its own, with
which the run `pipeline_wakeup` fails (see below).  Assertions are compiled out
(zpaq.cpp:77) and block nobody.

### ZpaqJournal

The archive is a sequence of blocks: header `c`, data `d`, fragment table `h`,
index `i` (`Header`, `DataBlock`, `Table`, `Index`).  `reading` goes through them
with the variables of the code, and `read_archive` is where it ends:
where the next block is looked for, the start of the data, the offset to which
an update is appended, the table of fragments.  `Add` plans the blocks, and each
is written in a step of its own, over whatever is there.  `Extractable` and
`Extracted` are the checks and the result of extract.  A version is committed
when its header is rewritten, and has `ended` when nothing of an older, longer
update lies behind it.  A block is written as a whole; a block torn in two
is caught by the checksums of the format and is left out.

## Runs

| run | instance | shows |
|---|---|---|
| `backup_crash` | 2 files (zpaq, lepton), 2 contents, 2 sets, 1 edit, 1 fault | `TypeOK`, `DbSound`, `ListSound`, `DbFromLists`, `BackupComplete`, `NamesKept` |
| `pool_batches` | 3 workers, 2 batches of 2 tasks, any of which may fail | `TypeOK`, `RunOnce`, `DoneMeansFinished`, `ExitHoldsMain`, `Terminates`, `ImplementsJobBatch` |
| `queue_ring` | capacity 1, 3 tasks, 1 pusher, 2 poppers | `TypeOK`, `TakesItsTask`, `NotOverfull`, `AllFreed`, `ImplementsFifo`, `StopEndsWait`, `EveryTaskTaken` |
| `tool_calls` | 4 tools, 1 of them missing, 2 threads, pipes of 2 units, 18 descriptors | `TypeOK`, `NoExit`, `TrustedAnswer`, `CallsReturn` |
| `verify_report` | 6 files, 2 runs, 1 kill, 2 damaged files | `TypeOK`, `MissesNothing`, `ZpaqExact` |
| `shared_rebuild` | 3 creates that may overlap, 2 merges of a rebuild | `TypeOK`, `KeepsWithoutOverlap`, `RebuildExact` |
| `folder_scan` | a tree of depth 3, 4 names (`a`, `a\a`, `a\`, `\`), 2 changes by the user | `TypeOK`, `FoundExactly`, `FoldersMade`, `ScanEnds` |
| `zpaq_pipeline` | 2 threads (3 buffers), 5 blocks | `TypeOK`, `InOrder`, `QueueNotFull`, `Terminates` |
| `journal_crashes` | 3 updates, files of up to 3 fragments of 2 kinds, crashes at every step | `JournalTypeOK`, `AllOrNothing`, `FinishedStays` |

* `DbSound`, `ListSound`: whatever the database, or the list of set `n`, records
  for a file is in some set (for a list: in sets `1 .. n`).  Two sets are needed:
  the second run may skip what the first one stored.  One fault covers a crash
  at every step, a failed tool, a failed write and a lost database; the second
  process that the model allows afterwards is the restart.
* `DbFromLists`: the promise of concept.txt:94 that the database can be rebuilt.
* `NamesKept`: the promise of concept.txt:90 that deleted files stay in it.
* `BackupComplete`: a run that gets through its jobs has everything it found, in
  its own set or, for what compared as unchanged, in an older one; so it needs the
  second set as well.
* `RunOnce`, `DoneMeansFinished`: stealing is exclusive, and `done()` is not true
  too early.  `Terminates` is liveness, under weak fairness of the main thread
  and of every worker: the operating system schedules each thread again and
  again, and tasks return.  It does not cover a process in which a task has called
  exit(-1): there the destructor may hang (see below).  Three workers give each
  task two thieves besides its owner, and let the destructor join some workers
  before and some after its own; the first queue gets tasks of both batches.
* `ExitHoldsMain`: after exit(-1) in a task nothing is recorded.
* `TakesItsTask`, `NotOverfull`, `ImplementsFifo`: capacity 1 makes the ring wrap
  at every push and grow at the second and the third queued task, so a slot is
  overwritten and a buffer replaced under a popper at each of its steps.
  `StopEndsWait` and `EveryTaskTaken` assume that a call that has begun goes on
  and that the owner calls `wait` again; the lock of the owner is strongly fair,
  since its other holders are few and each releases it.
* `TrustedAnswer`: an error of a tool, or an answer that is not complete yet, is
  never handed on as a hash.  The instance has a tool that prints more than a line,
  one that prints none, and two that may fail.
* `CallsReturn`: with two threads each tool can inherit the pipe of the other in
  both orders.  Eighteen descriptors are what two calls at a time and the pipes of
  one missing tool need: a call that gave back one too few would run out.
  Fairness: threads and processes run.
* `ZpaqExact`, `MissesNothing`: the second run sees what the first has left, which
  may have been killed at each step of each job.
* `KeepsWithoutOverlap` and `RebuildExact`: three creates, two of which overlap
  while the third follows, before the rebuild.
* `FoundExactly`, `ScanEnds`: two changes are enough to move a directory out and
  another one to its place while either is open or on the stack.  Fairness: the
  program runs; the user stops after his two changes.
* `InOrder`, `QueueNotFull`, `Terminates`: five blocks go round a ring of three
  almost twice, and the end marks share the ring with the last blocks.
* `AllOrNothing`, `FinishedStays`: three updates are an interrupted long one, a
  shorter one on top, and one more that reads the result.

Larger instances of `BackupArchive` (two edits, or two faults, about 12 million
states each), of the pool (three workers, two batches of three tasks, 1.1 million
states) and of the queue (four tasks, without the liveness properties) have been
checked in the same way without an error.

Runs that are expected to fail, each with a finding:

| run | property | what the code does |
|---|---|---|
| `backup_edit_race` | `StoredAsRecorded` | a file edited between hash and compression is recorded with a hash that no copy has |
| `pipeline_wakeup` | `QueueNotFull` | the main thread, woken without a signal, finds no empty buffer, and the block is dropped without a word |
| `journal_tail` | `Transacted` | a crash after the header and before the truncation lets remains of an older update count |

The first and the last are a property of a passing run without its exception
(`DbSound`, `AllOrNothing`), the second is that of the passing run `zpaq_pipeline`
without its assumption: that is where the program fails its documents and its own
assertions.  The exceptions of
the other properties, and some values of the constants that the runs leave out,
stand for disagreements of the same kind:

* `BackupComplete` leaves out symbolic links, which are hashed and recorded but
  which zpaq skips with exit code 0 (ctrlcenter2.cpp:440), and paths of more than
  about 80 characters, which are cut on the way back from the hash tool (354) and
  stored nowhere; readme.txt:11 makes no such exception.
* `DbFromLists` leaves out a filehashes.txt that cannot be written: the result of
  that save is ignored (688), against concept.txt:94.
* `Terminates` leaves out exit(-1) in a task (378): the destructor then runs on
  the worker, the failed task stays counted, another worker spins in
  `while(!done())`, and "joins all worker threads" (quickpool.h:958) never ends.
* `NoExit` needs six descriptors for each file whose tool cannot be started:
  subprocess.h:888 leaves its pipes open, and ctrlcenter2.cpp:416 and 430 misspell
  the name of precomp-cpp.
* `CallsReturn` needs tools whose output fits into a pipe: runSubprocess reads
  nothing before the tool has ended (344).
* `MissesNothing` leaves out zpaq's files after a killed verify (526), because zpaq
  does not overwrite the old temporary file.  `ZpaqExact` says nothing of jpegs,
  for which the folder must have been made by another job (506), nor of files
  that are stored as copies or in an older set, which are always reported (531).
* `KeepsWithoutOverlap` is for runs that do not overlap: of two that do, the one
  that saves last drops what the other has saved (694), and one that reads after
  the other has emptied the file reads for ever (301).
* `FoundExactly` says that a directory that cannot be opened is left out; nothing
  reports it (581).  The same holds for a directory whose name ends with a
  backslash (tinydir.h:20), for which another one may be read twice, so that its
  files are found twice; and `ScanEnds` needs that none is called `\`.
  `FoldersMade` leaves out folders with a backslash in their name, for which
  another folder is made (95).
* `InOrder`, like `QueueNotFull`, needs sleepers that wake up only after a signal.
  Even so more than `Threads` blocks can be compressed at a time, since a woken
  thread does not look at the count again (zpaq.cpp:186), though zpaq.pod:644 says
  "at most".

And one that is outside the models: without `-t` the folder of the tools has no
separator at its end (ctrlcenter2.cpp:812), so that the usage of readme.txt:10
does not find the hash tool.

Every property of a passing run has a mutant: a definition with the comment "A
mistake for the check of ..." that replaces the real one and makes TLC report the
property as violated.

## Proofs

The theorems hold for every value of the constants that the assumptions allow.
They are safety properties and two refinements; for each the invariant below was
checked with TLC before it was proved, since none of the properties is inductive
by itself.

| theorem | property | any number of |
|---|---|---|
| `TypeCorrect` | `TypeOK` of `BackupArchive` | paths (finite), contents, sets, edits, faults |
| `SoundInvariant` | (the inductive invariant) | the same |
| `DatabaseIsSound` | `DbSound` | |
| `ListsAreSound` | `ListSound` | |
| `DatabaseIsListed` | `DbFromLists` | |
| `DatabaseKeepsNames` | `NamesKept` | |
| `BackupIsComplete` | `BackupComplete` | |
| `QueueTypes` | `TypeOK` of `TaskQueue` | pushers, poppers, tasks; any first capacity |
| `WinnerTakesItsTask` | `TakesItsTask` | |
| `RingKeepsTasks` | `NotOverfull` | |
| `DestructorFreesAll` | `AllFreed` | |
| `QueueIsFifo` | `ImplementsFifo` | |
| `PoolTypes` | `TypeOK` of `TaskPool` | workers, batches, tasks, failing tasks |
| `TasksRunOnce` | `RunOnce` | |
| `DoneIsReliable` | `DoneMeansFinished` | |
| `ExitStopsMain` | `ExitHoldsMain` | |
| `PoolImplementsJobBatch` | `ImplementsJobBatch` | |
| `ToolRunTypes` | `TypeOK` of `ToolRun` | jobs (finite), threads, descriptors, output |
| `AnswersAreTrusted` | `TrustedAnswer` | |
| `SixDescriptorsSuffice` | `NoExit` | |
| `VerifyTypes` | `TypeOK` of `VerifyArchive` | files, runs, kills, damages |
| `VerifyMissesNothing` | `MissesNothing` | |
| `VerifyExactForZpaq` | `ZpaqExact` | |
| `DatabaseTypes` | `TypeOK` of `SharedDatabase` | runs, names, lists |
| `NothingLostWithoutOverlap` | `KeepsWithoutOverlap` | |
| `RebuildIsExact` | `RebuildExact` | |
| `PipelineTypes` | `TypeOK` of `ZpaqPipeline` | threads, blocks |
| `WriteFindsBuffer` | `QueueNotFull` | |
| `BlocksInOrder` | `InOrder` | |
| `JournalTypes` | `JournalTypeOK` of `ZpaqJournal` | fragments, lengths of the file, updates, crashes |
| `JournalAllOrNothing` | `AllOrNothing` | |
| `JournalFinishedStays` | `FinishedStays` | |
| `ScanTypes` | `TypeOK` of `FolderScan` | names, depth and size of the tree, changes |
| `ScanFindsExactly` | `FoundExactly` | |
| `ScanMakesFolders` | `FoldersMade` | |

Each proof module states its invariant as a conjunction of named parts and has a
lemma for each action (in `TaskPoolProofs`, for each part); the theorem
`...Invariant` puts them together, and the properties follow from it.

**BackupArchive** (assumptions `BackupAssumption`, `PathAssumption`).  `DbSound`
alone is not inductive: a save writes what is in memory, so memory must be sound.
`SoundInv` adds

* `Indices`: loop counters and open jobs are within their lists;
* `HashesCurrent`: in a run that writes, until the compression is over, an entry
  that is not in `touched` has the hash of what is there now.  So the copy that a
  job makes has the hash the entry records;
* `MemorySound`: the loaded database is sound, entries whose job is done are
  sound.  An entry without a job compared as `eSame`, so the database has an
  entry with its hash (`SameIsListed`), which is sound by induction.

Copies are never removed and `touched` only grows, so soundness stays
(`GrowStep`, `SoundStays`).  A partly written file shows only entries of the list
that was written, or paths outside `Untorn` (`ShortWriteFacts`).
`DatabaseIsListed` rests on `ListedInv`: the own list is empty until it is written,
and it is written before anything is merged.  `DatabaseKeepsNames` rests on
`NamesInMemory`, `BackupIsComplete` on `SoundInv` and `AnswersParsed`.
The lemmas about the list operations stand at the beginning of the module.

**TaskQueue** (`QueueAssumption`).  A popper reads an entry before it knows that
it will win.  `Reads` says that what it has read is right *as long as `top_` is
still the index it started with*, which is what the compare-and-swap tests.  A push
may overwrite a slot of an old index, so `Room` says that the `top_` a push has
read is never ahead, and that the buffer has room for what it believes to be in
the queue: then the slot it writes is not the slot of any queued task (`ModDiff`).
Growth copies the tasks to the slots of the doubled ring (`ModTwice`,
`EnlargedCopy`), and the old buffers are not written to any more.  `Locked` (who
holds the mutex), `Objects` (which task objects are on the heap) and `Counted` (as
many tasks were taken as `top_` says) give the other properties.  For the
refinement the abstract queue is the sequence of the indices from `top` to
`bottom`: a push is the step that publishes `bottom_`, a pop is the
compare-and-swap that succeeds, and all other steps stutter.

**TaskPool** (`PoolAssumption`).  `DoneMeansFinished` needs the meaning of
`todo_`, which is changed in other steps than the queues: `Count` says that it is
at least the number of tasks that are queued, or about to be, and not reported.  It
is an inequality because a task that has called exit(-1) stays counted.  The tasks
are counted as a finite set; that each push adds one and each report removes one
needs `Queues` (no task is in two places), `Held` and `Own` (workers have different
tasks, each popped), and `Progress` (where the main thread is).  `Stopping` and
`ExitHoldsMain` handle the two ways to the destructor: after an exit(-1) there is
always an outstanding task, so `done()` stays false (`ExitOutstanding`).  In the
refinement of `JobBatch` a job is open until its task has returned.

**ToolRun** (`ToolAssumption`).  `Outputs` says that `fgets` is reached only after
the tool has ended, and that a tool which has succeeded has printed everything; so
the line that `fgets` finds is whole, or is all there is.
`Descriptors` accounts for each open descriptor: it belongs to the step that its
job is at, or was left by a missing executable; `SixPerJob` counts them through an
injection into pairs of a job and an end of one of its three pipes.  The copy
that follows a failed tool needs two, which fit into the six of its thread.

**VerifyArchive** (`VerifyAssumption`).  `Leftover` is the part that spans runs:
without a kill the only temporary file that a run of verify leaves behind is that
of a damaged file of zpaq's.  `Unpacked`, `Hashed` and `Compared` follow a job to
the report.

**SharedDatabase** (`RunAssumption`).  `OneAtATime` and `Rebuilding` say who can
be at work; for a run that is alone `Loading` says that what it has read is the
beginning of the file, and `Keeping` that the file is whole, or is the beginning of
a whole database in the memory of the run that saves.  Whole means without
repetitions and holes, with all that was saved or, after the removal, with exactly
the names of the merges so far.  After the removal nothing is assumed about the
runs before it, so `RebuildIsExact` covers every damage they have done.

**ZpaqPipeline** (`PipelineAssumption`).  The buffers in use are a window of the
ring behind `front`; `Counters` ties its size to `empty`, `Stages` the state of a
buffer to the step of its thread, `Contents` says that the buffer at distance `d`
from the front holds block number `Freed + d + 1`, `Written` that `compressed` is
signalled exactly for the buffers that wait for the writer, and `Order` that the
archive has the blocks so far.  A woken thread does not look at the count again,
which is harmless for a semaphore with one waiter (`Private`); `compressors` has
several, and its count may fall below 0: `Units` ties it to the threads that
compress.

**FolderScan** (`ScanAssumption`).  `TokenInv` is the heart: a file that nobody
has touched, behind folders that may be read and have plain names, is in one of
three places: below a folder on the stack, still to come in the folder that is being
read, or found.  It is there once (`OneToken`) as long as no folder above it was
opened for another one (`again`).  Opening a folder takes the file from the stack to
the reading, `ReadEntry` from there to the list or back to the stack, one level
deeper.  `TypeOK` adds that everything is listed below a path of plain names,
since tinydir puts it below the path that it has opened, and `Clear` that an
untouched folder which is read may be read, as may all above it; hence what lies
behind any other folder is not found.  It
holds only because what nobody touched is where it was, with everything above it
(`TreeInv`: both the tree and `stable` are closed under going up), and because the
open folder is still the one with that path (`ReadInv`).  The changes of the user
cannot disturb it: what they reach is taken out of `stable` with all that is below
it.  `MadeInv` says that the folder of every file that the loop has passed is made,
through `cachedDir` or at its own turn, and `extractFolderFromFilePath` is shown to
be the path without its last name where no name has a backslash.

**ZpaqJournal** (`JournalAssumption`).  `Holds(f, b, v, x)` says what the first `b`
cells of a file mean: read_archive is then at a block boundary in version `v`, with
the same result whichever later version is asked for; every fragment in its table
is in a data block of its own among those cells; and the file it extracts is `x`.
Three facts carry the proof.  What read_archive has made of some cells depends on
those cells only (`AtLocal`, `HoldsLocal`), so it is not disturbed by what is
written behind them.  It stops at an incomplete header, or at one that is too new
(`ReadStops`, `ReadsAsHeld`).  And cells that hold version `v`, followed by all
blocks that an update plans after reading them and a header with the size of the
data, hold version `v + 1` with the new content (`UpdateHolds`; `ReadsHeader`,
`ReadsTable` and `ReadsIndex` are its blocks one by one, and `NewFacts` says that the
new fragments with the old ones have all of the file).  The invariant `JournalInv`
has `VersInv`: each version that was finished, as were those before it, ends at a
cell that holds it, behind which a header follows (an incomplete one if it is the last
version), and which the running update does not reach; and `RunInv`: where the
running update begins the cells hold the last version, and what it has written is
what it planned.  `NumInv` bounds the numbers of the fragments by the number of
updates.  That an update begins no earlier than the end of a finished version, even
in an archive with remains that read_archive took for a version, is `OffsetGrows`.

Only model-checked is liveness (`Terminates`, `ScanEnds`, `CallsReturn`,
`EveryTaskTaken`, `StopEndsWait`): the proof system does not do fairness.  The
library's induction rules cannot be used either, since the provers do not
instantiate an operator parameter; where a proof goes through the cells of a file or
the levels of a path, it takes the least counterexample (`LeastNumber`) and shows
that there is none.

## Not modelled

* error recovery of the pool, `resize` and `parallel_for`: ctrlcenter2 does not
  reach them (a `packaged_task` keeps its exceptions);
* option parsing, string helpers and console output: no state of their own;
* an output folder that is used twice, which concept.txt excludes;
* the compression algorithms of libzpaq, lepton and precomp-cpp, with the
  libraries they bring (brotli, packJPG, packMP3, liblzma, argtable and others),
  and the hash function.  They are vendored codecs over byte streams, nearly all
  of the lines of the repository; a model small enough to check would say nothing
  about them.  What the program relies on is their exit code, their output and,
  for zpaq, the journal and the threads, which are modelled;
* zpaq's encryption, multi-part and streaming archives and its other commands,
  which ctrlcenter2 does not use, and the threads of extract;
* `ctrlcenter.py`, the deprecated predecessor (readme.txt:1-8), whose design
  ctrlcenter2 has kept, and the Windows branches.
