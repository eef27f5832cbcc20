----------------------------- MODULE FolderScan -----------------------------
(***************************************************************************)
(* The scan of the input folder (tinydir and the loop of                   *)
(* createOrUpdateArchive around it) while the user works in it, and the    *)
(* folders that are made in the output folder for what was found.          *)
(*                                                                         *)
(* A path is the sequence of its names, << >> the input folder itself.     *)
(* An open directory stays the same directory when it is moved: the scan   *)
(* goes on to read it, under the path by which it was opened.              *)
(***************************************************************************)
EXTENDS Integers, Sequences, SequencesExt, FiniteSets

CONSTANTS
    Tree,       \* the entries at the start: path -> kind
    Name,       \* the names that the user gives to new and moved entries
    Parts,      \* Parts[n]: what a name falls into when "\" becomes "/"
    Bare,       \* Bare[n]: a name without the "\" at its end, << >> if none is left
    MaxDepth,   \* bound: length of a path
    MaxEdits,   \* bound: how often the user changes something during the scan
    MaxListed   \* bound: paths listed before a directory is read as its parent

Kind == {"dir", "closed", "file"}   \* closed: a directory that may not be read
Path == UNION {[1 .. n -> Name] : n \in 0 .. MaxDepth}
Up(p) == Front(p)
Nothing == "nothing"
Part == Name \cup {Nothing}        \* what is between two "\"
Plain == {n \in Name : Bare[n] = <<n>>}

ASSUME ScanAssumption ==
    /\ DOMAIN Tree \subseteq Path \ {<< >>} /\ \A p \in DOMAIN Tree : Tree[p] \in Kind
    /\ \A p \in DOMAIN Tree : Up(p) = << >> \/ Up(p) \in DOMAIN Tree
    /\ Parts \in [Name -> Seq(Part) \ {<< >>}]
    /\ Bare \in [Name -> {<< >>} \cup {<<n>> : n \in Plain}]
    /\ {"gone", "none", Nothing} \cap Name = {}
    /\ MaxDepth \in Nat /\ MaxEdits \in Nat /\ MaxListed \in Nat

VARIABLES
    fs,         \* the entries of the input folder now
    edits,      \* what the user has done so far
    stable,     \* history: the paths that nobody has touched since the start
    again,      \* history: the directories that were opened for another one
    pc,         \* "pop", "read", "folders", "compress"
    recursiveFolders,   \* directories still to be read
    filesToProcess,     \* the files that were found
    dir,        \* the path of the directory that is read, as it was opened
    at,         \* where that directory is now, or Gone
    seen,       \* the names that readdir has returned from it
    old,        \* the names that have been in it since it was opened
    cachedDir, made, next   \* the loop that makes folders

scan == <<pc, recursiveFolders, filesToProcess, dir, at, seen, old, again>>
folders == <<cachedDir, made, next>>
vars == <<fs, edits, stable, scan, folders>>

Gone == <<"gone">>
NoDir == <<"none">>

Children(d) == {Last(p) : p \in {e \in DOMAIN fs : Up(e) = d}}
IsDir(p) == p = << >> \/ (p \in DOMAIN fs /\ fs[p] # "file")
Readable(p) == p = << >> \/ (p \in DOMAIN fs /\ fs[p] = "dir")

TypeOK ==
    /\ DOMAIN fs \subseteq Path /\ \A p \in DOMAIN fs : fs[p] \in Kind
    /\ edits \in 0 .. MaxEdits
    /\ stable \subseteq DOMAIN Tree
    /\ pc \in {"pop", "read", "folders", "compress"}
    /\ recursiveFolders \in Seq(Seq(Name)) /\ filesToProcess \in Seq(Seq(Name))
    /\ dir \in Seq(Plain) \cup {NoDir} /\ at \in Path \cup {Gone, NoDir}
    /\ \A p \in Range(recursiveFolders) \cup Range(filesToProcess) :
          p = << >> \/ Up(p) \in Seq(Plain)
    /\ seen \subseteq Name /\ old \subseteq Name /\ again \subseteq Seq(Plain)
    /\ cachedDir \in Seq(Part) \cup {NoDir} /\ made \subseteq Seq(Part)
    /\ next \in 1 .. Len(filesToProcess) + 1

Init ==
    /\ fs = Tree /\ edits = 0 /\ stable = DOMAIN Tree
    /\ pc = "pop"
    /\ recursiveFolders = << << >> >> /\ filesToProcess = << >>
    /\ dir = NoDir /\ at = NoDir /\ seen = {} /\ old = {} /\ again = {}
    /\ cachedDir = NoDir /\ made = {} /\ next = 1

-----------------------------------------------------------------------------
(* tinydir takes every "/" and "\" from the end of the path; the names     *)
(* before the last have none, since dir went through here.                 *)
Opened(d) == IF d = << >> THEN d ELSE Up(d) \o Bare[Last(d)]

(* A directory "\" is its parent once more, without end: here a bound.     *)
AtBound ==
    /\ pc = "pop" /\ recursiveFolders # << >>
    /\ LET d == Last(recursiveFolders) IN d # << >> /\ Opened(d) = Up(d)
    /\ Len(recursiveFolders) + Len(filesToProcess) >= MaxListed

Open(d) ==
    /\ pc' = "read" /\ dir' = Opened(d) /\ at' = Opened(d)
    /\ seen' = {} /\ old' = Children(Opened(d))
    /\ again' = again \cup ({Opened(d)} \ {d})

(* A mistake for the check of FoundExactly: a directory that cannot be     *)
(* opened ends the scan.                                                   *)
OpenOrStop ==
    /\ pc = "pop" /\ recursiveFolders # << >> /\ ~AtBound
    /\ LET d == Last(recursiveFolders)
       IN  IF Readable(Opened(d))
           THEN Open(d) /\ recursiveFolders' = Front(recursiveFolders)
           ELSE recursiveFolders' = << >> /\ UNCHANGED <<pc, dir, at, seen, old, again>>
    /\ UNCHANGED <<fs, edits, stable, filesToProcess, folders>>

(* A mistake for the check of ScanEnds: a directory that cannot be opened  *)
(* is tried again.                                                         *)
OpenAgain ==
    /\ pc = "pop" /\ recursiveFolders # << >> /\ ~AtBound
    /\ LET d == Last(recursiveFolders)
       IN  IF Readable(Opened(d))
           THEN Open(d) /\ recursiveFolders' = Front(recursiveFolders)
           ELSE UNCHANGED <<recursiveFolders, pc, dir, at, seen, old, again>>
    /\ UNCHANGED <<fs, edits, stable, filesToProcess, folders>>

(* The directory on top of the stack is opened, or the one that is left of *)
(* its path; one that is gone, or may not be read, is left out.            *)
OpenDir ==
    /\ pc = "pop" /\ recursiveFolders # << >> /\ ~AtBound
    /\ recursiveFolders' = Front(recursiveFolders)
    /\ LET d == Last(recursiveFolders)
       IN  IF Readable(Opened(d)) THEN Open(d)
           ELSE UNCHANGED <<pc, dir, at, seen, old, again>>
    /\ UNCHANGED <<fs, edits, stable, filesToProcess, folders>>

(* readdir returns an entry and fstatat looks at it.  An entry that comes  *)
(* or goes while the directory is open is returned or not; one that is     *)
(* gone when fstatat looks is passed over, as if it had not been returned. *)
ReadEntry(n) ==
    /\ pc = "read" /\ n \in Children(at) \ seen
    /\ seen' = seen \cup {n}
    /\ IF IsDir(Append(at, n))
       THEN recursiveFolders' = Append(recursiveFolders, Append(dir, n))
            /\ UNCHANGED filesToProcess
       ELSE filesToProcess' = Append(filesToProcess, Append(dir, n))
            /\ UNCHANGED recursiveFolders
    /\ UNCHANGED <<fs, edits, stable, pc, dir, at, old, again, folders>>

(* readdir says that there are no more. *)
CloseDir ==
    /\ pc = "read" /\ old \cap Children(at) \subseteq seen
    /\ pc' = "pop" /\ dir' = NoDir /\ at' = NoDir /\ seen' = {} /\ old' = {}
    /\ UNCHANGED <<fs, edits, stable, recursiveFolders, filesToProcess, again, folders>>

ScanDone ==
    /\ pc = "pop" /\ recursiveFolders = << >>
    /\ pc' = "folders"
    /\ UNCHANGED <<fs, edits, stable, recursiveFolders, filesToProcess, dir, at, seen,
                   old, again, folders>>

-----------------------------------------------------------------------------
(* extractFolderFromFilePath: the path with "\" turned into "/", up to the *)
(* last of them.                                                           *)
extractFolderFromFilePath(p) ==
    LET pre[k \in 0 .. Len(p)] == IF k = 0 THEN << >> ELSE pre[k - 1] \o Parts[p[k]]
    IN  Front(pre[Len(p)])

(* A mistake for the check of FoldersMade: only the last one is made. *)
smartCreateLast(d) == IF Len(d) < 2 \/ Up(d) \in made THEN {d} ELSE {}

(* smartCreate makes the folders along the way, from the first. *)
smartCreate(d) == {SubSeq(d, 1, n) : n \in 1 .. Len(d)}

(* A mistake for the check of TypeOK: every second file is skipped. *)
MakeSomeFolders ==
    /\ pc = "folders" /\ next <= Len(filesToProcess)
    /\ cachedDir' = extractFolderFromFilePath(filesToProcess[next])
    /\ made' = made \cup smartCreate(cachedDir')
    /\ next' = next + 2
    /\ UNCHANGED <<fs, edits, stable, scan>>

(* The folder of each file that is new or has changed, unless it is the    *)
(* one that was made last.                                                 *)
MakeFolder ==
    /\ pc = "folders" /\ next <= Len(filesToProcess)
    /\ LET d == extractFolderFromFilePath(filesToProcess[next])
       IN  IF cachedDir # d
           THEN cachedDir' = d /\ made' = made \cup smartCreate(d)
           ELSE UNCHANGED <<cachedDir, made>>
    /\ next' = next + 1
    /\ UNCHANGED <<fs, edits, stable, scan>>

FoldersDone ==
    /\ pc = "folders" /\ next > Len(filesToProcess)
    /\ pc' = "compress"
    /\ UNCHANGED <<fs, edits, stable, recursiveFolders, filesToProcess, dir, at, seen,
                   old, again, folders>>

-----------------------------------------------------------------------------
Edit == pc \in {"pop", "read"} /\ edits < MaxEdits /\ edits' = edits + 1

(* The names of the open directory change with what is below it. *)
StillOld(f) == old \cap {Last(p) : p \in {e \in DOMAIN f : Up(e) = at}}

(* A new entry may be returned although an older one of its name was. *)
Appears(p) == seen' = seen \/ (Up(p) = at /\ Last(p) \in seen /\ seen' = seen \ {Last(p)})

Create(p, kind) ==
    /\ Edit
    /\ p \in Path \ (DOMAIN fs \cup {<< >>}) /\ IsDir(Up(p))
    /\ fs' = [e \in DOMAIN fs \cup {p} |-> IF e = p THEN kind ELSE fs[e]]
    /\ Appears(p)
    /\ UNCHANGED <<stable, pc, recursiveFolders, filesToProcess, dir, at, old, again,
                   folders>>

(* A file or a directory with all that is in it. *)
Delete(p) ==
    /\ Edit
    /\ p \in DOMAIN fs
    /\ fs' = [e \in {e \in DOMAIN fs : ~IsPrefix(p, e)} |-> fs[e]]
    /\ stable' = {e \in stable : ~IsPrefix(p, e)}
    /\ at' = IF pc = "read" /\ IsPrefix(p, at) THEN Gone ELSE at
    /\ old' = IF pc = "read" THEN StillOld(fs') ELSE old
    /\ UNCHANGED <<pc, recursiveFolders, filesToProcess, dir, seen, again, folders>>

Moved(p, to, e) == to \o SubSeq(e, Len(p) + 1, Len(e))

Move(p, to) ==
    /\ Edit
    /\ p \in DOMAIN fs /\ to \in Path \ (DOMAIN fs \cup {<< >>})
    /\ ~IsPrefix(p, to) /\ IsDir(Up(to))
    /\ LET below == {e \in DOMAIN fs : IsPrefix(p, e)}
       IN  /\ \A e \in below : Moved(p, to, e) \in Path
           /\ fs' = [e \in (DOMAIN fs \ below) \cup {Moved(p, to, b) : b \in below} |->
                        IF IsPrefix(to, e) THEN fs[Moved(to, p, e)] ELSE fs[e]]
    /\ stable' = {e \in stable : ~IsPrefix(p, e)}
    /\ at' = IF pc = "read" /\ IsPrefix(p, at) THEN Moved(p, to, at) ELSE at
    /\ old' = IF pc = "read" /\ ~IsPrefix(p, at) THEN StillOld(fs') ELSE old
    /\ Appears(to)
    /\ UNCHANGED <<pc, recursiveFolders, filesToProcess, dir, again, folders>>

User ==
    \/ \E p \in Path, kind \in {"file", "dir"} : Create(p, kind)
    \/ \E p \in DOMAIN fs : Delete(p)
    \/ \E p \in DOMAIN fs, to \in Path : Move(p, to)

-----------------------------------------------------------------------------
Program ==
    \/ OpenDir \/ CloseDir \/ ScanDone \/ MakeFolder \/ FoldersDone
    \/ \E n \in Name : ReadEntry(n)

Next == Program \/ User \/ ((pc = "compress" \/ AtBound) /\ UNCHANGED vars)

(* The program runs on; the user need not do anything. *)
Spec == Init /\ [][Next]_vars /\ WF_vars(Program)

-----------------------------------------------------------------------------
Found(p) == {k \in DOMAIN filesToProcess : filesToProcess[k] = p}

(* A file that the user leaves alone, with the directories above it, is    *)
(* found, whatever is moved, made or deleted around it while the scan      *)
(* runs, and found once, unless a directory above it was also read for     *)
(* another one, of the same name but for backslashes at its end.  What     *)
(* lies in a directory that may not be read, or has such a name, is not    *)
(* found.                                                                  *)
FoundExactly ==
    pc = "folders" =>
        \A p \in stable : Tree[p] = "file" =>
            IF \A n \in 1 .. Len(p) - 1 : Tree[SubSeq(p, 1, n)] = "dir" /\ p[n] \in Plain
            THEN /\ Found(p) # {}
                 /\ (\A d \in again : ~IsPrefix(d, p)) => Cardinality(Found(p)) = 1
            ELSE Found(p) = {}

(* "create folder structure in output path" (ctrlcenter2.cpp:610): when    *)
(* the compressors start, the folder of each file they are to write is     *)
(* there, though a folder is made only where the list changes folders.     *)
(* Only for a folder with a backslash in its name it is another one.       *)
FoldersMade ==
    pc = "compress" =>
        \A k \in DOMAIN filesToProcess :
            LET d == Up(filesToProcess[k])
            IN  d # << >> /\ (\A n \in Range(d) : Parts[n] = <<n>>) => d \in made

(* The scan ends, although directories are pushed while others are read,   *)
(* as long as no directory has a name of backslashes only.                 *)
ScanEnds ==
    [](\A p \in DOMAIN fs : IsDir(p) => Bare[Last(p)] # << >>) => <>(pc = "compress")
=============================================================================
