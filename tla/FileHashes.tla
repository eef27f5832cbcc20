----------------------------- MODULE FileHashes -----------------------------
(***************************************************************************)
(* The class FileHashes of ctrlcenter2.cpp: an ordered list of entries     *)
(* (hash, path) that is read from and saved to a text file, compared with  *)
(* another list and merged with another list.  The database and the        *)
(* filehashes.txt of every backup set are objects of this class.           *)
(*                                                                         *)
(* A list is a sequence of entries.  The hash function's name, which is    *)
(* written to the file and never looked at, is left out.  A file that does *)
(* not exist and an empty file read back as the same list, so both are     *)
(* the empty sequence.                                                     *)
(***************************************************************************)
EXTENDS Integers, Sequences, Functions

CONSTANTS
    Path,       \* the paths a file can have
    Hash,       \* the hash values the hash tool prints
    Prefix,     \* Prefix[p]: the other paths that a cut-off line for p shows
    Garbage     \* stands for every name that is not the path of a file

ASSUME PathAssumption == /\ Prefix \in [Path -> SUBSET Path]
                         /\ Garbage \notin Path

(* What FileEntry::mPath can hold. *)
Name == Path \cup {Garbage}

(* FileHashes::FileEntry. *)
FileEntry == [mHashValue : Hash, mPath : Name]

(* The names a list has an entry for. *)
Names(entries) == {e.mPath : e \in Range(entries)}

(* FileHashes::findIndexToFile: the first entry with this path.  Positions  *)
(* count from 1 here, and 0 stands for the code's -1.                      *)
findIndexToFile(entries, path) ==
    IF \E i \in DOMAIN entries : entries[i].mPath = path
    THEN CHOOSE i \in DOMAIN entries :
            /\ entries[i].mPath = path
            /\ \A j \in DOMAIN entries : entries[j].mPath = path => i <= j
    ELSE 0

(* The body of the loop of FileHashes::compareToFileHashes. *)
CompareResult(entry, otherFiles) ==
    LET otherFileIndex == findIndexToFile(otherFiles, entry.mPath)
    IN  IF otherFileIndex = 0 THEN "eNew"
        ELSE IF entry.mHashValue = otherFiles[otherFileIndex].mHashValue
             THEN "eSame"
             ELSE "eChanged"

(* The body of the loop of FileHashes::mergeUpdates. *)
MergeUpdate(entries, otherEntry) ==
    LET fileIndex == findIndexToFile(entries, otherEntry.mPath)
    IN  IF fileIndex = 0 THEN Append(entries, otherEntry)
                         ELSE [entries EXCEPT ![fileIndex] = otherEntry]

(* What parseBuffer can take for the path of an entry whose line is cut     *)
(* off: it runs over the end of the text into the ten bytes nobody has set, *)
(* so the path is the part that was written, or that and whatever follows   *)
(* it in memory.  Prefix has the cases in which that is the path of another *)
(* file.                                                                    *)
CutPaths(entry) ==
    {Garbage} \cup (IF entry.mPath \in Path THEN Prefix[entry.mPath] ELSE {})

(* What readFileHashes returns for a file that saveFileHashes has written   *)
(* only in part: fopen(.., "w") has emptied the file, the lines reach it in *)
(* blocks, and the process died or the disk was full before the last one.   *)
(* The file may end inside a line.                                          *)
ShortWrites(entries) ==
    {SubSeq(entries, 1, n) : n \in 0 .. Len(entries)}
    \cup
    UNION {{Append(SubSeq(entries, 1, n),
                   [mHashValue |-> entries[n + 1].mHashValue, mPath |-> cut]) :
               cut \in CutPaths(entries[n + 1])} : n \in 0 .. Len(entries) - 1}
=============================================================================
