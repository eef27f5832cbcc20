------------------------- MODULE BackupArchiveProofs ------------------------
(***************************************************************************)
(* What BackupArchive guarantees for every set of paths and contents, for  *)
(* every choice of tools, of paths that are cut and of symbolic links, and *)
(* for any number of sets, edits and faults.                               *)
(***************************************************************************)
EXTENDS BackupArchive, WellFoundedInduction, SequenceTheorems, FiniteSetTheorems, TLAPS

(* What the operations of the class FileHashes return, for every list.     *)

(* A set of numbers that is not empty has a least element. *)
LEMMA LeastNumber ==
    ASSUME NEW S \in SUBSET Nat, S # {}
    PROVE  \E m \in S : \A n \in S : m <= n
<1>1. \E m \in S : \A n \in S : <<n, m>> \notin OpToRel(<, Nat)
    BY NatLessThanWellFounded, WFMin
<1>2. PICK m \in S : \A n \in S : <<n, m>> \notin OpToRel(<, Nat)
    BY <1>1
<1>3. ASSUME NEW n \in S PROVE m <= n
    <2>1. ~(n < m)
        BY <1>2 DEF OpToRel
    <2> QED BY <2>1
<1> QED BY <1>3

(* The entries of a list with one entry more. *)
LEMMA RangeOfAppend ==
    ASSUME NEW T, NEW s \in Seq(T), NEW e \in T
    PROVE  /\ Append(s, e) \in Seq(T)
           /\ Range(Append(s, e)) = Range(s) \cup {e}
<1> DEFINE a == Append(s, e)
<1>1. /\ a \in Seq(T) /\ DOMAIN a = 1 .. Len(s) + 1
      /\ DOMAIN s = 1 .. Len(s) /\ Len(s) \in Nat
      /\ \A i \in 1 .. Len(s) : a[i] = s[i]
      /\ a[Len(s) + 1] = e
    OBVIOUS
<1>2. Range(a) \subseteq Range(s) \cup {e}
    BY <1>1 DEF Range
<1>3. e \in Range(a)
    BY <1>1 DEF Range
<1>4. Range(s) \subseteq Range(a)
    BY <1>1 DEF Range
<1> QED BY <1>1, <1>2, <1>3, <1>4

(* The entries of two lists put together. *)
LEMMA RangeOfConcat ==
    ASSUME NEW T, NEW s \in Seq(T), NEW u \in Seq(T)
    PROVE  /\ s \o u \in Seq(T)
           /\ Range(s \o u) = Range(s) \cup Range(u)
<1> DEFINE c == s \o u
<1>1. /\ c \in Seq(T) /\ DOMAIN c = 1 .. Len(s) + Len(u)
      /\ DOMAIN s = 1 .. Len(s) /\ DOMAIN u = 1 .. Len(u)
      /\ Len(s) \in Nat /\ Len(u) \in Nat
    OBVIOUS
<1>2. \A i \in DOMAIN c : c[i] = IF i <= Len(s) THEN s[i] ELSE u[i - Len(s)]
    BY <1>1
<1>3. Range(c) \subseteq Range(s) \cup Range(u)
    BY <1>1, <1>2 DEF Range
<1>4. Range(s) \subseteq Range(c)
    BY <1>1, <1>2 DEF Range
<1>5. ASSUME NEW i \in DOMAIN u PROVE u[i] \in Range(c)
    <2>1. Len(s) + i \in DOMAIN c /\ c[Len(s) + i] = u[i]
        BY <1>1, <1>2
    <2> QED BY <2>1 DEF Range
<1>6. Range(u) \subseteq Range(c)
    BY <1>5 DEF Range
<1> QED BY <1>1, <1>3, <1>4, <1>6

(* findIndexToFile returns a position of the path, the first one, if the   *)
(* list has the path, and 0 only if it does not.                           *)
LEMMA FindIndex ==
    ASSUME NEW es \in Seq(FileEntry), NEW p
    PROVE  LET i == findIndexToFile(es, p)
           IN  \/ /\ i = 0
                  /\ \A j \in DOMAIN es : es[j].mPath # p
               \/ /\ i \in DOMAIN es
                  /\ es[i].mPath = p
                  /\ \A j \in DOMAIN es : es[j].mPath = p => i <= j
<1> DEFINE S == {i \in DOMAIN es : es[i].mPath = p}
           Found(i) == /\ es[i].mPath = p
                       /\ \A j \in DOMAIN es : es[j].mPath = p => i <= j
<1>1. CASE S = {}
    BY <1>1 DEF findIndexToFile
<1>2. CASE S # {}
    <2>1. S \subseteq Nat
        OBVIOUS
    <2>2. \E i \in DOMAIN es : Found(i)
        BY <1>2, <2>1, LeastNumber
    <2>3. findIndexToFile(es, p) = CHOOSE i \in DOMAIN es : Found(i)
        BY <1>2 DEF findIndexToFile
    <2> QED BY <2>2, <2>3
<1> QED BY <1>1, <1>2

(* A file that compares as eSame has an entry with its path and its hash   *)
(* in the other list.                                                      *)
LEMMA SameIsListed ==
    ASSUME NEW es \in Seq(FileEntry), NEW e \in FileEntry,
           CompareResult(e, es) = "eSame"
    PROVE  \E d \in Range(es) : d.mPath = e.mPath /\ d.mHashValue = e.mHashValue
<1> DEFINE i == findIndexToFile(es, e.mPath)
<1>1. i # 0 /\ e.mHashValue = es[i].mHashValue
    BY DEF CompareResult
<1>2. i \in DOMAIN es /\ es[i].mPath = e.mPath
    BY <1>1, FindIndex
<1> QED BY <1>1, <1>2 DEF Range

(* One round of mergeUpdates adds nothing but the merged entry and drops   *)
(* no name.                                                                *)
LEMMA MergeUpdateFacts ==
    ASSUME NEW es \in Seq(FileEntry), NEW e \in FileEntry
    PROVE  /\ MergeUpdate(es, e) \in Seq(FileEntry)
           /\ Range(MergeUpdate(es, e)) \subseteq Range(es) \cup {e}
           /\ Names(es) \cup {e.mPath} \subseteq Names(MergeUpdate(es, e))
<1> DEFINE i == findIndexToFile(es, e.mPath)
           m == MergeUpdate(es, e)
<1>1. CASE i = 0
    <2>1. m = Append(es, e)
        BY <1>1 DEF MergeUpdate
    <2> QED BY <2>1, RangeOfAppend DEF Names
<1>2. CASE i # 0
    <2>1. i \in DOMAIN es /\ es[i].mPath = e.mPath
        BY <1>2, FindIndex
    <2>2. m = [es EXCEPT ![i] = e]
        BY <1>2 DEF MergeUpdate
    <2>3. m \in Seq(FileEntry) /\ DOMAIN m = DOMAIN es
        BY <2>1, <2>2
    <2>4. \A j \in DOMAIN es : m[j] = IF j = i THEN e ELSE es[j]
        BY <2>1, <2>2
    <2>5. Range(m) \subseteq Range(es) \cup {e}
        BY <2>3, <2>4 DEF Range
    <2>6. \A j \in DOMAIN es : es[j].mPath \in Names(m)
        BY <2>1, <2>3, <2>4 DEF Names, Range
    <2>7. Names(es) \cup {e.mPath} \subseteq Names(m)
        BY <2>1, <2>6 DEF Names, Range
    <2> QED BY <2>3, <2>5, <2>7
<1> QED BY <1>1, <1>2

(* A path that no cut-off line shows is in a file that was written in part *)
(* only if the list that was being written has the entry.                  *)
LEMMA ShortWriteFacts ==
    ASSUME NEW es \in Seq(FileEntry), NEW w \in ShortWrites(es)
    PROVE  /\ w \in Seq(FileEntry)
           /\ \A e \in Range(w) :
                 \/ e \in Range(es)
                 \/ e.mPath = Garbage
                 \/ \E p \in Path : e.mPath \in Prefix[p]
<1>1. ASSUME NEW n \in 0 .. Len(es)
      PROVE  /\ SubSeq(es, 1, n) \in Seq(FileEntry)
             /\ Range(SubSeq(es, 1, n)) \subseteq Range(es)
    <2>1. /\ SubSeq(es, 1, n) \in Seq(FileEntry)
          /\ DOMAIN SubSeq(es, 1, n) = 1 .. n
          /\ \A i \in 1 .. n : SubSeq(es, 1, n)[i] = es[i]
          /\ 1 .. n \subseteq DOMAIN es
        OBVIOUS
    <2> QED BY <2>1 DEF Range
<1>2. CASE \E n \in 0 .. Len(es) : w = SubSeq(es, 1, n)
    BY <1>1, <1>2
<1>3. CASE \E n \in 0 .. Len(es) - 1 : \E cut \in CutPaths(es[n + 1]) :
              w = Append(SubSeq(es, 1, n), [mHashValue |-> es[n + 1].mHashValue,
                                               mPath |-> cut])
    <2>0. PICK n \in 0 .. Len(es) - 1 : \E cut \in CutPaths(es[n + 1]) :
              w = Append(SubSeq(es, 1, n), [mHashValue |-> es[n + 1].mHashValue,
                                               mPath |-> cut])
        BY <1>3
    <2>1. PICK cut \in CutPaths(es[n + 1]) :
              w = Append(SubSeq(es, 1, n), [mHashValue |-> es[n + 1].mHashValue,
                                               mPath |-> cut])
        BY <2>0
    <2> DEFINE last == [mHashValue |-> es[n + 1].mHashValue, mPath |-> cut]
    <2>2. n \in 0 .. Len(es) /\ es[n + 1] \in FileEntry
        OBVIOUS
    <2>3. /\ cut \in Name
          /\ cut = Garbage \/ \E p \in Path : cut \in Prefix[p]
        BY PathAssumption DEF CutPaths, Name
    <2>4. last \in FileEntry /\ last.mPath = cut
        BY <2>2, <2>3 DEF FileEntry
    <2> DEFINE front == SubSeq(es, 1, n)
    <2>5. w = Append(front, last) /\ front \in Seq(FileEntry)
        BY <1>1, <2>1, <2>2
    <2> HIDE DEF front, last
    <2>6. w \in Seq(FileEntry) /\ Range(w) = Range(front) \cup {last}
        BY <2>4, <2>5, RangeOfAppend
    <2> QED BY <1>1, <2>2, <2>3, <2>4, <2>6 DEF front
<1> QED BY <1>2, <1>3 DEF ShortWrites

-----------------------------------------------------------------------------
TypeInv == TypeOK /\ Indices

(* The files are found in some order: a list of paths. *)
LEMMA OrdersAreLists ==
    ASSUME NEW S \in SUBSET Path, NEW s \in Orders(S)
    PROVE  s \in Seq(Path) /\ Range(s) = S /\ DOMAIN s = 1 .. Len(s)
<1>1. Cardinality(S) \in Nat
    BY FS_Subset, FS_CardinalityType, BackupAssumption
<1>2. s \in [1 .. Cardinality(S) -> S] /\ Range(s) = S
    BY DEF Orders
<1>3. s \in Seq(S)
    BY <1>1, <1>2
<1> QED BY <1>2, <1>3

(* What the hash tool prints parses to one entry. *)
LEMMA HashOutputType ==
    ASSUME TypeOK, NEW p \in Path
    PROVE  HashOutput(p) \in Seq(FileEntry) /\ UnableLine \in Seq(FileEntry)
<1>1. UnableLine \in Seq(FileEntry)
    <2>1. [mHashValue |-> UnableHash, mPath |-> Garbage] \in FileEntry
        BY BackupAssumption DEF FileEntry, Name
    <2> QED BY <2>1 DEF UnableLine
<1>2. CASE input[p] = Absent
    BY <1>2, <1>1 DEF HashOutput
<1>3. CASE input[p] # Absent
    <2>1. [mHashValue |-> Meow[input[p]], mPath |-> Reported[p]] \in FileEntry
        BY <1>3, BackupAssumption DEF FileEntry, Name, TypeOK
    <2> QED BY <1>3, <1>1, <2>1 DEF HashOutput
<1> QED BY <1>1, <1>2, <1>3

(* The set that is being written gets its list. *)
LEMMA ListsType ==
    ASSUME TypeOK, Len(lists) >= 1, NEW w \in Seq(FileEntry)
    PROVE  LET new == [lists EXCEPT ![folder] = w]
           IN  /\ new \in Seq(Seq(FileEntry))
               /\ Len(new) = Len(lists)
               /\ DOMAIN new = DOMAIN lists
               /\ new[folder] = w
               /\ \A n \in DOMAIN lists : n # folder => new[n] = lists[n]
BY DEF TypeOK, folder

(* The copy of a file that is there is a copy. *)
LEMMA CopyType ==
    ASSUME TypeOK, Len(lists) >= 1, NEW p \in Path, input[p] # Absent
    PROVE  CopyOf(p) \in Copy
BY DEF TypeOK, folder, CopyOf, Copy

(* When the process ends nothing of its memory is left. *)
LEMMA EndProcessType ==
    ASSUME TypeInv, EndProcess, faults' \in 0 .. MaxFaults,
           UNCHANGED <<input, archive, history>>,
           lists' \in Seq(Seq(FileEntry)), Len(lists') = Len(lists),
           dbFile' \in Seq(FileEntry)
    PROVE  TypeInv'
<1>1. pc' = "idle" /\ results' = << >> /\ filesToProcess' = << >>
      /\ filesHashes' = << >> /\ database' = << >> /\ ~dryRunFlag' /\ k' = 0
      /\ pending' = {} /\ dryRunFlag' = FALSE
    BY DEF EndProcess
<1>a. /\ results' \in Seq(Seq(FileEntry)) /\ filesToProcess' \in Seq(Path)
      /\ filesHashes' \in Seq(FileEntry) /\ database' \in Seq(FileEntry)
    BY <1>1
<1>b. /\ input' = input /\ archive' = archive /\ touched' = touched
      /\ unlisted' = unlisted /\ edits' = edits
    BY DEF history
<1>2. TypeOK'
    BY <1>1, <1>a, <1>b DEF TypeInv, TypeOK, Steps, Copy
<1>3. Indices'
    BY <1>1 DEF Indices, CreateSteps
<1> QED BY <1>2, <1>3 DEF TypeInv

(* Every step of create, merge and the environment keeps the types and the *)
(* indices.                                                                *)
LEMMA TypeStep ==
    ASSUME TypeInv, [Next]_vars
    PROVE  TypeInv'
<1> USE DEF TypeInv
<1> USE BackupAssumption
<1>f. ASSUME Fault PROVE faults' \in 0 .. MaxFaults
    BY <1>f DEF Fault, TypeOK
<1>d. /\ dbFile \in Seq(FileEntry) /\ lists \in Seq(Seq(FileEntry))
      /\ database \in Seq(FileEntry) /\ filesHashes \in Seq(FileEntry)
    BY DEF TypeOK
<1>1. CASE \E dry \in BOOLEAN : StartCreate(dry)
    BY <1>1 DEF StartCreate, TypeOK, Indices, history, Steps, CreateSteps
<1>2. CASE Scan
    <2>1. PICK s \in Orders({p \in Path \ Unreadable : input[p] # Absent}) :
              /\ filesToProcess' = s
              /\ pending' = DOMAIN s
              /\ results' = [i \in DOMAIN s |-> << >>]
        BY <1>2 DEF Scan
    <2>2. s \in Seq(Path) /\ DOMAIN s = 1 .. Len(s)
        BY OrdersAreLists
    <2>3. results' \in Seq(Seq(FileEntry)) /\ DOMAIN results' = DOMAIN s
        BY <2>1, <2>2
    <2> QED BY <1>2, <2>1, <2>2, <2>3
            DEF Scan, TypeOK, Indices, disk, history, Steps, CreateSteps
<1>3. CASE \E i \in pending : HashFile(i)
    <2>1. PICK i \in pending : HashFile(i)
        BY <1>3
    <2>2. i \in DOMAIN filesToProcess /\ filesToProcess[i] \in Path
        BY <2>1 DEF HashFile, TypeOK, Indices
    <2>3. PICK out \in Seq(FileEntry) : results' = [results EXCEPT ![i] = out]
        <3>1. HashOutput(filesToProcess[i]) \in Seq(FileEntry) /\ UnableLine \in Seq(FileEntry)
            BY <2>2, HashOutputType
        <3>2. << >> \in Seq(FileEntry)
            OBVIOUS
        <3> QED BY <2>1, <3>1, <3>2 DEF HashFile
    <2>4. results' \in Seq(Seq(FileEntry)) /\ DOMAIN results' = DOMAIN results
        <3>1. results \in Seq(Seq(FileEntry)) /\ i \in DOMAIN results
            BY <2>2 DEF TypeOK, Indices
        <3> QED BY <2>3, <3>1
    <2>5. faults' \in 0 .. MaxFaults
        BY <2>1, <1>f DEF HashFile, TypeOK
    <2> QED BY <2>1, <2>2, <2>4, <2>5
            DEF HashFile, TypeOK, Indices, disk, history, Steps, CreateSteps
<1>4. CASE \E i \in pending : HashFileExits(i)
    BY <1>4, <1>f, <1>d, EndProcessType DEF HashFileExits, disk
<1>5. CASE HashingDone
    BY <1>5 DEF HashingDone, TypeOK, Indices, disk, history, Steps, CreateSteps
<1>6. CASE ParseResult
    <2>1. k \in DOMAIN results /\ results[k] \in Seq(FileEntry)
        BY <1>6 DEF ParseResult, TypeOK, Indices
    <2>2. filesHashes' \in Seq(FileEntry)
        BY <1>6, <1>d, <2>1 DEF ParseResult
    <2>3. /\ pc = "parse" /\ k' = k + 1
          /\ UNCHANGED <<input, archive, lists, dbFile, pc, dryRunFlag, filesToProcess, pending,
                         results, database, touched, unlisted, edits, faults>>
        BY <1>6 DEF ParseResult, disk, history
    <2>4. TypeOK'
        BY <2>2, <2>3 DEF TypeOK
    <2>5. Indices'
        BY <2>3 DEF TypeOK, Indices
    <2> QED BY <2>4, <2>5
<1>7. CASE CompareToDatabase
    BY <1>7 DEF CompareToDatabase, TypeOK, Indices, disk, history, Steps,
                CreateSteps
<1>8. CASE \E i \in pending : CompressFile(i)
    <2>1. PICK i \in pending : CompressFile(i)
        BY <1>8
    <2> DEFINE p == filesHashes[i].mPath
    <2>2. archive' \subseteq Copy
        <3>1. CASE archive' = archive
            BY <3>1 DEF TypeOK
        <3>2. CASE /\ ~dryRunFlag /\ p \in Path /\ input[p] # Absent
                   /\ archive' = archive \cup {CopyOf(p)}
            BY <2>1, <3>2, CopyType
               DEF CompressFile, Indices, CreateSteps, TypeOK
        <3> QED BY <2>1, <3>1, <3>2 DEF CompressFile, ToolWrites, ToolSkips,
                                        ToolFailsAndCopies, ToolCanWrite
    <2>3. faults' \in 0 .. MaxFaults
        BY <2>1, <1>f DEF CompressFile, ToolWrites, ToolSkips,
                          ToolFailsAndCopies, TypeOK
    <2> QED BY <2>1, <2>2, <2>3
            DEF CompressFile, TypeOK, Indices, history, Steps, CreateSteps
<1>9. CASE \E i \in pending : CompressFileExits(i)
    <2>1. faults' \in 0 .. MaxFaults
        BY <1>9, <1>f DEF CompressFileExits, TypeOK
    <2> QED BY <1>9, <1>d, <2>1, EndProcessType DEF CompressFileExits, disk
<1>10. CASE CompressionDone
    BY <1>10 DEF CompressionDone, TypeOK, Indices, disk, memory, history,
                 Steps, CreateSteps
<1>11. CASE WriteFileHashes
    <2>1. lists' \in Seq(Seq(FileEntry)) /\ Len(lists') = Len(lists)
        <3>1. CASE dryRunFlag
            BY <1>11, <3>1, <1>d DEF WriteFileHashes
        <3>2. CASE ~dryRunFlag
            <4>1. Len(lists) >= 1 /\ lists[folder] \in Seq(FileEntry)
                BY <1>11, <3>2
                   DEF WriteFileHashes, Indices, CreateSteps, TypeOK, folder
            <4>2. PICK w \in Seq(FileEntry) : lists' = [lists EXCEPT ![folder] = w]
                BY <1>11, <1>d, <3>2, <4>1, ShortWriteFacts DEF WriteFileHashes
            <4> QED BY <4>1, <4>2, ListsType
        <3> QED BY <3>1, <3>2
    <2>2. faults' \in 0 .. MaxFaults
        BY <1>11, <1>f DEF WriteFileHashes, TypeOK
    <2>3. unlisted' \subseteq Nat
        <3>1. folder \in Nat /\ unlisted \subseteq Nat
            BY DEF folder, TypeOK
        <3> QED BY <1>11, <3>1 DEF WriteFileHashes
    <2>4. TypeOK'
        BY <1>11, <2>1, <2>2, <2>3 DEF WriteFileHashes, TypeOK, Indices, Steps, CreateSteps
    <2>5. Indices'
        BY <1>11, <2>1 DEF WriteFileHashes, TypeOK, Indices, CreateSteps
    <2> QED BY <2>4, <2>5
<1>12. CASE \E n \in DOMAIN lists, dry \in BOOLEAN : StartMerge(n, dry)
    <2>1. filesHashes' \in Seq(FileEntry)
        BY <1>12 DEF StartMerge, TypeOK
    <2> QED BY <1>12, <2>1
            DEF StartMerge, TypeOK, Indices, disk, history, Steps, CreateSteps
<1>13. CASE MergeOne
    <2>1. k \in DOMAIN filesHashes /\ filesHashes[k] \in FileEntry
        BY <1>13 DEF MergeOne, TypeOK, Indices
    <2>2. database' \in Seq(FileEntry)
        BY <1>13, <1>d, <2>1, MergeUpdateFacts DEF MergeOne
    <2>3. k' = k + 1 /\ k \in Nat
        BY <1>13 DEF MergeOne, TypeOK
    <2>u. UNCHANGED <<input, archive, lists, dbFile, pc, dryRunFlag, filesToProcess, pending,
                      results, filesHashes, touched, unlisted, edits, faults>>
        BY <1>13 DEF MergeOne, disk, history
    <2>4. TypeOK'
        BY <2>2, <2>3, <2>u DEF TypeOK
    <2>5. Indices'
        BY <1>13, <2>3 DEF MergeOne, Indices, disk, CreateSteps
    <2> QED BY <2>4, <2>5
<1>14. CASE MergeDone
    BY <1>14 DEF MergeDone, TypeOK, Indices, disk, history, Steps, CreateSteps
<1>15. CASE SaveDatabase
    <2>1. dbFile' \in Seq(FileEntry)
        BY <1>15, <1>d, ShortWriteFacts DEF SaveDatabase
    <2>2. faults' \in 0 .. MaxFaults
        BY <1>15, <1>f DEF SaveDatabase, TypeOK
    <2> QED BY <1>15, <2>1, <2>2
            DEF SaveDatabase, TypeOK, Indices, memory, history, Steps, CreateSteps
<1>16. CASE Finish
    BY <1>16, <1>d, EndProcessType DEF Finish, disk, TypeOK
<1>17. CASE Crash
    <2>1. dbFile' \in Seq(FileEntry)
        BY <1>17, <1>d, ShortWriteFacts DEF Crash
    <2>2. lists' \in Seq(Seq(FileEntry)) /\ Len(lists') = Len(lists)
        <3>1. CASE lists' = lists
            BY <3>1, <1>d
        <3>2. CASE /\ pc = "list" /\ ~dryRunFlag
                   /\ \E w \in ShortWrites(filesHashes) :
                          lists' = [lists EXCEPT ![folder] = w]
            <4>1. Len(lists) >= 1
                BY <3>2 DEF Indices, CreateSteps
            <4>2. PICK w \in Seq(FileEntry) : lists' = [lists EXCEPT ![folder] = w]
                BY <1>d, <3>2, ShortWriteFacts
            <4> QED BY <4>1, <4>2, ListsType
        <3> QED BY <1>17, <3>1, <3>2 DEF Crash
    <2> QED BY <1>17, <1>f, <2>1, <2>2, EndProcessType DEF Crash
<1>18. CASE \E p \in Path, c \in Content \cup {Absent} : Edit(p, c)
    <2>1. PICK p \in Path, c \in Content \cup {Absent} : Edit(p, c)
        BY <1>18
    <2>2. input' \in [Path -> Content \cup {Absent}]
        BY <2>1 DEF Edit, TypeOK
    <2>3. touched' \subseteq FileEntry
        <3>1. CASE input[p] = Absent
            BY <2>1, <3>1 DEF Edit, TypeOK
        <3>2. CASE input[p] # Absent
            <4>1. EntryOf(p) \in FileEntry
                BY <2>1, <3>2 DEF EntryOf, FileEntry, Name, TypeOK
            <4> QED BY <2>1, <4>1 DEF Edit, TypeOK
        <3> QED BY <3>1, <3>2
    <2>4. edits' \in 0 .. MaxEdits
        BY <2>1 DEF Edit, TypeOK
    <2>5. TypeOK'
        BY <2>1, <2>2, <2>3, <2>4 DEF Edit, TypeOK, memory, Steps, CreateSteps
    <2>6. Indices'
        BY <2>1 DEF Edit, Indices, memory, CreateSteps
    <2> QED BY <2>5, <2>6
<1>19. CASE LoseDatabase
    BY <1>19, <1>f DEF LoseDatabase, TypeOK, Indices, memory, history, Steps,
                       CreateSteps
<1>20. CASE UNCHANGED vars
    BY <1>20 DEF vars, TypeOK, Indices, disk, memory, history
<1> QED BY <1>1, <1>2, <1>3, <1>4, <1>5, <1>6, <1>7, <1>8, <1>9, <1>10, <1>11,
           <1>12, <1>13, <1>14, <1>15, <1>16, <1>17, <1>18, <1>19, <1>20
        DEF Next, Create, MergeAndSave, Environment

(* The first state has the right types: no process runs and nothing is on  *)
(* the disk but the input folder.                                          *)
LEMMA InitType == Init => TypeInv
<1> SUFFICES ASSUME Init PROVE TypeInv
    OBVIOUS
<1>1. /\ lists \in Seq(Seq(FileEntry)) /\ Len(lists) = 0
      /\ results \in Seq(Seq(FileEntry)) /\ filesToProcess \in Seq(Path)
      /\ filesHashes \in Seq(FileEntry) /\ database \in Seq(FileEntry)
      /\ dbFile \in Seq(FileEntry)
    BY DEF Init
<1>2. TypeOK
    <2>1. MaxSets \in Nat /\ MaxEdits \in Nat /\ MaxFaults \in Nat
        BY BackupAssumption
    <2>2. 0 <= MaxSets /\ edits \in 0 .. MaxEdits /\ faults \in 0 .. MaxFaults
        BY <2>1 DEF Init
    <2> QED BY <1>1, <2>2 DEF Init, TypeOK, Steps
<1>3. Indices
    BY DEF Init, Indices, CreateSteps
<1> QED BY <1>2, <1>3 DEF TypeInv

(* Every variable keeps its type, every open job and loop counter stays    *)
(* within the list it indexes, and a run that writes has a set to write to *)
(* (createOrUpdateArchive, mergeFilelistToDatabase).                       *)
THEOREM TypeCorrect == Spec => []TypeOK
<1>1. TypeInv => TypeOK
    BY DEF TypeInv
<1> QED BY InitType, TypeStep, <1>1, PTL DEF Spec

-----------------------------------------------------------------------------
(* Copies are never removed, and an edited file stays marked. *)
LEMMA GrowStep ==
    ASSUME TypeInv, [Next]_vars
    PROVE  /\ archive \subseteq archive'
           /\ touched \subseteq touched'
           /\ Len(lists) \in Nat /\ Len(lists') \in Nat
           /\ Len(lists) <= Len(lists')
<1>1. archive \subseteq archive' /\ touched \subseteq touched'
    BY DEF Next, Create, MergeAndSave, Environment, StartCreate, Scan, HashFile,
           HashFileExits, HashingDone, ParseResult, CompareToDatabase,
           CompressFile, CompressFileExits, CompressionDone, WriteFileHashes,
           StartMerge, MergeOne, MergeDone, SaveDatabase, Finish, Crash, Edit,
           LoseDatabase, ToolWrites, ToolSkips, ToolFailsAndCopies,
           vars, disk, history
<1>2. TypeInv'
    BY TypeStep
<1>3. Len(lists) \in Nat /\ Len(lists') \in Nat
    <2>1. lists \in Seq(Seq(FileEntry)) /\ lists' \in Seq(Seq(FileEntry))
        BY <1>2 DEF TypeInv, TypeOK
    <2> QED BY <2>1
<1>4. Len(lists) <= Len(lists')
    <2>1. CASE lists' = lists
        BY <2>1, <1>3
    <2>2. CASE \E w : lists' = [lists EXCEPT ![folder] = w]
        BY <2>2, <1>2 DEF TypeInv, TypeOK
    <2>3. CASE lists' = Append(lists, << >>)
        BY <2>3 DEF TypeInv, TypeOK
    <2> QED BY <2>1, <2>2, <2>3
            DEF Next, Create, MergeAndSave, Environment, StartCreate, Scan,
                HashFile, HashFileExits, HashingDone, ParseResult,
                CompareToDatabase, CompressFile, CompressFileExits,
                CompressionDone, WriteFileHashes, StartMerge, MergeOne,
                MergeDone, SaveDatabase, Finish, Crash, Edit, LoseDatabase,
                vars, disk
<1> QED BY <1>1, <1>3, <1>4

(* An entry that is sound stays so: for a later set, with more copies, and *)
(* with more files edited.                                                 *)
LEMMA SoundStays ==
    ASSUME TypeOK, archive \subseteq archive', touched \subseteq touched',
           NEW m \in Nat, NEW n \in Nat, m <= n, NEW e,
           SoundBy(e, m)
    PROVE  e.mPath \in Faithful /\ e \notin touched' =>
               \E copy \in archive' : /\ copy.set <= n
                                      /\ copy.path = e.mPath
                                      /\ Meow[copy.content] = e.mHashValue
<1> SUFFICES ASSUME e.mPath \in Faithful, e \notin touched'
             PROVE  \E copy \in archive' : /\ copy.set <= n
                                           /\ copy.path = e.mPath
                                           /\ Meow[copy.content] = e.mHashValue
    OBVIOUS
<1>1. PICK copy \in archive : /\ copy.set <= m
                              /\ copy.path = e.mPath
                              /\ Meow[copy.content] = e.mHashValue
    BY DEF SoundBy, ArchivedBy
<1>2. copy.set \in Nat
    BY BackupAssumption DEF TypeOK, Copy
<1>3. copy.set <= n
    BY <1>1, <1>2
<1> QED BY <1>1, <1>3

(* Two entries with the same path and the same hash are the same entry. *)
LEMMA SameEntry ==
    ASSUME NEW d \in FileEntry, NEW e \in FileEntry,
           d.mPath = e.mPath, d.mHashValue = e.mHashValue
    PROVE  d = e
BY DEF FileEntry

(* Hashes stay current: only an edit changes a file, and it marks the      *)
(* entry the file had.                                                     *)
LEMMA CurrentStays ==
    ASSUME TypeOK, [Next]_vars, pc \in {"hash", "parse", "compress"},
           ~dryRunFlag, NEW e \in FileEntry, Current(e)
    PROVE  Current(e)'
<1>1. CASE input' = input /\ touched' = touched
    BY <1>1 DEF Current
<1>2. CASE \E p \in Path, c \in Content \cup {Absent} : Edit(p, c)
    <2>1. PICK p \in Path, c \in Content \cup {Absent} : Edit(p, c)
        BY <1>2
    <2>2. /\ input' = [input EXCEPT ![p] = c] /\ touched \subseteq touched'
          /\ input[p] # Absent => EntryOf(p) \in touched'
        BY <2>1 DEF Edit
    <2>3. CASE e.mPath # p
        BY <2>2, <2>3 DEF Current, TypeOK, Faithful, Untorn
    <2>4. CASE e.mPath = p
        <3> SUFFICES ASSUME p \in Faithful, e \notin touched'
                     PROVE  FALSE
            BY <2>4 DEF Current
        <3>1. input[p] # Absent /\ e.mHashValue = Meow[input[p]]
            BY <2>2, <2>4 DEF Current
        <3>2. EntryOf(p) \in FileEntry
            BY <3>1, BackupAssumption DEF EntryOf, FileEntry, Name, TypeOK
        <3>3. e = EntryOf(p)
            BY <2>4, <3>1, <3>2, SameEntry DEF EntryOf
        <3> QED BY <2>2, <3>1, <3>3
    <2> QED BY <2>3, <2>4
<1> QED BY <1>1, <1>2
        DEF Next, Create, MergeAndSave, Environment, StartCreate, Scan,
            HashFile, HashFileExits, HashingDone, ParseResult,
            CompareToDatabase, CompressFile, CompressFileExits,
            CompressionDone, WriteFileHashes, StartMerge, MergeOne, MergeDone,
            SaveDatabase, Finish, Crash, LoseDatabase, vars, disk, history

(* The flag of a run that hashes, parses or compresses was set before. *)
LEMMA DryRunStays ==
    ASSUME [Next]_vars, pc' \in {"hash", "parse", "compress"}
    PROVE  dryRunFlag' = dryRunFlag
BY DEF Next, Create, MergeAndSave, Environment, StartCreate, Scan, HashFile,
       HashFileExits, HashingDone, ParseResult, CompareToDatabase,
       CompressFile, CompressFileExits, CompressionDone, WriteFileHashes,
       StartMerge, MergeOne, MergeDone, SaveDatabase, Finish, Crash, Edit,
       LoseDatabase, EndProcess, vars, memory

(* Hashing, parsing and compressing keep it true that what was hashed is   *)
(* what is there.                                                          *)
LEMMA HashesCurrentStep ==
    ASSUME TypeInv, HashesCurrent, [Next]_vars
    PROVE  HashesCurrent'
<1> USE DEF TypeInv
<1> SUFFICES ASSUME ~dryRunFlag', pc' \in {"hash", "parse", "compress"}
             PROVE  HashesCurrent'
    BY DEF HashesCurrent
<1>d. ~dryRunFlag
    BY DryRunStays
<1>e. /\ \A i \in DOMAIN results : Range(results[i]) \subseteq FileEntry
      /\ Range(filesHashes) \subseteq FileEntry
    BY DEF TypeOK, Range
<1>r. ASSUME pc \in {"hash", "parse"}, pc' \in {"hash", "parse"},
             results' = results
      PROVE  \A i \in DOMAIN results' : \A e \in Range(results'[i]) : Current(e)'
    BY <1>r, <1>d, <1>e, CurrentStays DEF HashesCurrent
<1>h. ASSUME pc \in {"parse", "compress"}, filesHashes' = filesHashes
      PROVE  \A e \in Range(filesHashes') : Current(e)'
    BY <1>h, <1>d, <1>e, CurrentStays DEF HashesCurrent
<1>1. CASE Scan
    <2>1. PICK s \in Orders({p \in Path \ Unreadable : input[p] # Absent}) :
              results' = [i \in DOMAIN s |-> << >>]
        BY <1>1 DEF Scan
    <2>2. \A i \in DOMAIN results' : Range(results'[i]) = {}
        BY <2>1 DEF Range
    <2>3. pc' = "hash"
        BY <1>1 DEF Scan
    <2> QED BY <2>2, <2>3 DEF HashesCurrent
<1>2. CASE \E i \in pending : HashFile(i)
    <2>1. PICK i \in pending : HashFile(i)
        BY <1>2
    <2>2. i \in DOMAIN results /\ i \in DOMAIN filesToProcess
          /\ filesToProcess[i] \in Path
        BY <2>1 DEF HashFile, TypeOK, Indices
    <2> DEFINE p == filesToProcess[i]
    <2>3. pc = "hash" /\ pc' = "hash" /\ input' = input /\ touched' = touched
        BY <2>1 DEF HashFile, disk, history
    <2>4. results'[i] = << >> \/ results'[i] = UnableLine \/ results'[i] = HashOutput(p)
        BY <2>1, <2>2 DEF HashFile, TypeOK
    <2>5. DOMAIN results' = DOMAIN results
          /\ \A n \in DOMAIN results : n # i => results'[n] = results[n]
        BY <2>1 DEF HashFile
    <2>6. ASSUME NEW e \in Range(results'[i]) PROVE Current(e)'
        <3>2. CASE e = UnableLine[1]
            <4>1. e.mPath = Garbage
                BY <3>2 DEF UnableLine
            <4> QED BY <4>1, PathAssumption DEF Current, Faithful, Untorn
        <3>3. CASE e = HashOutput(p)[1] /\ input[p] # Absent
            <4>1. e.mPath = Reported[p] /\ e.mHashValue = Meow[input[p]]
                BY <3>3 DEF HashOutput
            <4>2. e.mPath \in Faithful => e.mPath = p
                BY <4>1, <2>2 DEF Faithful
            <4> QED BY <2>3, <3>3, <4>1, <4>2 DEF Current
        <3>4. e = UnableLine[1] \/ (e = HashOutput(p)[1] /\ input[p] # Absent)
            BY <2>4, <2>6 DEF Range, HashOutput, UnableLine
        <3> QED BY <3>2, <3>3, <3>4
    <2>7. ASSUME NEW n \in DOMAIN results', NEW e \in Range(results'[n])
          PROVE  Current(e)'
        <3>1. CASE n = i
            BY <3>1, <2>6
        <3>2. CASE n # i
            BY <3>2, <2>3, <2>5, <1>d, <1>e, CurrentStays DEF HashesCurrent
        <3> QED BY <3>1, <3>2
    <2> QED BY <2>3, <2>7 DEF HashesCurrent
<1>3. CASE HashingDone
    <2>1. filesHashes' = << >> /\ pc = "hash" /\ pc' = "parse" /\ results' = results
        BY <1>3 DEF HashingDone, Indices
    <2>2. Range(filesHashes') = {}
        BY <2>1 DEF Range
    <2> QED BY <1>r, <2>1, <2>2 DEF HashesCurrent
<1>4. CASE ParseResult
    <2>1. /\ pc = "parse" /\ pc' = "parse" /\ results' = results
          /\ filesHashes' = filesHashes \o results[k]
        BY <1>4 DEF ParseResult
    <2>2. k \in DOMAIN results /\ results[k] \in Seq(FileEntry)
          /\ filesHashes \in Seq(FileEntry)
        BY <1>4 DEF ParseResult, TypeOK, Indices
    <2>3. Range(filesHashes') = Range(filesHashes) \cup Range(results[k])
        BY <2>1, <2>2, RangeOfConcat
    <2>4. \A e \in Range(filesHashes') : Current(e)'
        BY <2>1, <2>2, <2>3, <1>d, <1>e, CurrentStays DEF HashesCurrent
    <2> QED BY <1>r, <2>1, <2>4 DEF HashesCurrent
<1>5. CASE CompareToDatabase
    <2>1. pc = "parse" /\ pc' = "compress" /\ filesHashes' = filesHashes
        BY <1>5 DEF CompareToDatabase
    <2> QED BY <1>h, <2>1 DEF HashesCurrent
<1>6. CASE \E i \in pending : CompressFile(i)
    <2>1. pc = "compress" /\ pc' = "compress" /\ filesHashes' = filesHashes
        BY <1>6 DEF CompressFile
    <2> QED BY <1>h, <2>1 DEF HashesCurrent
<1>7. CASE /\ pc' = pc /\ results' = results /\ filesHashes' = filesHashes
    BY <1>r, <1>h, <1>7 DEF HashesCurrent
<1>8. CASE pc' \notin {"hash", "parse", "compress"}
    BY <1>8 DEF HashesCurrent
<1>9. \/ Scan \/ (\E i \in pending : HashFile(i)) \/ HashingDone
      \/ ParseResult \/ CompareToDatabase \/ (\E i \in pending : CompressFile(i))
      \/ /\ pc' = pc /\ results' = results /\ filesHashes' = filesHashes
      \/ pc' \notin {"hash", "parse", "compress"}
    BY DEF Next, Create, MergeAndSave, Environment, StartCreate, HashFileExits,
           CompressFileExits, CompressionDone, WriteFileHashes, StartMerge,
           MergeOne, MergeDone, SaveDatabase, Finish, Crash, Edit,
           LoseDatabase, EndProcess, vars, memory
<1> QED BY <1>1, <1>2, <1>3, <1>4, <1>5, <1>6, <1>7, <1>8, <1>9

-----------------------------------------------------------------------------
(* SoundBy(e, n), after the step. *)
SoundAfter(e, n) ==
    e.mPath \in Faithful /\ e \notin touched' =>
        \E copy \in archive' : /\ copy.set <= n
                               /\ copy.path = e.mPath
                               /\ Meow[copy.content] = e.mHashValue

(* A sound entry is sound after the step, too.                             *)
LEMMA SoundAfterStep ==
    ASSUME TypeInv, [Next]_vars, NEW m \in Nat, NEW n \in Nat, m <= n, NEW e,
           SoundBy(e, m)
    PROVE  SoundAfter(e, n)
BY GrowStep, SoundStays DEF TypeInv, SoundAfter

(* An unchanged file needs no copy: the entry of the database that it is   *)
(* compared with is sound.                                                 *)
LEMMA SameIsSound ==
    ASSUME TypeInv, MemorySound, ~dryRunFlag, NEW e \in FileEntry,
           CompareResult(e, database) = "eSame"
    PROVE  SoundBy(e, Len(lists))
<1>1. PICK d \in Range(database) :
          d.mPath = e.mPath /\ d.mHashValue = e.mHashValue
    BY SameIsListed DEF TypeInv, TypeOK
<1>2. SoundBy(d, Len(lists))
    BY DEF MemorySound
<1>3. d \in FileEntry
    BY DEF TypeInv, TypeOK, Range
<1> QED BY <1>1, <1>2, <1>3, SameEntry

(* A compression job that ends leaves a copy of the file with the hash its *)
(* entry records, whichever way it ended.                                  *)
LEMMA JobMakesSound ==
    ASSUME SoundInv, NEW i \in pending, CompressFile(i), ~dryRunFlag
    PROVE  SoundAfter(filesHashes[i], Len(lists))
<1> DEFINE e == filesHashes[i]
           p == e.mPath
<1>1. pc = "compress" /\ i \in DOMAIN filesHashes /\ e \in Range(filesHashes)
    BY DEF CompressFile, SoundInv, Indices, Range
<1>2. Len(lists) >= 1 /\ Len(lists) \in Nat
    BY <1>1 DEF SoundInv, TypeOK, Indices, CreateSteps
<1>3. Current(e)
    BY <1>1 DEF SoundInv, HashesCurrent
<1>4. touched' = touched
    BY DEF CompressFile, history
<1> SUFFICES ASSUME p \in Faithful, e \notin touched'
             PROVE  \E copy \in archive' : /\ copy.set <= Len(lists)
                                           /\ copy.path = e.mPath
                                           /\ Meow[copy.content] = e.mHashValue
    BY DEF SoundAfter
<1>5. p \in Path /\ input[p] # Absent /\ e.mHashValue = Meow[input[p]]
    BY <1>3, <1>4 DEF Current, Faithful, Untorn
<1>6. ~ToolCanSkip(p)
    BY <1>5 DEF ToolCanSkip, Faithful
<1>7. CopyOf(p) \in archive'
    BY <1>6 DEF CompressFile, ToolWrites, ToolSkips, ToolFailsAndCopies
<1>8. /\ CopyOf(p).set = Len(lists) /\ CopyOf(p).path = p
      /\ CopyOf(p).content = input[p]
    BY DEF CopyOf, folder
<1> QED BY <1>2, <1>5, <1>7, <1>8

(* What a run has in memory stays sound: through the comparison with the   *)
(* database, each compression job and each merged entry.                   *)
LEMMA MemorySoundStep ==
    ASSUME SoundInv, [Next]_vars
    PROVE  MemorySound'
<1> USE DEF TypeInv
<1>t. TypeInv
    BY DEF SoundInv
<1>g. Len(lists) \in Nat /\ Len(lists') \in Nat /\ Len(lists) <= Len(lists')
    BY <1>t, GrowStep
<1>s. ASSUME NEW e, SoundBy(e, Len(lists))
      PROVE  SoundAfter(e, Len(lists'))
    BY <1>t, <1>g, <1>s, SoundAfterStep
<1> SUFFICES ASSUME ~dryRunFlag'
             PROVE  /\ \A e \in Range(database') : SoundAfter(e, Len(lists'))
                    /\ pc' = "compress" =>
                          \A i \in DOMAIN filesHashes' \ pending' :
                              SoundAfter(filesHashes'[i], Len(lists'))
                    /\ pc' \in {"list", "merge", "remerge", "import"} =>
                          \A e \in Range(filesHashes') : SoundAfter(e, Len(lists'))
    BY DEF MemorySound, SoundBy, ArchivedBy, SoundAfter
<1>d. ASSUME ~dryRunFlag, database' = database
      PROVE  \A e \in Range(database') : SoundAfter(e, Len(lists'))
    BY <1>s, <1>d DEF SoundInv, MemorySound
<1>h. ASSUME ~dryRunFlag, filesHashes' = filesHashes,
             pc \in {"list", "merge", "remerge", "import"}
      PROVE  \A e \in Range(filesHashes') : SoundAfter(e, Len(lists'))
    BY <1>s, <1>h DEF SoundInv, MemorySound
<1>1. CASE \E dry \in BOOLEAN : StartCreate(dry)
    <2>1. database' = dbFile /\ pc' = "scan"
        BY <1>1 DEF StartCreate
    <2> QED BY <1>s, <2>1 DEF SoundInv, DbSound
<1>2. CASE \E n \in DOMAIN lists, dry \in BOOLEAN : StartMerge(n, dry)
    <2>1. PICK n \in DOMAIN lists, dry \in BOOLEAN : StartMerge(n, dry)
        BY <1>2
    <2>2. database' = dbFile /\ pc' = "import" /\ filesHashes' = lists[n]
        BY <2>1 DEF StartMerge
    <2>3. n \in Nat /\ n <= Len(lists')
        BY <1>t, <1>g, <2>1 DEF TypeOK
    <2>4. \A e \in Range(filesHashes') : SoundAfter(e, Len(lists'))
        BY <1>t, <1>g, <2>1, <2>2, <2>3, SoundAfterStep DEF SoundInv, ListSound
    <2> QED BY <1>s, <2>2, <2>4 DEF SoundInv, DbSound
<1>3. CASE CompareToDatabase
    <2>1. /\ pc' = "compress" /\ database' = database /\ filesHashes' = filesHashes
          /\ dryRunFlag' = dryRunFlag
          /\ pending' = {i \in DOMAIN filesHashes :
                            CompareResult(filesHashes[i], database) # "eSame"}
        BY <1>3 DEF CompareToDatabase
    <2>2. ASSUME NEW i \in DOMAIN filesHashes', i \notin pending'
          PROVE  SoundAfter(filesHashes'[i], Len(lists'))
        <3>1. CompareResult(filesHashes[i], database) = "eSame"
            BY <2>1, <2>2
        <3>2. filesHashes[i] \in FileEntry
            BY <2>1, <1>t DEF TypeOK
        <3>3. SoundBy(filesHashes[i], Len(lists))
            BY <1>t, <2>1, <3>1, <3>2, SameIsSound DEF SoundInv
        <3> QED BY <1>s, <2>1, <3>3
    <2> QED BY <1>d, <2>1, <2>2
<1>4. CASE \E i \in pending : CompressFile(i)
    <2>1. PICK i \in pending : CompressFile(i)
        BY <1>4
    <2>2. /\ pc = "compress" /\ pc' = "compress" /\ database' = database
          /\ filesHashes' = filesHashes /\ dryRunFlag' = dryRunFlag
          /\ pending' = pending \ {i} /\ lists' = lists
        BY <2>1 DEF CompressFile
    <2>3. SoundAfter(filesHashes[i], Len(lists'))
        BY <2>1, <2>2, JobMakesSound
    <2>4. ASSUME NEW n \in DOMAIN filesHashes', n \notin pending'
          PROVE  SoundAfter(filesHashes'[n], Len(lists'))
        <3>1. CASE n = i
            BY <2>2, <2>3, <3>1
        <3>2. CASE n # i
            BY <1>s, <2>2, <2>4, <3>2 DEF SoundInv, MemorySound
        <3> QED BY <3>1, <3>2
    <2> QED BY <1>d, <2>2, <2>4
<1>5. CASE CompressionDone
    <2>1. /\ pc = "compress" /\ pc' = "list" /\ database' = database
          /\ filesHashes' = filesHashes /\ dryRunFlag' = dryRunFlag
          /\ pending = {}
        BY <1>5 DEF CompressionDone, memory
    <2>2. \A e \in Range(filesHashes') : SoundAfter(e, Len(lists'))
        BY <1>s, <2>1 DEF SoundInv, MemorySound, Range
    <2> QED BY <1>d, <2>1, <2>2
<1>6. CASE MergeOne
    <2>1. /\ pc \in {"merge", "remerge", "import"} /\ pc' = pc
          /\ filesHashes' = filesHashes /\ dryRunFlag' = dryRunFlag
          /\ database' = MergeUpdate(database, filesHashes[k])
        BY <1>6 DEF MergeOne
    <2>2. k \in DOMAIN filesHashes /\ filesHashes[k] \in FileEntry
          /\ database \in Seq(FileEntry)
        BY <1>6, <1>t DEF MergeOne, TypeOK, Indices
    <2>3. Range(database') \subseteq Range(database) \cup {filesHashes[k]}
        BY <2>1, <2>2, MergeUpdateFacts
    <2>4. filesHashes[k] \in Range(filesHashes)
        BY <2>2 DEF Range
    <2>5. \A e \in Range(database') : SoundAfter(e, Len(lists'))
        BY <1>s, <2>1, <2>3, <2>4 DEF SoundInv, MemorySound
    <2> QED BY <1>h, <2>1, <2>5
<1>7. CASE WriteFileHashes \/ MergeDone
    <2>1. /\ pc \in {"list", "merge", "remerge", "import"} /\ pc' # "compress"
          /\ filesHashes' = filesHashes /\ dryRunFlag' = dryRunFlag
          /\ database' = database
        BY <1>7 DEF WriteFileHashes, MergeDone
    <2> QED BY <1>d, <1>h, <2>1
<1>8. CASE EndProcess
    <2>1. pc' = "idle" /\ Range(database') = {}
        BY <1>8 DEF EndProcess, Range
    <2> QED BY <2>1
<1>9. CASE /\ pc' = pc /\ UNCHANGED memory
    <2>1. /\ pc' = pc /\ database' = database /\ filesHashes' = filesHashes
          /\ pending' = pending /\ dryRunFlag' = dryRunFlag
        BY <1>9 DEF memory
    <2> QED BY <1>d, <1>h, <1>s, <2>1 DEF SoundInv, MemorySound
<1>10. CASE /\ database' = database /\ dryRunFlag' = dryRunFlag
            /\ pc' \notin {"compress", "list", "merge", "remerge", "import"}
    BY <1>d, <1>10
<1>11. \/ \E dry \in BOOLEAN : StartCreate(dry)
       \/ \E n \in DOMAIN lists, dry \in BOOLEAN : StartMerge(n, dry)
       \/ CompareToDatabase \/ (\E i \in pending : CompressFile(i))
       \/ CompressionDone \/ MergeOne \/ WriteFileHashes \/ MergeDone
       \/ EndProcess
       \/ pc' = pc /\ UNCHANGED memory
       \/ /\ database' = database /\ dryRunFlag' = dryRunFlag
          /\ pc' \notin {"compress", "list", "merge", "remerge", "import"}
    BY DEF Next, Create, MergeAndSave, Environment, Scan, HashFile,
           HashFileExits, HashingDone, ParseResult, CompressFileExits,
           SaveDatabase, Finish, Crash, Edit, LoseDatabase, vars, memory
<1> QED BY <1>1, <1>2, <1>3, <1>4, <1>5, <1>6, <1>7, <1>8, <1>9, <1>10, <1>11

(* What is left of a list that was written in part is sound if the list    *)
(* was: a cut line can only show a path that other paths start with.       *)
LEMMA ShortIsSound ==
    ASSUME NEW es \in Seq(FileEntry), NEW w \in ShortWrites(es), NEW n,
           \A e \in Range(es) : SoundAfter(e, n)
    PROVE  \A e \in Range(w) : SoundAfter(e, n)
<1> SUFFICES ASSUME NEW e \in Range(w) PROVE SoundAfter(e, n)
    OBVIOUS
<1>1. CASE e \in Range(es)
    BY <1>1
<1>2. CASE e.mPath = Garbage \/ \E p \in Path : e.mPath \in Prefix[p]
    <2>1. e.mPath \notin Faithful
        BY <1>2, PathAssumption DEF Faithful, Untorn
    <2> QED BY <2>1 DEF SoundAfter
<1> QED BY <1>1, <1>2, ShortWriteFacts

(* The database file stays sound when it is saved, saved in part, or lost  *)
(* (saveFileHashes).                                                       *)
LEMMA DbSoundStep ==
    ASSUME SoundInv, [Next]_vars
    PROVE  DbSound'
<1> USE DEF TypeInv
<1>t. TypeInv
    BY DEF SoundInv
<1>g. Len(lists) \in Nat /\ Len(lists') \in Nat /\ Len(lists) <= Len(lists')
    BY <1>t, GrowStep
<1>s. ASSUME NEW e, SoundBy(e, Len(lists))
      PROVE  SoundAfter(e, Len(lists'))
    BY <1>t, <1>g, <1>s, SoundAfterStep
<1> SUFFICES \A e \in Range(dbFile') : SoundAfter(e, Len(lists'))
    BY DEF DbSound, SoundBy, ArchivedBy, SoundAfter
<1>1. CASE dbFile' = dbFile
    BY <1>1, <1>s DEF SoundInv, DbSound
<1>2. CASE dbFile' = << >>
    BY <1>2 DEF Range
<1>3. CASE pc = "save" /\ (dbFile' = database \/ dbFile' \in ShortWrites(database))
    <2>1. ~dryRunFlag /\ database \in Seq(FileEntry)
        BY <1>3, <1>t DEF Indices, TypeOK
    <2>2. \A e \in Range(database) : SoundAfter(e, Len(lists'))
        BY <1>s, <2>1 DEF SoundInv, MemorySound
    <2> QED BY <1>3, <2>1, <2>2, ShortIsSound
<1> QED BY <1>1, <1>2, <1>3
        DEF Next, Create, MergeAndSave, Environment, StartCreate, Scan,
            HashFile, HashFileExits, HashingDone, ParseResult,
            CompareToDatabase, CompressFile, CompressFileExits,
            CompressionDone, WriteFileHashes, StartMerge, MergeOne, MergeDone,
            SaveDatabase, Finish, Crash, Edit, LoseDatabase, vars, disk

(* The list of the set that is being written is replaced, no other. *)
LEMMA ListSoundReplace ==
    ASSUME SoundInv, [Next]_vars, Len(lists) >= 1, NEW w \in Seq(FileEntry),
           lists' = [lists EXCEPT ![folder] = w],
           \A e \in Range(w) : SoundAfter(e, Len(lists))
    PROVE  \A n \in DOMAIN lists' : \A e \in Range(lists'[n]) : SoundAfter(e, n)
<1> USE DEF TypeInv
<1>t. TypeInv
    BY DEF SoundInv
<1>1. /\ DOMAIN lists' = DOMAIN lists /\ lists'[Len(lists)] = w
      /\ \A n \in DOMAIN lists : n # Len(lists) => lists'[n] = lists[n]
    BY <1>t, ListsType DEF folder
<1>2. ASSUME NEW n \in DOMAIN lists, n # Len(lists), NEW e \in Range(lists[n])
      PROVE  SoundAfter(e, n)
    <2>1. n \in Nat
        BY <1>t DEF TypeOK
    <2>2. SoundBy(e, n)
        BY <1>2 DEF SoundInv, ListSound
    <2> QED BY <1>t, <2>1, <2>2, SoundAfterStep
<1> QED BY <1>1, <1>2

(* The lists stay sound when a set is begun and when its filehashes.txt is *)
(* written, in full or in part (saveFileHashes).                           *)
LEMMA ListSoundStep ==
    ASSUME SoundInv, [Next]_vars
    PROVE  ListSound'
<1> USE DEF TypeInv
<1>t. TypeInv
    BY DEF SoundInv
<1>g. Len(lists) \in Nat /\ filesHashes \in Seq(FileEntry)
    BY <1>t DEF TypeOK
<1> SUFFICES \A n \in DOMAIN lists' : \A e \in Range(lists'[n]) : SoundAfter(e, n)
    BY DEF ListSound, SoundBy, ArchivedBy, SoundAfter
<1>o. ASSUME NEW n \in DOMAIN lists, NEW e \in Range(lists[n])
      PROVE  SoundAfter(e, n)
    <2>1. n \in Nat
        BY <1>t DEF TypeOK
    <2>2. SoundBy(e, n)
        BY DEF SoundInv, ListSound
    <2> QED BY <1>t, <2>1, <2>2, SoundAfterStep
<1>1. CASE lists' = lists
    BY <1>1, <1>o
<1>2. CASE lists' = Append(lists, << >>)
    <2>1. DOMAIN lists' = DOMAIN lists \cup {Len(lists) + 1}
          /\ lists'[Len(lists) + 1] = << >>
          /\ \A n \in DOMAIN lists : lists'[n] = lists[n]
        BY <1>2, <1>t DEF TypeOK
    <2>2. Range(lists'[Len(lists) + 1]) = {}
        BY <2>1 DEF Range
    <2> QED BY <1>o, <2>1, <2>2
<1>3. CASE /\ pc = "list" /\ ~dryRunFlag
           /\ \E w \in ShortWrites(filesHashes) \cup {filesHashes, lists[folder]} :
                  lists' = [lists EXCEPT ![folder] = w]
    <2>1. PICK w \in ShortWrites(filesHashes) \cup {filesHashes, lists[folder]} :
                  lists' = [lists EXCEPT ![folder] = w]
        BY <1>3
    <2>2. Len(lists) >= 1 /\ lists[folder] \in Seq(FileEntry)
          /\ folder \in DOMAIN lists
        BY <1>3, <1>t DEF Indices, CreateSteps, TypeOK, folder
    <2>3. w \in Seq(FileEntry)
        BY <1>g, <2>2, ShortWriteFacts
    <2>4. \A e \in Range(filesHashes) : SoundAfter(e, Len(lists))
        BY <1>3, <1>t, <1>g, SoundAfterStep DEF SoundInv, MemorySound
    <2>5. \A e \in Range(lists[folder]) : SoundAfter(e, Len(lists))
        BY <1>o, <2>2 DEF folder
    <2>6. \A e \in Range(w) : SoundAfter(e, Len(lists))
        BY <1>g, <2>4, <2>5, ShortIsSound
    <2> QED BY <2>1, <2>2, <2>3, <2>6, ListSoundReplace
<1>4. \/ lists' = lists
      \/ lists' = Append(lists, << >>)
      \/ /\ pc = "list" /\ ~dryRunFlag
         /\ \E w \in ShortWrites(filesHashes) \cup {filesHashes, lists[folder]} :
                  lists' = [lists EXCEPT ![folder] = w]
    BY DEF Next, Create, MergeAndSave, Environment, StartCreate, Scan,
           HashFile, HashFileExits, HashingDone, ParseResult,
           CompareToDatabase, CompressFile, CompressFileExits,
           CompressionDone, WriteFileHashes, StartMerge, MergeOne, MergeDone,
           SaveDatabase, Finish, Crash, Edit, LoseDatabase, vars, disk
<1> QED BY <1>1, <1>2, <1>3, <1>4

(* SoundInv is inductive.                                                  *)
LEMMA SoundInvStep ==
    ASSUME SoundInv, [Next]_vars
    PROVE  SoundInv'
<1>1. TypeInv /\ HashesCurrent
    BY DEF SoundInv, TypeInv
<1>2. TypeInv' /\ HashesCurrent'
    BY <1>1, TypeStep, HashesCurrentStep
<1> QED BY <1>2, MemorySoundStep, DbSoundStep, ListSoundStep
        DEF SoundInv, TypeInv

(* SoundInv holds at the start.                                            *)
LEMMA InitSound == Init => SoundInv
<1> SUFFICES ASSUME Init PROVE SoundInv
    OBVIOUS
<1>1. TypeOK /\ Indices
    BY InitType DEF TypeInv
<1>2. pc = "idle" /\ Range(database) = {} /\ Range(dbFile) = {} /\ DOMAIN lists = {}
    BY DEF Init, Range
<1> QED BY <1>1, <1>2
        DEF SoundInv, HashesCurrent, MemorySound, DbSound, ListSound

(* The invariant behind the next two theorems.  An entry gets into the     *)
(* database only through a list of files, whose entries are sound once     *)
(* their jobs are done: the hash an entry records is the hash of what the  *)
(* job then copies (HashesCurrent), and a file that is not copied has the  *)
(* hash of an entry of the database that was loaded (MemorySound).         *)
THEOREM SoundInvariant == Spec => []SoundInv
BY InitSound, SoundInvStep, PTL DEF Spec

(* The database never lists a content that no backup set has a copy of,    *)
(* but for files edited during a run and paths the program cannot handle   *)
(* (createOrUpdateArchive, mergeFilelistToDatabase, saveFileHashes).       *)
THEOREM DatabaseIsSound == Spec => []DbSound
<1>1. SoundInv => DbSound
    BY DEF SoundInv
<1> QED BY SoundInvariant, <1>1, PTL

(* Each filehashes.txt can be restored from its own set and older ones. *)
THEOREM ListsAreSound == Spec => []ListSound
<1>1. SoundInv => ListSound
    BY DEF SoundInv
<1> QED BY SoundInvariant, <1>1, PTL

-----------------------------------------------------------------------------
(* Listed(e), after the step. *)
ListedAfter(e) ==
    e.mPath \in Untorn => \E n \in DOMAIN lists' : e \in Range(lists'[n])

(* The ways a step can change the lists.  A list that is replaced was      *)
(* empty.                                                                  *)
LEMMA ListChange ==
    ASSUME ListedInv, [Next]_vars
    PROVE  \/ lists' = lists
           \/ lists' = Append(lists, << >>)
           \/ /\ pc = "list" /\ ~dryRunFlag /\ lists[folder] = << >>
              /\ Len(lists) >= 1
              /\ \E w \in Seq(FileEntry) : lists' = [lists EXCEPT ![folder] = w]
<1>1. ASSUME pc = "list", ~dryRunFlag
      PROVE  lists[folder] = << >> /\ Len(lists) >= 1
    BY <1>1 DEF ListedInv, MemoryListed, Indices, CreateSteps
<1>2. filesHashes \in Seq(FileEntry) /\ << >> \in Seq(FileEntry)
    BY DEF ListedInv, TypeOK
<1>3. ASSUME WriteFileHashes, ~dryRunFlag
      PROVE  \E w \in Seq(FileEntry) : lists' = [lists EXCEPT ![folder] = w]
    BY <1>1, <1>2, <1>3, ShortWriteFacts DEF WriteFileHashes
<1>4. ASSUME Crash, lists' # lists
      PROVE  /\ pc = "list" /\ ~dryRunFlag
             /\ \E w \in Seq(FileEntry) : lists' = [lists EXCEPT ![folder] = w]
    BY <1>2, <1>4, ShortWriteFacts DEF Crash
<1>5. ASSUME WriteFileHashes PROVE pc = "list" /\ (dryRunFlag => lists' = lists)
    BY <1>5 DEF WriteFileHashes
<1> QED BY <1>1, <1>3, <1>4, <1>5
        DEF Next, Create, MergeAndSave, Environment, StartCreate, Scan,
            HashFile, HashFileExits, HashingDone, ParseResult,
            CompareToDatabase, CompressFile, CompressFileExits,
            CompressionDone, StartMerge, MergeOne, MergeDone,
            SaveDatabase, Finish, Edit, LoseDatabase, vars, disk

(* A listed entry stays listed. *)
LEMMA ListedStays ==
    ASSUME ListedInv, [Next]_vars, NEW e, Listed(e)
    PROVE  ListedAfter(e)
<1> SUFFICES ASSUME NEW n \in DOMAIN lists, e \in Range(lists[n])
             PROVE  n \in DOMAIN lists' /\ e \in Range(lists'[n])
    BY DEF Listed, ListedAfter
<1>1. CASE lists' = lists
    BY <1>1
<1>2. CASE lists' = Append(lists, << >>)
    <2>1. n \in DOMAIN lists' /\ lists'[n] = lists[n]
        BY <1>2 DEF ListedInv, TypeOK
    <2> QED BY <2>1
<1>3. CASE /\ lists[folder] = << >> /\ Len(lists) >= 1
           /\ \E w \in Seq(FileEntry) : lists' = [lists EXCEPT ![folder] = w]
    <2>1. n # folder
        BY <1>3 DEF Range
    <2> QED BY <1>3, <2>1, ListsType DEF ListedInv
<1> QED BY <1>1, <1>2, <1>3, ListChange

(* A list that was written in part has no other untorn entries. *)
LEMMA ShortIsListed ==
    ASSUME NEW es \in Seq(FileEntry), NEW w \in ShortWrites(es),
           \A e \in Range(es) : ListedAfter(e)
    PROVE  \A e \in Range(w) : ListedAfter(e)
<1> SUFFICES ASSUME NEW e \in Range(w) PROVE ListedAfter(e)
    OBVIOUS
<1>1. CASE e \in Range(es)
    BY <1>1
<1>2. CASE e.mPath = Garbage \/ \E p \in Path : e.mPath \in Prefix[p]
    <2>1. e.mPath \notin Untorn
        BY <1>2, PathAssumption DEF Untorn
    <2> QED BY <2>1 DEF ListedAfter
<1> QED BY <1>1, <1>2, ShortWriteFacts

(* A filehashes.txt that failed to be written is never forgotten.          *)
LEMMA UnlistedStep ==
    ASSUME [Next]_vars, unlisted' = {} PROVE unlisted = {}
BY DEF Next, Create, MergeAndSave, Environment, StartCreate, Scan, HashFile,
       HashFileExits, HashingDone, ParseResult, CompareToDatabase,
       CompressFile, CompressFileExits, CompressionDone, WriteFileHashes,
       StartMerge, MergeOne, MergeDone, SaveDatabase, Finish, Crash, Edit,
       LoseDatabase, vars, history

(* The database file gets only entries that are in a list                  *)
(* (saveFileHashes).                                                       *)
LEMMA DbFromListsStep ==
    ASSUME ListedInv, [Next]_vars
    PROVE  DbFromLists'
<1> SUFFICES ASSUME unlisted' = {}
             PROVE  \A e \in Range(dbFile') : ListedAfter(e)
    BY DEF DbFromLists, ListedAfter
<1>u. unlisted = {}
    BY UnlistedStep
<1>1. CASE dbFile' = dbFile
    BY <1>1, <1>u, ListedStays DEF ListedInv, DbFromLists, Listed
<1>2. CASE dbFile' = << >>
    BY <1>2 DEF Range
<1>3. CASE pc = "save" /\ (dbFile' = database \/ dbFile' \in ShortWrites(database))
    <2>1. ~dryRunFlag /\ database \in Seq(FileEntry)
        BY <1>3 DEF ListedInv, Indices, TypeOK
    <2>2. \A e \in Range(database) : ListedAfter(e)
        BY <1>u, <2>1, ListedStays DEF ListedInv, MemoryListed
    <2> QED BY <1>3, <2>1, <2>2, ShortIsListed
<1> QED BY <1>1, <1>2, <1>3
        DEF Next, Create, MergeAndSave, Environment, StartCreate, Scan,
            HashFile, HashFileExits, HashingDone, ParseResult,
            CompareToDatabase, CompressFile, CompressFileExits,
            CompressionDone, WriteFileHashes, StartMerge, MergeOne, MergeDone,
            SaveDatabase, Finish, Crash, Edit, LoseDatabase, vars, disk

(* The new set's list is empty until it is saved. *)
LEMMA OwnListStep ==
    ASSUME ListedInv, [Next]_vars, ~dryRunFlag',
           pc' \in {"scan", "hash", "parse", "compress", "list"}
    PROVE  lists'[Len(lists')] = << >>
<1>1. CASE \E dry \in BOOLEAN : StartCreate(dry)
    <2>1. lists' = Append(lists, << >>)
        BY <1>1 DEF StartCreate
    <2> QED BY <2>1 DEF ListedInv, TypeOK
<1>2. CASE /\ lists' = lists /\ dryRunFlag' = dryRunFlag
           /\ pc \in {"scan", "hash", "parse", "compress", "list"}
    BY <1>2 DEF ListedInv, MemoryListed, folder
<1>3. \/ \E dry \in BOOLEAN : StartCreate(dry)
      \/ /\ lists' = lists /\ dryRunFlag' = dryRunFlag
         /\ pc \in {"scan", "hash", "parse", "compress", "list"}
    BY DEF Next, Create, MergeAndSave, Environment, Scan, HashFile,
           HashFileExits, HashingDone, ParseResult, CompareToDatabase,
           CompressFile, CompressFileExits, CompressionDone, WriteFileHashes,
           StartMerge, MergeOne, MergeDone, SaveDatabase, Finish, Crash, Edit,
           LoseDatabase, EndProcess, vars, disk, memory
<1> QED BY <1>1, <1>2, <1>3

(* Whatever is merged into the database is in a list by then: the own list *)
(* is written before the merge, a list to be imported is on the disk.      *)
LEMMA MemoryListedStep ==
    ASSUME ListedInv, [Next]_vars
    PROVE  MemoryListed'
<1> SUFFICES ASSUME ~dryRunFlag', unlisted' = {}
             PROVE  /\ \A e \in Range(database') : ListedAfter(e)
                    /\ pc' \in {"merge", "remerge", "import"} =>
                          \A e \in Range(filesHashes') : ListedAfter(e)
    BY OwnListStep DEF MemoryListed, Listed, ListedAfter, folder
<1>u. unlisted = {}
    BY UnlistedStep
<1>b. \A e \in Range(dbFile) : ListedAfter(e)
    BY <1>u, ListedStays DEF ListedInv, DbFromLists, Listed
<1>d. ASSUME ~dryRunFlag, database' = database
      PROVE  \A e \in Range(database') : ListedAfter(e)
    BY <1>u, <1>d, ListedStays DEF ListedInv, MemoryListed
<1>h. ASSUME ~dryRunFlag, filesHashes' = filesHashes,
             pc \in {"merge", "remerge", "import"}
      PROVE  \A e \in Range(filesHashes') : ListedAfter(e)
    BY <1>u, <1>h, ListedStays DEF ListedInv, MemoryListed
<1>1. CASE \E dry \in BOOLEAN : StartCreate(dry)
    <2>1. database' = dbFile /\ pc' = "scan"
        BY <1>1 DEF StartCreate
    <2> QED BY <1>b, <2>1
<1>2. CASE \E n \in DOMAIN lists, dry \in BOOLEAN : StartMerge(n, dry)
    <2>1. PICK n \in DOMAIN lists, dry \in BOOLEAN : StartMerge(n, dry)
        BY <1>2
    <2>2. database' = dbFile /\ filesHashes' = lists[n] /\ lists' = lists
        BY <2>1 DEF StartMerge, disk
    <2> QED BY <1>b, <2>1, <2>2 DEF ListedAfter
<1>3. CASE WriteFileHashes
    <2>1. /\ pc = "list" /\ filesHashes' = filesHashes /\ database' = database
          /\ dryRunFlag' = dryRunFlag
        BY <1>3 DEF WriteFileHashes
    <2>2. lists' = [lists EXCEPT ![folder] = filesHashes]
        BY <1>3, <2>1 DEF WriteFileHashes
    <2>3. Len(lists) >= 1 /\ filesHashes \in Seq(FileEntry) /\ folder \in DOMAIN lists
        BY <2>1 DEF ListedInv, Indices, TypeOK, CreateSteps, folder
    <2>4. lists'[folder] = filesHashes /\ folder \in DOMAIN lists'
        BY <2>2, <2>3, ListsType DEF ListedInv
    <2>5. \A e \in Range(filesHashes') : ListedAfter(e)
        BY <2>1, <2>4 DEF ListedAfter
    <2> QED BY <1>d, <2>1, <2>5
<1>4. CASE MergeOne
    <2>1. /\ pc \in {"merge", "remerge", "import"} /\ pc' = pc
          /\ filesHashes' = filesHashes /\ dryRunFlag' = dryRunFlag
          /\ database' = MergeUpdate(database, filesHashes[k])
        BY <1>4 DEF MergeOne
    <2>2. k \in DOMAIN filesHashes /\ filesHashes[k] \in FileEntry
          /\ database \in Seq(FileEntry)
        BY <1>4 DEF MergeOne, ListedInv, TypeOK, Indices
    <2>3. Range(database') \subseteq Range(database) \cup {filesHashes[k]}
        BY <2>1, <2>2, MergeUpdateFacts
    <2>4. filesHashes[k] \in Range(filesHashes)
        BY <2>2 DEF Range
    <2>5. \A e \in Range(database') : ListedAfter(e)
        BY <1>u, <2>1, <2>3, <2>4, ListedStays DEF ListedInv, MemoryListed
    <2> QED BY <1>h, <2>1, <2>5
<1>5. CASE MergeDone \/ (pc' = pc /\ UNCHANGED memory)
    <2>1. /\ filesHashes' = filesHashes /\ dryRunFlag' = dryRunFlag
          /\ database' = database
          /\ pc' \in {"merge", "remerge", "import"} =>
                pc \in {"merge", "remerge", "import"}
        BY <1>5 DEF MergeDone, memory
    <2> QED BY <1>d, <1>h, <2>1
<1>6. CASE EndProcess
    <2>1. pc' = "idle" /\ Range(database') = {}
        BY <1>6 DEF EndProcess, Range
    <2> QED BY <2>1
<1>7. CASE /\ database' = database /\ dryRunFlag' = dryRunFlag
           /\ pc' \notin {"merge", "remerge", "import"}
    BY <1>d, <1>7
<1>8. \/ \E dry \in BOOLEAN : StartCreate(dry)
      \/ \E n \in DOMAIN lists, dry \in BOOLEAN : StartMerge(n, dry)
      \/ WriteFileHashes \/ MergeOne \/ MergeDone \/ EndProcess
      \/ pc' = pc /\ UNCHANGED memory
      \/ /\ database' = database /\ dryRunFlag' = dryRunFlag
         /\ pc' \notin {"merge", "remerge", "import"}
    BY DEF Next, Create, MergeAndSave, Environment, Scan, HashFile,
           HashFileExits, HashingDone, ParseResult, CompareToDatabase,
           CompressFile, CompressFileExits, CompressionDone, SaveDatabase,
           Finish, Crash, Edit, LoseDatabase, vars, memory
<1> QED BY <1>1, <1>2, <1>3, <1>4, <1>5, <1>6, <1>7, <1>8

(* ListedInv is inductive.                                                 *)
LEMMA ListedInvStep ==
    ASSUME ListedInv, [Next]_vars
    PROVE  ListedInv'
<1>1. TypeInv'
    BY TypeStep DEF ListedInv, TypeInv
<1> QED BY <1>1, MemoryListedStep, DbFromListsStep DEF ListedInv, TypeInv

(* ListedInv holds at the start.                                           *)
LEMMA InitListed == Init => ListedInv
<1> SUFFICES ASSUME Init PROVE ListedInv
    OBVIOUS
<1>1. TypeOK /\ Indices
    BY InitType DEF TypeInv
<1>2. pc = "idle" /\ Range(database) = {} /\ Range(dbFile) = {}
    BY DEF Init, Range
<1> QED BY <1>1, <1>2 DEF ListedInv, MemoryListed, DbFromLists

(* The database can be rebuilt from the filehashes.txt files: the list of  *)
(* a set is on the disk before the database gets its entries, and it is    *)
(* never written again (createOrUpdateArchive).                            *)
THEOREM DatabaseIsListed == Spec => []DbFromLists
<1>1. ListedInv => DbFromLists
    BY DEF ListedInv
<1> QED BY InitListed, ListedInvStep, <1>1, PTL DEF Spec

-----------------------------------------------------------------------------
(* From the load to the save, the database in memory has every name of the *)
(* database file (readFileHashes, mergeUpdates).                           *)
LEMMA NamesStep ==
    ASSUME TypeInv, NamesInMemory, [Next]_vars
    PROVE  NamesInMemory'
<1>1. CASE pc' \in {"idle", "done", "failed"}
    BY <1>1 DEF NamesInMemory
<1>2. CASE database' = dbFile /\ dbFile' = dbFile
    BY <1>2 DEF NamesInMemory
<1>3. CASE /\ database' = database /\ dbFile' = dbFile
           /\ pc \notin {"idle", "done", "failed"}
    BY <1>3 DEF NamesInMemory
<1>4. CASE MergeOne
    <2>1. /\ pc \in {"merge", "remerge", "import"} /\ dbFile' = dbFile
          /\ database' = MergeUpdate(database, filesHashes[k])
        BY <1>4 DEF MergeOne, disk
    <2>2. k \in DOMAIN filesHashes /\ filesHashes[k] \in FileEntry
          /\ database \in Seq(FileEntry)
        BY <1>4 DEF MergeOne, TypeInv, TypeOK, Indices
    <2>3. Names(database) \subseteq Names(database')
        BY <2>1, <2>2, MergeUpdateFacts
    <2>4. Names(dbFile) \subseteq Names(database)
        BY <2>1 DEF NamesInMemory
    <2>5. Names(dbFile) \subseteq Names(database')
        BY <2>3, <2>4
    <2> QED BY <2>1, <2>5 DEF NamesInMemory
<1>5. \/ pc' \in {"idle", "done", "failed"}
      \/ database' = dbFile /\ dbFile' = dbFile
      \/ /\ database' = database /\ dbFile' = dbFile
         /\ pc \notin {"idle", "done", "failed"}
      \/ MergeOne
    BY DEF Next, Create, MergeAndSave, Environment, StartCreate, Scan,
           HashFile, HashFileExits, HashingDone, ParseResult,
           CompareToDatabase, CompressFile, CompressFileExits,
           CompressionDone, WriteFileHashes, StartMerge, MergeDone,
           SaveDatabase, Finish, Crash, Edit, LoseDatabase, EndProcess,
           vars, disk, memory
<1> QED BY <1>1, <1>2, <1>3, <1>4, <1>5

(* Deleted files stay in the database: a completed save keeps every name,  *)
(* because the database was loaded when the run started and merging drops  *)
(* nothing (readFileHashes, mergeUpdates, saveFileHashes).                 *)
THEOREM DatabaseKeepsNames == Spec => NamesKept
<1>1. Init => TypeInv /\ NamesInMemory
    BY InitType DEF Init, NamesInMemory
<1>2. TypeInv /\ NamesInMemory /\ [Next]_vars => TypeInv' /\ NamesInMemory'
    BY TypeStep, NamesStep
<1>3. ASSUME NamesInMemory, [Next]_vars, pc = "save", pc' = "done"
      PROVE  Names(dbFile) \subseteq Names(dbFile')
    <2>1. dbFile' = database
        BY <1>3 DEF Next, Create, MergeAndSave, Environment, StartCreate, Scan,
           HashFile, HashFileExits, HashingDone, ParseResult,
           CompareToDatabase, CompressFile, CompressFileExits,
           CompressionDone, WriteFileHashes, StartMerge, MergeOne, MergeDone,
           SaveDatabase, Finish, Crash, Edit, LoseDatabase, EndProcess, vars
    <2>2. Names(dbFile) \subseteq Names(database)
        BY <1>3 DEF NamesInMemory
    <2> QED BY <2>1, <2>2 DEF Names
<1>4. NamesInMemory /\ [Next]_vars =>
          [pc = "save" /\ pc' = "done" => Names(dbFile) \subseteq Names(dbFile')]_vars
    BY <1>3
<1> QED BY <1>1, <1>2, <1>4, PTL DEF Spec, NamesKept

-----------------------------------------------------------------------------
(* The answer of the hash tool for file number i is the entry of the file  *)
(* as it is now, unless the file was edited.                               *)
AnswerCurrent(i) ==
    LET p == filesToProcess[i]
        a == results[i][1]
    IN  Reported[p] = p /\ Answered(i) /\ a \notin touched =>
            input[p] # Absent /\ a = EntryOf(p)

(* The answers of the hash jobs stay current until the compression is over. *)
LEMMA AnswersStep ==
    ASSUME TypeInv, AnswersParsed, [Next]_vars, ~dryRunFlag',
           pc' \in {"hash", "parse", "compress"}, NEW i \in DOMAIN results'
    PROVE  AnswerCurrent(i)'
<1> USE DEF TypeInv
<1>d. ~dryRunFlag
    BY DryRunStays
<1>1. CASE Scan
    <2>1. PICK s \in Orders({p \in Path \ Unreadable : input[p] # Absent}) :
              results' = [n \in DOMAIN s |-> << >>]
        BY <1>1 DEF Scan
    <2>2. results'[i] = << >>
        BY <2>1
    <2> QED BY <2>2 DEF AnswerCurrent, Answered
<1>2. CASE \E j \in pending : HashFile(j)
    <2>1. PICK j \in pending : HashFile(j)
        BY <1>2
    <2>2. /\ pc = "hash" /\ input' = input /\ touched' = touched
          /\ filesToProcess' = filesToProcess /\ DOMAIN results' = DOMAIN results
          /\ \A n \in DOMAIN results : n # j => results'[n] = results[n]
        BY <2>1 DEF HashFile, disk, history
    <2>3. AnswerCurrent(i)
        BY <1>d, <2>2 DEF AnswersParsed, AnswerCurrent
    <2>4. CASE i # j
        BY <2>2, <2>3, <2>4 DEF AnswerCurrent, Answered, EntryOf
    <2>5. CASE i = j
        <3> DEFINE p == filesToProcess[i]
        <3>1. results'[i] = << >> \/ results'[i] = UnableLine
              \/ (results'[i] = HashOutput(p) /\ input[p] # Absent)
            BY <2>1, <2>2, <2>5 DEF HashFile, HashOutput
        <3>2. CASE results'[i] = << >>
            BY <3>2 DEF AnswerCurrent, Answered
        <3>3. CASE results'[i] = UnableLine
            BY <3>3 DEF AnswerCurrent, Answered, UnableLine
        <3>4. CASE results'[i] = HashOutput(p) /\ input[p] # Absent
            BY <2>2, <3>4 DEF AnswerCurrent, HashOutput, EntryOf
        <3> QED BY <3>1, <3>2, <3>3, <3>4
    <2> QED BY <2>4, <2>5
<1>3. CASE \E p \in Path, c \in Content \cup {Absent} : Edit(p, c)
    <2>1. PICK p \in Path, c \in Content \cup {Absent} : Edit(p, c)
        BY <1>3
    <2>2. /\ pc \in {"hash", "parse", "compress"} /\ results' = results
          /\ filesToProcess' = filesToProcess
          /\ input' = [input EXCEPT ![p] = c] /\ touched \subseteq touched'
          /\ input[p] # Absent => EntryOf(p) \in touched'
        BY <2>1, <1>d DEF Edit, memory
    <2>3. AnswerCurrent(i) /\ filesToProcess[i] \in Path
        BY <1>d, <2>2 DEF AnswersParsed, AnswerCurrent, TypeOK, Indices
    <2>4. filesToProcess[i] # p => input'[filesToProcess[i]] = input[filesToProcess[i]]
        BY <2>2, <2>3 DEF TypeOK
    <2>5. CASE filesToProcess[i] # p
        BY <2>2, <2>3, <2>4, <2>5 DEF AnswerCurrent, Answered, EntryOf
    <2>6. CASE filesToProcess[i] = p
        BY <2>2, <2>3, <2>6 DEF AnswerCurrent, Answered
    <2> QED BY <2>5, <2>6
<1>4. CASE /\ pc \in {"hash", "parse", "compress"} /\ results' = results
           /\ filesToProcess' = filesToProcess /\ input' = input
           /\ touched' = touched
    <2>1. AnswerCurrent(i)
        BY <1>4, <1>d DEF AnswersParsed, AnswerCurrent
    <2> QED BY <1>4, <2>1 DEF AnswerCurrent, Answered, EntryOf
<1>5. \/ Scan \/ (\E j \in pending : HashFile(j))
      \/ (\E p \in Path, c \in Content \cup {Absent} : Edit(p, c))
      \/ /\ pc \in {"hash", "parse", "compress"} /\ results' = results
         /\ filesToProcess' = filesToProcess /\ input' = input
         /\ touched' = touched
    BY DEF Next, Create, MergeAndSave, Environment, StartCreate,
           HashFileExits, HashingDone, ParseResult, CompareToDatabase,
           CompressFile, CompressFileExits, CompressionDone, WriteFileHashes,
           StartMerge, MergeOne, MergeDone, SaveDatabase, Finish, Crash,
           LoseDatabase, EndProcess, vars, disk, memory, history
<1> QED BY <1>1, <1>2, <1>3, <1>4, <1>5

(* The loop over the results appends every answer to the list.             *)
LEMMA ParsedStep ==
    ASSUME TypeInv, AnswersParsed, [Next]_vars, ~dryRunFlag'
    PROVE  /\ pc' = "parse" =>
                  \A i \in DOMAIN results' :
                      i < k' => Range(results'[i]) \subseteq Range(filesHashes')
           /\ pc' = "compress" =>
                  \A i \in DOMAIN results' :
                      Range(results'[i]) \subseteq Range(filesHashes')
<1> USE DEF TypeInv
<1>f. pc' \in {"parse", "compress"} => ~dryRunFlag
    BY DryRunStays
<1>d. DOMAIN results = 1 .. Len(results) /\ Len(results) \in Nat /\ k \in Nat
    BY DEF TypeOK
<1>1. CASE HashingDone
    <2>1. pc' = "parse" /\ k' = 1 /\ results' = results
        BY <1>1 DEF HashingDone
    <2> QED BY <1>d, <2>1
<1>2. CASE ParseResult
    <2>1. /\ pc = "parse" /\ pc' = "parse" /\ results' = results /\ k' = k + 1
          /\ filesHashes' = filesHashes \o results[k]
        BY <1>2 DEF ParseResult
    <2>2. k \in DOMAIN results /\ results[k] \in Seq(FileEntry)
          /\ filesHashes \in Seq(FileEntry)
        BY <1>2 DEF ParseResult, TypeOK, Indices
    <2>3. Range(filesHashes') = Range(filesHashes) \cup Range(results[k])
        BY <2>1, <2>2, RangeOfConcat
    <2>4. ASSUME NEW i \in DOMAIN results, i < k + 1
          PROVE  Range(results[i]) \subseteq Range(filesHashes')
        <3>1. i < k \/ i = k
            BY <1>d, <2>4
        <3>2. i < k => Range(results[i]) \subseteq Range(filesHashes)
            BY <1>f, <2>1 DEF AnswersParsed
        <3> QED BY <2>3, <3>1, <3>2
    <2> QED BY <2>1, <2>4
<1>3. CASE CompareToDatabase
    <2>1. /\ pc = "parse" /\ pc' = "compress" /\ results' = results
          /\ filesHashes' = filesHashes /\ k > Len(results)
        BY <1>3 DEF CompareToDatabase
    <2>2. \A i \in DOMAIN results : i < k
        BY <1>d, <2>1
    <2> QED BY <1>f, <2>1, <2>2 DEF AnswersParsed
<1>4. CASE /\ pc' = pc /\ k' = k /\ results' = results
           /\ filesHashes' = filesHashes
    BY <1>f, <1>4 DEF AnswersParsed
<1>5. \/ HashingDone \/ ParseResult \/ CompareToDatabase
      \/ /\ pc' = pc /\ k' = k /\ results' = results
         /\ filesHashes' = filesHashes
      \/ pc' \notin {"parse", "compress"}
    BY DEF Next, Create, MergeAndSave, Environment, StartCreate, Scan, HashFile,
           HashFileExits, CompressFile, CompressFileExits, CompressionDone,
           WriteFileHashes, StartMerge, MergeOne, MergeDone, SaveDatabase,
           Finish, Crash, Edit, LoseDatabase, EndProcess, vars, memory
<1> QED BY <1>1, <1>2, <1>3, <1>4, <1>5

(* AnswersParsed is inductive.                                             *)
LEMMA AnswersParsedStep ==
    ASSUME TypeInv, AnswersParsed, [Next]_vars
    PROVE  AnswersParsed'
BY AnswersStep, ParsedStep DEF AnswersParsed, AnswerCurrent

(* The step from the invariants to BackupComplete. *)
LEMMA CompleteIfSound ==
    ASSUME SoundInv, AnswersParsed
    PROVE  BackupComplete
<1> SUFFICES ASSUME pc = "compress", pending = {}, ~dryRunFlag,
                    NEW i \in DOMAIN filesToProcess,
                    filesToProcess[i] \in Faithful,
                    Reported[filesToProcess[i]] = filesToProcess[i],
                    Answered(i), results[i][1] \notin touched
             PROVE  LET p == filesToProcess[i]
                    IN  /\ input[p] # Absent
                        /\ results[i][1] = EntryOf(p)
                        /\ ArchivedBy(EntryOf(p), folder)
    BY DEF BackupComplete
<1> DEFINE p == filesToProcess[i]
           e == EntryOf(p)
<1>1. i \in DOMAIN results /\ results[i] \in Seq(FileEntry)
    BY DEF SoundInv, Indices, TypeOK
<1>2. input[p] # Absent /\ results[i][1] = e
    BY <1>1 DEF AnswersParsed
<1>3. e \in Range(results[i])
    <2>1. 1 \in DOMAIN results[i]
        BY <1>1 DEF Answered
    <2> QED BY <1>2, <2>1 DEF Range
<1>4. e \in Range(filesHashes)
    BY <1>1, <1>3 DEF AnswersParsed
<1>5. PICK j \in DOMAIN filesHashes : filesHashes[j] = e
    BY <1>4 DEF Range
<1>6. SoundBy(e, Len(lists))
    BY <1>5 DEF SoundInv, MemorySound
<1>7. e.mPath = p /\ e \notin touched
    BY <1>2 DEF EntryOf
<1> QED BY <1>2, <1>6, <1>7 DEF SoundBy, folder

(* A run that gets through its compression jobs has a copy of every file   *)
(* it has found and hashed, in its own set or in an older one              *)
(* (createOrUpdateArchive).                                                *)
THEOREM BackupIsComplete == Spec => []BackupComplete
<1>1. Init => SoundInv /\ AnswersParsed
    BY InitSound DEF Init, AnswersParsed
<1>2. SoundInv /\ AnswersParsed /\ [Next]_vars => SoundInv' /\ AnswersParsed'
    BY SoundInvStep, AnswersParsedStep DEF SoundInv, TypeInv
<1> QED BY <1>1, <1>2, CompleteIfSound, PTL DEF Spec
=============================================================================
