-------------------------- MODULE FolderScanProofs --------------------------
(***************************************************************************)
(* What the scan finds and which folders are made, for every tree, any     *)
(* depth and any number of changes that the user makes during the scan.    *)
(***************************************************************************)
EXTENDS FolderScan, WellFoundedInduction, SequenceTheorems, FiniteSetTheorems, TLAPS

(* q is above p in the tree. *)
Above(q, p) == Len(q) < Len(p) /\ \A k \in 1 .. Len(q) : q[k] = p[k]

(* Whatever is in the tree, all that is above it is in the tree. *)
Closed(S) == \A p \in S : \A n \in 1 .. Len(p) : SubSeq(p, 1, n) \in S

(* The entries always are a tree, and what nobody has touched is in it. *)
TreeInv ==
    /\ << >> \notin DOMAIN fs
    /\ Closed(DOMAIN fs)
    /\ stable \subseteq DOMAIN fs
    /\ Closed(stable)
    /\ \A p \in stable : fs[p] = Tree[p]

(* A directory that may be read, like all that are above it. *)
Clear(d) == \A n \in 1 .. Len(d) : Tree[SubSeq(d, 1, n)] = "dir"

(* The directory that is read is somewhere in the tree or gone; one that   *)
(* nobody has touched is where it was, with all that was in it then.       *)
ReadInv ==
    IF pc = "read"
    THEN /\ dir \in Seq(Name)
         /\ at \in DOMAIN fs \cup {<< >>, Gone}
         /\ dir \in stable \cup {<< >>} => at = dir
         /\ dir \in stable => Clear(dir)
         /\ \A p \in stable : Above(dir, p) => p[Len(dir) + 1] \in old
    ELSE at = NoDir

(* A directory is on the stack because the one it is in was read. *)
StackInv ==
    /\ pc \in {"folders", "compress"} => recursiveFolders = << >>
    /\ \A k \in DOMAIN recursiveFolders :
          LET r == recursiveFolders[k]
          IN  r # << >> /\ Up(r) \in stable => Clear(Up(r))

(* No directory above p is closed or has a backslash at its end. *)
Visible(p) == \A n \in 1 .. Len(p) - 1 : Tree[SubSeq(p, 1, n)] = "dir" /\ p[n] \in Plain
Waiting(p) == {k \in DOMAIN recursiveFolders : Above(recursiveFolders[k], p)}
Reading(p) == pc = "read" /\ Above(dir, p) /\ p[Len(dir) + 1] \notin seen
Once(p) == \A d \in again : ~IsPrefix(d, p)

(* A file that nobody has touched is below a directory of the stack, or    *)
(* still to come in the one that is read, or found.                        *)
SomeToken(p) == Waiting(p) # {} \/ Reading(p) \/ Found(p) # {}

(* Only one of these, and once, if no directory above it was opened for    *)
(* another one.                                                            *)
OneToken(p) ==
    \/ (\E k : Waiting(p) = {k}) /\ ~Reading(p) /\ Found(p) = {}
    \/ Waiting(p) = {} /\ Reading(p) /\ Found(p) = {}
    \/ Waiting(p) = {} /\ ~Reading(p) /\ \E k : Found(p) = {k}

Token(p) ==
    IF Visible(p) THEN SomeToken(p) /\ (Once(p) => OneToken(p)) ELSE Found(p) = {}

TokenInv == \A p \in stable : Tree[p] = "file" => Token(p)

(* The folder of each file that the loop has passed is made, and so is the *)
(* one that the loop remembers.                                            *)
MadeInv ==
    /\ cachedDir # NoDir => smartCreate(cachedDir) \subseteq made
    /\ \A k \in 1 .. next - 1 :
          smartCreate(extractFolderFromFilePath(filesToProcess[k])) \subseteq made
    /\ \A k \in DOMAIN filesToProcess : filesToProcess[k] # << >>
    /\ pc = "compress" => next = Len(filesToProcess) + 1
    /\ pc \in {"pop", "read"} => next = 1

Inv == TypeOK /\ TreeInv /\ ReadInv /\ StackInv /\ TokenInv /\ MadeInv

-----------------------------------------------------------------------------
(* Paths and prefixes.                                                     *)

(* A set of numbers that is not empty has a least element. *)
LEMMA LeastNumber ==
    ASSUME NEW S \in SUBSET Nat, S # {}
    PROVE  \E m \in S : \A n \in S : m <= n
<1>1. PICK m \in S : \A n \in S : <<n, m>> \notin OpToRel(<, Nat)
    BY NatLessThanWellFounded, WFMin
<1>2. ASSUME NEW n \in S PROVE m <= n
    <2>1. ~(n < m)
        BY <1>1 DEF OpToRel
    <2> QED BY <2>1
<1> QED BY <1>2

(* A path is a sequence of names. *)
LEMMA PathSeq == Path \subseteq Seq(Name)
<1>1. ASSUME NEW n \in 0 .. MaxDepth, NEW p \in [1 .. n -> Name]
      PROVE  p \in Seq(Name)
    BY ScanAssumption
<1> QED BY <1>1 DEF Path

(* Two sequences with the same length and elements are the same. *)
LEMMA SameSeq ==
    ASSUME NEW T, NEW p \in Seq(T), NEW q \in Seq(T), Len(p) = Len(q),
           \A k \in 1 .. Len(p) : p[k] = q[k]
    PROVE  p = q
OBVIOUS

(* The first names of a path. *)
LEMMA FirstNames ==
    ASSUME NEW T, NEW p \in Seq(T), NEW n \in 0 .. Len(p)
    PROVE  /\ SubSeq(p, 1, n) \in Seq(T)
           /\ Len(SubSeq(p, 1, n)) = n
           /\ \A k \in 1 .. n : SubSeq(p, 1, n)[k] = p[k]
OBVIOUS

(* IsPrefix, name by name. *)
LEMMA PrefixNames ==
    ASSUME NEW T, NEW p \in Seq(T), NEW q \in Seq(T)
    PROVE  IsPrefix(p, q) <=> /\ Len(p) <= Len(q)
                              /\ \A k \in 1 .. Len(p) : p[k] = q[k]
<1>0. Len(p) \in Nat /\ Len(q) \in Nat
    OBVIOUS
<1>1. CASE Len(p) <= Len(q)
    <2>1. Len(p) \in 0 .. Len(p) /\ Len(p) \in 0 .. Len(q)
        BY <1>0, <1>1
    <2> DEFINE u == SubSeq(p, 1, Len(p))
               v == SubSeq(q, 1, Len(p))
    <2>2. /\ u \in Seq(T) /\ Len(u) = Len(p)
          /\ \A k \in 1 .. Len(p) : u[k] = p[k]
        BY <2>1, FirstNames
    <2>3. /\ v \in Seq(T) /\ Len(v) = Len(p)
          /\ \A k \in 1 .. Len(p) : v[k] = q[k]
        BY <2>1, FirstNames
    <2>4. IsPrefix(p, q) <=> u = v
        BY <1>1 DEF IsPrefix
    <2> HIDE DEF u, v
    <2>5. u = v <=> \A k \in 1 .. Len(p) : u[k] = v[k]
        BY <2>2, <2>3, SameSeq
    <2> QED BY <1>1, <2>2, <2>3, <2>4, <2>5
<1>2. CASE ~(Len(p) <= Len(q))
    BY <1>2 DEF IsPrefix
<1> QED BY <1>1, <1>2

(* A path that is not empty is the one above it and its last name. *)
LEMMA UpLast ==
    ASSUME NEW T, NEW p \in Seq(T), p # << >>
    PROVE  /\ Len(p) > 0 /\ Up(p) \in Seq(T) /\ Len(Up(p)) = Len(p) - 1
           /\ \A k \in 1 .. Len(p) - 1 : Up(p)[k] = p[k]
           /\ Last(p) \in T /\ Last(p) = p[Len(p)]
           /\ Up(p) = SubSeq(p, 1, Len(p) - 1)
<1>1. Len(p) \in Nat /\ Len(p) > 0
    OBVIOUS
<1>2. Len(p) - 1 \in 0 .. Len(p) /\ p[Len(p)] \in T
    BY <1>1
<1> QED BY <1>1, <1>2, FirstNames DEF Up, Front, Last

(* The one is above the other. *)
LEMMA UpAbove ==
    ASSUME NEW T, NEW p \in Seq(T), p # << >>
    PROVE  Up(p) \in Seq(T) /\ Above(Up(p), p)
<1>1. PICK u \in Seq(T) : u = Up(p)
    BY UpLast
<1>2. Len(p) \in Nat /\ Len(u) = Len(p) - 1 /\ \A k \in 1 .. Len(p) - 1 : u[k] = p[k]
    BY <1>1, UpLast
<1>3. Len(u) < Len(p) /\ \A k \in 1 .. Len(u) : u[k] = p[k]
    BY <1>2
<1> QED BY <1>1, <1>3 DEF Above

(* The path that is made of the two again. *)
LEMMA UpAppend ==
    ASSUME NEW T, NEW p \in Seq(T), p # << >>
    PROVE  Append(Up(p), Last(p)) = p
<1>1. /\ Len(p) \in Nat \ {0} /\ Up(p) \in Seq(T) /\ Len(Up(p)) = Len(p) - 1
      /\ \A k \in 1 .. Len(p) - 1 : Up(p)[k] = p[k]
      /\ Last(p) \in T /\ Last(p) = p[Len(p)]
    BY UpLast
<1>2. PICK u \in Seq(T), z \in T : u = Up(p) /\ z = Last(p)
    BY <1>1
<1>3. PICK q : q = Append(u, z)
    OBVIOUS
<1>4. /\ q \in Seq(T) /\ Len(q) = Len(u) + 1 /\ q[Len(u) + 1] = z
      /\ \A k \in 1 .. Len(u) : q[k] = u[k]
    BY <1>3
<1>5. Len(u) = Len(p) - 1 /\ Len(q) = Len(p)
    BY <1>1, <1>2, <1>4
<1>6. ASSUME NEW k \in 1 .. Len(q) PROVE q[k] = p[k]
    <2>1. CASE k = Len(p)
        BY <1>1, <1>2, <1>4, <1>5, <2>1
    <2>2. CASE k # Len(p)
        <3>1. k \in 1 .. Len(p) - 1
            BY <1>1, <1>5, <2>2
        <3> QED BY <1>1, <1>2, <1>4, <1>5, <3>1
    <2> QED BY <2>1, <2>2
<1>7. q = p
    BY <1>4, <1>5, <1>6, SameSeq
<1> QED BY <1>2, <1>3, <1>7

(* A name behind a path. *)
LEMMA AppendNames ==
    ASSUME NEW T, NEW p \in Seq(T), NEW n \in T
    PROVE  /\ Append(p, n) \in Seq(T) /\ Len(Append(p, n)) = Len(p) + 1
           /\ \A k \in 1 .. Len(p) : Append(p, n)[k] = p[k]
           /\ Append(p, n)[Len(p) + 1] = n
           /\ Append(p, n) # << >>
           /\ Len(p) \in Nat
<1>1. Len(p) \in Nat
    OBVIOUS
<1>2. /\ Append(p, n) \in Seq(T) /\ Len(Append(p, n)) = Len(p) + 1
      /\ \A k \in 1 .. Len(p) : Append(p, n)[k] = p[k]
      /\ Append(p, n)[Len(p) + 1] = n
    OBVIOUS
<1> QED BY <1>1, <1>2

(* The path without the name behind it again. *)
LEMMA UpOfAppend ==
    ASSUME NEW T, NEW p \in Seq(T), NEW n \in T
    PROVE  Up(Append(p, n)) = p
<1>1. PICK q : q = Append(p, n)
    OBVIOUS
<1>2. /\ q \in Seq(T) /\ Len(q) = Len(p) + 1 /\ Len(p) \in Nat /\ q # << >>
      /\ \A k \in 1 .. Len(p) : q[k] = p[k]
    BY <1>1, AppendNames
<1>3. PICK u : u = Up(q)
    OBVIOUS
<1>4. u \in Seq(T) /\ Len(u) = Len(q) - 1 /\ \A k \in 1 .. Len(q) - 1 : u[k] = q[k]
    BY <1>2, <1>3, UpLast
<1>5. Len(q) - 1 = Len(p)
    BY <1>2
<1>6. u = p
    BY <1>2, <1>4, <1>5, SameSeq
<1> QED BY <1>1, <1>3, <1>6

(* The next entry on the way from a directory to what is below it. *)
LEMMA NextEntry ==
    ASSUME NEW T, NEW d \in Seq(T), NEW p \in Seq(T), Above(d, p)
    PROVE  LET q == Append(d, p[Len(d) + 1])
           IN  /\ p[Len(d) + 1] \in T
               /\ q = SubSeq(p, 1, Len(d) + 1) /\ Len(d) + 1 \in 1 .. Len(p)
               /\ Up(q) = d /\ Last(q) = p[Len(d) + 1]
               /\ d = SubSeq(p, 1, Len(d))
               /\ q = p \/ Above(q, p)
<1> DEFINE n == p[Len(d) + 1]
           q == Append(d, n)
           s == SubSeq(p, 1, Len(d) + 1)
           u == SubSeq(p, 1, Len(d))
<1>1. /\ Len(d) \in Nat /\ Len(p) \in Nat /\ Len(d) < Len(p)
      /\ \A k \in 1 .. Len(d) : d[k] = p[k]
    BY DEF Above
<1>2. Len(d) + 1 \in 1 .. Len(p) /\ n \in T
    BY <1>1
<1>3. /\ q \in Seq(T) /\ Len(q) = Len(d) + 1 /\ q # << >>
      /\ \A k \in 1 .. Len(d) : q[k] = d[k]
      /\ q[Len(d) + 1] = n
    BY <1>2, AppendNames
<1>4. /\ s \in Seq(T) /\ Len(s) = Len(d) + 1
      /\ \A k \in 1 .. Len(d) + 1 : s[k] = p[k]
    BY <1>1, <1>2, FirstNames
<1>5. /\ u \in Seq(T) /\ Len(u) = Len(d)
      /\ \A k \in 1 .. Len(d) : u[k] = p[k]
    BY <1>1, <1>2, FirstNames
<1> HIDE DEF q
<1> DEFINE w == Up(q)
<1>6. /\ w \in Seq(T) /\ Len(w) = Len(d)
      /\ \A k \in 1 .. Len(d) : w[k] = q[k]
      /\ Last(q) = q[Len(d) + 1]
    <2>1. /\ w \in Seq(T) /\ Len(w) = Len(q) - 1
          /\ \A k \in 1 .. Len(q) - 1 : w[k] = q[k]
          /\ Last(q) = q[Len(q)]
        BY <1>3, UpLast
    <2>2. Len(q) - 1 = Len(d)
        BY <1>1, <1>3
    <2> QED BY <1>3, <2>1, <2>2
<1> HIDE DEF s, u, w
<1>7. \A k \in 1 .. Len(q) : q[k] = p[k]
    BY <1>1, <1>3 DEF n
<1>8. q = s
    BY <1>3, <1>4, <1>7, SameSeq
<1>9. d = u
    BY <1>1, <1>5, SameSeq
<1>10. w = d
    BY <1>1, <1>3, <1>6, SameSeq
<1>11. q = p \/ Above(q, p)
    <2>1. CASE Len(q) = Len(p)
        BY <2>1, <1>3, <1>7, SameSeq
    <2>2. CASE Len(q) < Len(p)
        BY <2>2, <1>7 DEF Above
    <2> QED BY <1>1, <1>3, <2>1, <2>2
<1> QED BY <1>2, <1>3, <1>6, <1>8, <1>9, <1>10, <1>11 DEF q, s, u, w

(* On the way to an entry of a tree there are only entries of the tree. *)
LEMMA OnTheWay ==
    ASSUME NEW T, NEW S \in SUBSET Seq(T), Closed(S), NEW p \in S,
           NEW d \in Seq(T), Above(d, p)
    PROVE  /\ d \in S \cup {<< >>}
           /\ Append(d, p[Len(d) + 1]) \in S
<1>1. Append(d, p[Len(d) + 1]) = SubSeq(p, 1, Len(d) + 1) /\ Len(d) + 1 \in 1 .. Len(p)
    BY NextEntry
<1>2. Append(d, p[Len(d) + 1]) \in S
    BY <1>1 DEF Closed
<1>3. d = SubSeq(p, 1, Len(d))
    BY NextEntry
<1>4. CASE Len(d) = 0
    <2>1. d = << >>
        BY <1>4
    <2> QED BY <2>1, <1>2
<1>5. CASE Len(d) # 0
    <2>1. Len(d) \in 1 .. Len(p)
        BY <1>1, <1>5
    <2>2. SubSeq(p, 1, Len(d)) \in S
        BY <2>1 DEF Closed
    <2> QED BY <2>2, <1>2, <1>3
<1> QED BY <1>4, <1>5

(* A prefix of an entry of a tree is an entry too. *)
LEMMA PrefixInTree ==
    ASSUME NEW T, NEW S \in SUBSET Seq(T), Closed(S), NEW p \in S,
           NEW q \in Seq(T), q # << >>, IsPrefix(q, p)
    PROVE  q \in S
<1>1. Len(q) \in Nat /\ Len(p) \in Nat /\ Len(q) <= Len(p)
      /\ \A k \in 1 .. Len(q) : q[k] = p[k]
    BY PrefixNames
<1>2. CASE Len(q) < Len(p)
    BY <1>1, <1>2, OnTheWay DEF Above
<1>3. CASE Len(q) = Len(p)
    BY <1>1, <1>3, SameSeq
<1> QED BY <1>1, <1>2, <1>3

-----------------------------------------------------------------------------
(* The folder of a file.                                                   *)

(* The equation of extractFolderFromFilePath has a solution: from one for  *)
(* the first names of the path, one for the next name too is made.         *)
LEMMA PiecesExist ==
    ASSUME NEW p \in Seq(Name)
    PROVE  \E g : g = [k \in 0 .. Len(p) |->
                          IF k = 0 THEN << >> ELSE g[k - 1] \o Parts[p[k]]]
<1> DEFINE Solves(g, m) == g = [k \in 0 .. m |->
                                  IF k = 0 THEN << >> ELSE g[k - 1] \o Parts[p[k]]]
           S == {m \in 0 .. Len(p) : ~\E g : Solves(g, m)}
<1>0. Len(p) \in Nat
    OBVIOUS
<1> HIDE DEF Solves
<1>s. S \subseteq Nat
    OBVIOUS
<1>1. ASSUME NEW m \in S, \A n \in S : m <= n PROVE FALSE
    <2>0. m \in 0 .. Len(p) /\ ~\E g : Solves(g, m)
        OBVIOUS
    <2>1. CASE m = 0
        <3> DEFINE g == [k \in 0 .. 0 |-> << >>]
        <3>1. Solves(g, 0)
            BY DEF Solves
        <3> QED BY <2>0, <2>1, <3>1
    <2>2. CASE m # 0
        <3>0. m \in 1 .. Len(p) /\ m - 1 \in 0 .. Len(p) /\ ~(m <= m - 1)
            BY <1>0, <2>0, <2>2
        <3>1. m \in 1 .. Len(p) /\ m - 1 \in 0 .. Len(p) /\ m - 1 \notin S
            BY <1>1, <3>0
        <3>2. PICK g : Solves(g, m - 1)
            BY <3>1
        <3> DEFINE h == [k \in 0 .. m |-> IF k = m THEN g[m - 1] \o Parts[p[m]] ELSE g[k]]
        <3>3. /\ g[0] = << >>
              /\ \A k \in 1 .. m - 1 : g[k] = g[k - 1] \o Parts[p[k]]
            <4>1. g = [k \in 0 .. m - 1 |->
                          IF k = 0 THEN << >> ELSE g[k - 1] \o Parts[p[k]]]
                BY <3>2 DEF Solves
            <4>2. ASSUME NEW k \in 1 .. m - 1 PROVE g[k] = g[k - 1] \o Parts[p[k]]
                <5>1. k \in 0 .. m - 1 /\ k # 0
                    BY <3>1
                <5> QED BY <4>1, <5>1
            <4>3. g[0] = << >>
                <5>1. 0 \in 0 .. m - 1
                    BY <3>1
                <5> QED BY <4>1, <5>1
            <4> QED BY <4>2, <4>3
        <3>4. h[0] = << >> /\ h[m] = h[m - 1] \o Parts[p[m]]
            BY <3>1, <3>3
        <3>5. \A k \in 1 .. m - 1 : h[k] = h[k - 1] \o Parts[p[k]]
            BY <3>1, <3>3
        <3>6. h = [k \in 0 .. m |-> h[k]]
            OBVIOUS
        <3> HIDE DEF h
        <3>7. ASSUME NEW k \in 0 .. m
              PROVE  h[k] = IF k = 0 THEN << >> ELSE h[k - 1] \o Parts[p[k]]
            <4>1. k = 0 \/ k = m \/ k \in 1 .. m - 1
                BY <3>1
            <4> QED BY <2>2, <3>4, <3>5, <4>1
        <3>8. Solves(h, m)
            BY <3>6, <3>7 DEF Solves
        <3> QED BY <2>0, <3>8
    <2> QED BY <2>1, <2>2
<1>2. S = {}
    <2> HIDE DEF S
    <2> QED BY <1>s, <1>1, LeastNumber
<1>3. \E g : Solves(g, Len(p))
    BY <1>0, <1>2
<1> QED BY <1>3 DEF Solves

(* extractFolderFromFilePath puts the pieces of the names behind each      *)
(* other and leaves out the last of them.                                  *)
LEMMA FolderPieces ==
    ASSUME NEW p \in Seq(Name)
    PROVE  \E g : /\ g[0] = << >>
                  /\ \A k \in 1 .. Len(p) : g[k] = g[k - 1] \o Parts[p[k]]
                  /\ extractFolderFromFilePath(p) = Front(g[Len(p)])
<1> DEFINE Solves(g) == g = [k \in 0 .. Len(p) |->
                                IF k = 0 THEN << >> ELSE g[k - 1] \o Parts[p[k]]]
           g == CHOOSE f : Solves(f)
<1>0. Len(p) \in Nat
    OBVIOUS
<1>1. \E f : Solves(f)
    BY PiecesExist
<1>2. Solves(g)
    <2> HIDE DEF Solves
    <2> QED BY <1>1
<1>3. extractFolderFromFilePath(p) = Front(g[Len(p)])
    BY DEF extractFolderFromFilePath
<1> HIDE DEF g
<1>4. g[0] = << >> /\ \A k \in 1 .. Len(p) : g[k] = g[k - 1] \o Parts[p[k]]
    BY <1>0, <1>2
<1> QED BY <1>3, <1>4

(* The folder of a file is a path, whatever the names of the file fall     *)
(* into; where they are plain, the folder that the file is in is on the    *)
(* way to it.                                                              *)
LEMMA FolderFacts ==
    ASSUME NEW p \in Seq(Name), p # << >>
    PROVE  LET f == extractFolderFromFilePath(p)
               d == Up(p)
           IN  /\ f \in Seq(Part)
               /\ d # << >> /\ (\A n \in Range(d) : Parts[n] = <<n>>) => d \in smartCreate(f)
<1> DEFINE f == extractFolderFromFilePath(p)
           d == Up(p)
<1>1. PICK g : /\ g[0] = << >>
               /\ \A k \in 1 .. Len(p) : g[k] = g[k - 1] \o Parts[p[k]]
               /\ f = Front(g[Len(p)])
    BY FolderPieces
<1>2. Len(p) \in Nat \ {0}
    OBVIOUS
<1>3. \A k \in 1 .. Len(p) : Parts[p[k]] \in Seq(Part) /\ Parts[p[k]] # << >>
    BY ScanAssumption
<1>4. \A k \in 0 .. Len(p) : g[k] \in Seq(Part)
    <2> DEFINE S == {k \in 0 .. Len(p) : g[k] \notin Seq(Part)}
    <2>0. S \subseteq Nat
        OBVIOUS
    <2>1. ASSUME NEW m \in S, \A n \in S : m <= n PROVE FALSE
        <3>1. m # 0
            <4>1. g[0] \in Seq(Part)
                BY <1>1
            <4> QED BY <4>1
        <3>2. m \in 1 .. Len(p) /\ m - 1 \in 0 .. Len(p) /\ m - 1 \notin S
            BY <1>2, <2>1, <3>1
        <3>3. g[m - 1] \in Seq(Part) /\ Parts[p[m]] \in Seq(Part)
            BY <1>3, <3>2
        <3>4. g[m - 1] \o Parts[p[m]] \in Seq(Part)
            BY <3>3
        <3> QED BY <1>1, <3>2, <3>4
    <2>2. S = {}
        <3> HIDE DEF S
        <3> QED BY <2>0, <2>1, LeastNumber
    <2> QED BY <2>2
<1> DEFINE L == Len(p)
           e == g[L - 1]
           s == Parts[p[L]]
           w == g[L]
<1>5. w = e \o s /\ e \in Seq(Part) /\ s \in Seq(Part) /\ s # << >> /\ f = Front(w)
    <2>1. L \in 1 .. Len(p) /\ L - 1 \in 0 .. Len(p)
        BY <1>2
    <2>2. w = e \o s /\ f = Front(w)
        BY <1>1, <2>1
    <2>3. e \in Seq(Part) /\ s \in Seq(Part) /\ s # << >>
        BY <1>3, <1>4, <2>1
    <2> QED BY <2>2, <2>3
<1> HIDE DEF f, e, s, w
<1>6. /\ w \in Seq(Part) /\ Len(w) = Len(e) + Len(s) /\ Len(e) \in Nat /\ Len(s) \in Nat \ {0}
      /\ \A k \in 1 .. Len(e) : w[k] = e[k]
    BY <1>5
<1>7. Len(w) - 1 \in 0 .. Len(w) /\ f = SubSeq(w, 1, Len(w) - 1)
    BY <1>5, <1>6 DEF Front
<1>8. f \in Seq(Part) /\ Len(f) = Len(w) - 1 /\ \A k \in 1 .. Len(w) - 1 : f[k] = w[k]
    BY <1>6, <1>7, FirstNames
<1>9. ASSUME d # << >>, \A n \in Range(d) : Parts[n] = <<n>>
      PROVE  d \in smartCreate(f)
    <2>1. /\ d \in Seq(Name) /\ Len(d) = L - 1
          /\ \A k \in 1 .. L - 1 : d[k] = p[k]
        BY UpLast
    <2> HIDE DEF d
    <2>2. ASSUME NEW k \in 1 .. L - 1 PROVE Parts[p[k]] = <<p[k]>>
        <3>1. d[k] \in Range(d)
            BY <1>2, <2>1 DEF Range
        <3> QED BY <1>9, <2>1, <3>1
    <2> DEFINE Same(m) == Len(g[m]) = m /\ \A k \in 1 .. m : g[m][k] = p[k]
               S == {m \in 0 .. L - 1 : ~Same(m)}
    <2>s. S \subseteq Nat
        OBVIOUS
    <2>3. ASSUME NEW m \in S, \A n \in S : m <= n PROVE FALSE
        <3>1. m # 0
            BY <1>1
        <3>2. m \in 1 .. L - 1 /\ m - 1 \in 0 .. L - 1 /\ m - 1 \notin S
              /\ m \in 1 .. L /\ m - 1 \in 0 .. L
            BY <1>2, <2>3, <3>1
        <3>3. Same(m - 1) /\ g[m - 1] \in Seq(Part)
            BY <1>4, <3>2
        <3>4. g[m] = g[m - 1] \o <<p[m]>> /\ p[m] \in Part
            <4>1. g[m] = g[m - 1] \o Parts[p[m]]
                BY <1>1, <3>2
            <4>2. Parts[p[m]] = <<p[m]>>
                BY <2>2, <3>2
            <4> QED BY <3>2, <4>1, <4>2 DEF Part
        <3>5. PICK y \in Seq(Part) : y = g[m - 1]
            BY <3>3
        <3>6. Len(y) = m - 1 /\ \A k \in 1 .. m - 1 : y[k] = p[k]
            BY <3>3, <3>5
        <3>7. PICK z : z = g[m]
            OBVIOUS
        <3>8. z = Append(y, p[m])
            BY <3>4, <3>5, <3>7
        <3>9. Len(z) = m /\ \A k \in 1 .. m : z[k] = p[k]
            BY <3>2, <3>4, <3>6, <3>8
        <3> QED BY <3>7, <3>9
    <2>4. S = {}
        <3> HIDE DEF S
        <3> QED BY <2>s, <2>3, LeastNumber
    <2>5. Same(L - 1)
        BY <1>2, <2>4
    <2>6. Len(e) = L - 1 /\ \A k \in 1 .. L - 1 : e[k] = p[k]
        BY <2>5 DEF e
    <2>7. L - 1 \in 0 .. Len(f) /\ \A k \in 1 .. L - 1 : f[k] = p[k]
        BY <1>2, <1>6, <1>8, <2>6
    <2> DEFINE u == SubSeq(f, 1, L - 1)
    <2>8. u \in Seq(Part) /\ Len(u) = L - 1 /\ \A k \in 1 .. L - 1 : u[k] = f[k]
        BY <1>8, <2>7, FirstNames
    <2> HIDE DEF u
    <2>9. u = d
        <3>1. d \in Seq(Part)
            BY <2>1 DEF Part
        <3> QED BY <2>1, <2>7, <2>8, <3>1, SameSeq
    <2>10. L - 1 \in 1 .. Len(f)
        <3>1. L - 1 # 0
            <4>1. d # << >>
                BY <1>9
            <4>2. Len(d) # 0
                BY <2>1, <4>1
            <4> QED BY <2>1, <4>2
        <3>2. L - 1 \in Nat /\ Len(f) \in Nat /\ L - 1 <= Len(f)
            BY <1>2, <1>8, <2>7
        <3> HIDE DEF L
        <3>3. PICK n \in Nat : n = L - 1
            BY <3>2
        <3>4. PICK x \in Nat : x = Len(f)
            BY <3>2
        <3>5. n # 0 /\ n <= x
            BY <3>1, <3>2, <3>3, <3>4
        <3>6. n \in 1 .. x
            BY <3>5
        <3> QED BY <3>3, <3>4, <3>6
    <2> QED BY <2>9, <2>10 DEF u, smartCreate
<1> QED BY <1>8, <1>9 DEF f

-----------------------------------------------------------------------------
(* Which directory is opened.                                              *)

(* A path whose directories are all above it with plain names. *)
Straight(p) == p = << >> \/ Up(p) \in Seq(Plain)

(* The stack and the list. *)
Lists == /\ recursiveFolders \in Seq(Seq(Name)) /\ filesToProcess \in Seq(Seq(Name))
         /\ \A k \in DOMAIN recursiveFolders : Straight(recursiveFolders[k])
         /\ \A k \in DOMAIN filesToProcess : Straight(filesToProcess[k])

(* TypeOK has it with the ranges of both. *)
LEMMA StraightLists ==
    ASSUME recursiveFolders \in Seq(Seq(Name)), filesToProcess \in Seq(Seq(Name))
    PROVE  (\A p \in Range(recursiveFolders) \cup Range(filesToProcess) :
               p = << >> \/ Up(p) \in Seq(Plain)) <=> Lists
BY DEF Range, Lists, Straight

(* No path is what stands for no directory. *)
LEMMA NoDirIsNoPath == ASSUME NEW p \in Seq(Name) PROVE p # NoDir
<1>1. p = NoDir => Len(p) = 1 /\ p[1] = "none"
    BY DEF NoDir
<1>2. Len(p) = 1 => p[1] \in Name
    OBVIOUS
<1>3. "none" \notin Name
    BY ScanAssumption
<1> QED BY <1>1, <1>2, <1>3

(* Paths of plain names are paths of names. *)
LEMMA PlainNames == Plain \subseteq Name /\ Seq(Plain) \subseteq Seq(Name)
<1>1. Plain \subseteq Name
    BY DEF Plain
<1>2. ASSUME NEW p \in Seq(Plain) PROVE p \in Seq(Name)
    BY <1>1
<1> QED BY <1>1, <1>2

(* Without backslashes at its end, a path has only plain names; it is the  *)
(* path itself exactly if that has only plain names, and else the one      *)
(* above it or another one beside it.                                      *)
LEMMA OpenedPath ==
    ASSUME NEW d \in Seq(Name), Straight(d)
    PROVE  /\ Opened(d) \in Seq(Plain)
           /\ d \in Seq(Plain) => Opened(d) = d
           /\ Opened(d) # d =>
                 /\ d # << >>
                 /\ Opened(d) = Up(d) \/ \E n \in Plain : Opened(d) = Append(Up(d), n)
<1>1. CASE d = << >>
    <2>1. Opened(d) = d
        BY <1>1 DEF Opened
    <2>2. d \in Seq(Plain)
        BY <1>1
    <2> QED BY <2>1, <2>2
<1>2. CASE d # << >>
    <2>1. PICK u : u = Up(d)
        OBVIOUS
    <2>2. PICK z \in Name : z = Last(d)
        BY <1>2, UpLast
    <2>3. /\ u \in Seq(Plain) /\ Opened(d) = u \o Bare[z]
        BY <1>2, <2>1, <2>2 DEF Straight, Opened
    <2>4. Bare[z] = << >> \/ \E n \in Plain : Bare[z] = <<n>>
        BY ScanAssumption
    <2>5. CASE Bare[z] = << >>
        <3>1. Opened(d) = u
            BY <2>3, <2>5
        <3>2. z \notin Plain
            <4>1. z \in Plain => Bare[z] = <<z>>
                BY DEF Plain
            <4>2. << >> # <<z>>
                OBVIOUS
            <4> QED BY <2>5, <4>1, <4>2
        <3>3. d \notin Seq(Plain)
            BY <1>2, <2>2, <3>2, UpLast
        <3> QED BY <1>2, <2>1, <2>3, <3>1, <3>3
    <2>6. ASSUME NEW n \in Plain, Bare[z] = <<n>>
          PROVE  /\ Opened(d) \in Seq(Plain) /\ Opened(d) = Append(u, n)
                 /\ d \in Seq(Plain) => Opened(d) = d
        <3>1. Opened(d) = u \o <<n>>
            BY <2>3, <2>6
        <3>2. Opened(d) = Append(u, n)
            BY <2>3, <3>1
        <3>3. Append(u, n) \in Seq(Plain)
            BY <2>3
        <3>4. ASSUME d \in Seq(Plain) PROVE Append(u, n) = d
            <4>1. z \in Plain
                BY <1>2, <2>2, <3>4, UpLast
            <4>2. n = z
                BY <2>6, <4>1 DEF Plain
            <4> QED BY <1>2, <2>1, <2>2, <4>2, UpAppend
        <3> QED BY <3>2, <3>3, <3>4
    <2> QED BY <1>2, <2>1, <2>4, <2>5, <2>6
<1> QED BY <1>1, <1>2

(* What lies below a directory with plain names all the way. *)
LEMMA VisibleWay ==
    ASSUME NEW p \in Seq(Name), Visible(p), NEW d \in Seq(Name), Above(d, p)
    PROVE  d \in Seq(Plain)
<1>1. Len(d) \in Nat /\ Len(p) \in Nat /\ Len(d) < Len(p)
      /\ \A k \in 1 .. Len(d) : d[k] = p[k]
    BY DEF Above
<1>2. ASSUME NEW k \in 1 .. Len(d) PROVE d[k] \in Plain
    <2>1. k \in 1 .. Len(p) - 1
        BY <1>1
    <2> QED BY <1>1, <2>1 DEF Visible
<1> QED BY <1>2

(* What is above a path is a prefix of it. *)
LEMMA AbovePrefix ==
    ASSUME NEW p \in Seq(Name), NEW d \in Seq(Name), Above(d, p)
    PROVE  IsPrefix(d, p)
<1>1. Len(d) \in Nat /\ Len(p) \in Nat /\ Len(d) <= Len(p)
      /\ \A k \in 1 .. Len(d) : d[k] = p[k]
    BY DEF Above
<1> QED BY <1>1, PrefixNames

(* A directory in one that is clear is clear if it may be read itself. *)
LEMMA ClearBelow ==
    ASSUME NEW e \in Seq(Name), e # << >>, Up(e) # << >> => Clear(Up(e)), Tree[e] = "dir"
    PROVE  Clear(e)
<1>1. PICK u \in Seq(Name) : u = Up(e)
    BY UpLast
<1>2. /\ Len(e) \in Nat \ {0} /\ Len(u) = Len(e) - 1
      /\ \A k \in 1 .. Len(e) - 1 : u[k] = e[k]
    BY <1>1, UpLast
<1>3. ASSUME NEW n \in 1 .. Len(e) PROVE Tree[SubSeq(e, 1, n)] = "dir"
    <2>1. CASE n = Len(e)
        <3>1. SubSeq(e, 1, n) = e
            BY <2>1
        <3> QED BY <3>1
    <2>2. CASE n # Len(e)
        <3>1. n \in 1 .. Len(u) /\ n \in 0 .. Len(u) /\ n \in 0 .. Len(e)
            BY <1>2, <2>2
        <3>2. /\ SubSeq(e, 1, n) \in Seq(Name) /\ Len(SubSeq(e, 1, n)) = n
              /\ \A j \in 1 .. n : SubSeq(e, 1, n)[j] = e[j]
            BY <3>1, FirstNames
        <3>3. /\ SubSeq(u, 1, n) \in Seq(Name) /\ Len(SubSeq(u, 1, n)) = n
              /\ \A j \in 1 .. n : SubSeq(u, 1, n)[j] = u[j]
            BY <1>1, <3>1, FirstNames
        <3>4. SubSeq(e, 1, n) = SubSeq(u, 1, n)
            <4>1. \A j \in 1 .. n : j \in 1 .. Len(e) - 1
                BY <1>2, <3>1
            <4> QED BY <1>2, <3>2, <3>3, <4>1, SameSeq
        <3>5. u # << >>
            BY <3>1
        <3>6. Tree[SubSeq(u, 1, n)] = "dir"
            BY <1>1, <3>1, <3>5 DEF Clear
        <3> QED BY <3>4, <3>6
    <2> QED BY <2>1, <2>2
<1> QED BY <1>3 DEF Clear

-----------------------------------------------------------------------------
(* What the user does to the tree.                                         *)

(* A prefix of a prefix is a prefix. *)
LEMMA PrefixTransitive ==
    ASSUME NEW T, NEW p \in Seq(T), NEW q \in Seq(T), NEW r \in Seq(T),
           IsPrefix(p, q), IsPrefix(q, r)
    PROVE  IsPrefix(p, r)
<1>1. Len(p) \in Nat /\ Len(q) \in Nat /\ Len(r) \in Nat
    OBVIOUS
<1>2. Len(p) <= Len(q) /\ \A k \in 1 .. Len(p) : p[k] = q[k]
    BY PrefixNames
<1>3. Len(q) <= Len(r) /\ \A k \in 1 .. Len(q) : q[k] = r[k]
    BY PrefixNames
<1>4. Len(p) <= Len(r) /\ \A k \in 1 .. Len(p) : p[k] = r[k]
    BY <1>1, <1>2, <1>3
<1> QED BY <1>4, PrefixNames

(* The first names of a path are a prefix of it. *)
LEMMA FirstNamesPrefix ==
    ASSUME NEW T, NEW p \in Seq(T), NEW n \in 0 .. Len(p)
    PROVE  IsPrefix(SubSeq(p, 1, n), p)
<1> DEFINE s == SubSeq(p, 1, n)
<1>1. s \in Seq(T) /\ Len(s) = n /\ \A k \in 1 .. n : s[k] = p[k]
    BY FirstNames
<1> HIDE DEF s
<1>2. Len(s) <= Len(p) /\ \A k \in 1 .. Len(s) : s[k] = p[k]
    BY <1>1
<1>3. IsPrefix(s, p)
    BY <1>1, <1>2, PrefixNames
<1> QED BY <1>3 DEF s

(* What is not below a path is a tree again. *)
LEMMA RestIsTree ==
    ASSUME NEW T, NEW S \in SUBSET Seq(T), Closed(S), NEW p \in Seq(T)
    PROVE  Closed({e \in S : ~IsPrefix(p, e)})
<1>1. ASSUME NEW e \in S, ~IsPrefix(p, e), NEW n \in 1 .. Len(e)
      PROVE  SubSeq(e, 1, n) \in S /\ ~IsPrefix(p, SubSeq(e, 1, n))
    <2>1. n \in 0 .. Len(e)
        OBVIOUS
    <2>2. SubSeq(e, 1, n) \in Seq(T) /\ IsPrefix(SubSeq(e, 1, n), e)
        BY <2>1, FirstNames, FirstNamesPrefix
    <2>3. SubSeq(e, 1, n) \in S
        BY DEF Closed
    <2> QED BY <1>1, <2>2, <2>3, PrefixTransitive
<1> QED BY <1>1 DEF Closed

(* m is b with to in place of p, which leaves j names. *)
Replaced(p, to, b, m, j) ==
    /\ Len(b) = Len(p) + j /\ Len(m) = Len(to) + j
    /\ \A k \in 1 .. Len(to) : m[k] = to[k]
    /\ \A k \in 1 .. j : m[Len(to) + k] = b[Len(p) + k]

(* The path of an entry after a directory above it was moved. *)
LEMMA MovedNames ==
    ASSUME NEW T, NEW p \in Seq(T), NEW to \in Seq(T), NEW b \in Seq(T), IsPrefix(p, b)
    PROVE  \E m \in Seq(T), j \in Nat :
              m = Moved(p, to, b) /\ Replaced(p, to, b, m, j) /\ IsPrefix(to, m)
<1> DEFINE s == SubSeq(b, Len(p) + 1, Len(b))
           m == to \o s
<1>1. /\ Len(p) \in Nat /\ Len(to) \in Nat /\ Len(b) \in Nat /\ Len(p) <= Len(b)
      /\ Len(b) - Len(p) \in Nat
    BY PrefixNames
<1>2. PICK j \in Nat : j = Len(b) - Len(p)
    BY <1>1
<1>3. s \in Seq(T) /\ Len(s) = j /\ \A k \in 1 .. j : s[k] = b[Len(p) + k]
    BY <1>1, <1>2
<1>4. m = Moved(p, to, b)
    BY DEF Moved
<1> HIDE DEF s
<1>5. /\ m \in Seq(T) /\ Len(m) = Len(to) + j
      /\ \A k \in 1 .. Len(to) : m[k] = to[k]
      /\ \A k \in 1 .. j : m[Len(to) + k] = s[k]
    <2>0. s \in Seq(T)
        BY <1>3
    <2>1. m \in Seq(T) /\ Len(m) = Len(to) + Len(s)
        BY <2>0, ConcatProperties
    <2>2. \A k \in 1 .. Len(to) : m[k] = to[k]
        BY <1>1, <1>3
    <2>3. \A k \in 1 .. Len(s) : m[Len(to) + k] = s[k]
        BY <1>1, <1>3
    <2> QED BY <1>3, <2>1, <2>2, <2>3
<1> HIDE DEF m
<1>6. IsPrefix(to, m)
    <2>1. Len(to) <= Len(m)
        BY <1>1, <1>5
    <2> QED BY <2>1, <1>5, PrefixNames
<1>7. Len(b) = Len(p) + j
    BY <1>1, <1>2
<1>8. \A k \in 1 .. j : m[Len(to) + k] = b[Len(p) + k]
    BY <1>3, <1>5
<1>9. Replaced(p, to, b, m, j)
    BY <1>5, <1>7, <1>8 DEF Replaced
<1> QED BY <1>4, <1>5, <1>6, <1>9

(* Moving it back gives the path that it had. *)
LEMMA MovedBack ==
    ASSUME NEW T, NEW p \in Seq(T), NEW to \in Seq(T), NEW b \in Seq(T), IsPrefix(p, b)
    PROVE  Moved(to, p, Moved(p, to, b)) = b
<1>1. PICK m \in Seq(T), j \in Nat :
          m = Moved(p, to, b) /\ Replaced(p, to, b, m, j) /\ IsPrefix(to, m)
    BY MovedNames
<1>2. PICK c \in Seq(T), i \in Nat : c = Moved(to, p, m) /\ Replaced(to, p, m, c, i)
    BY <1>1, MovedNames
<1>3. /\ Len(p) \in Nat /\ Len(to) \in Nat /\ Len(b) \in Nat
      /\ \A k \in 1 .. Len(p) : p[k] = b[k]
    BY PrefixNames
<1>e. /\ Len(b) = Len(p) + j /\ Len(m) = Len(to) + j
      /\ Len(m) = Len(to) + i /\ Len(c) = Len(p) + i
      /\ \A k \in 1 .. Len(p) : c[k] = p[k]
    BY <1>1, <1>2 DEF Replaced
<1>4. i = j /\ Len(c) = Len(b)
    <2>1. PICK x \in Nat : x = Len(to)
        BY <1>3
    <2>2. x + i = x + j
        BY <1>e, <2>1
    <2>3. i = j
        BY <2>2
    <2> QED BY <1>e, <2>3
<1>5. ASSUME NEW k \in 1 .. Len(c) PROVE c[k] = b[k]
    <2>1. CASE k <= Len(p)
        BY <1>3, <1>e, <2>1
    <2>2. CASE k > Len(p)
        <3>1. PICK l \in 1 .. j : k = Len(p) + l
            <4>1. k - Len(p) \in 1 .. j /\ k = Len(p) + (k - Len(p))
                BY <1>2, <1>3, <1>4, <2>2 DEF Replaced
            <4> QED BY <4>1
        <3> QED BY <1>1, <1>2, <1>4, <3>1 DEF Replaced
    <2> QED BY <1>3, <2>1, <2>2
<1>6. c = b
    BY <1>4, <1>5, SameSeq
<1> QED BY <1>1, <1>2, <1>6

FsType == DOMAIN fs \subseteq Path /\ \A p \in DOMAIN fs : fs[p] \in Kind

(* The paths of the entries are sequences of names. *)
LEMMA FsPaths ==
    ASSUME FsType, TreeInv
    PROVE  /\ DOMAIN fs \in SUBSET Seq(Name) /\ stable \in SUBSET Seq(Name)
           /\ Closed(DOMAIN fs) /\ Closed(stable)
           /\ \A p \in DOMAIN fs : p # << >>
BY PathSeq DEF FsType, TreeInv

(* A new entry makes a new tree. *)
LEMMA CreateTree ==
    ASSUME FsType, TreeInv, NEW p \in Path, NEW kind \in {"file", "dir"}, Create(p, kind)
    PROVE  FsType' /\ TreeInv' /\ stable' = stable
<1>1. /\ p # << >> /\ p \notin DOMAIN fs /\ IsDir(Up(p))
      /\ fs' = [e \in DOMAIN fs \cup {p} |-> IF e = p THEN kind ELSE fs[e]]
      /\ stable' = stable
    BY DEF Create
<1>2. /\ DOMAIN fs' = DOMAIN fs \cup {p} /\ fs'[p] = kind
      /\ \A e \in DOMAIN fs : fs'[e] = fs[e]
    BY <1>1
<1>3. FsType'
    BY <1>2 DEF FsType, Kind
<1>4. p \in Seq(Name)
    BY PathSeq
<1>5. Closed(DOMAIN fs')
    <2>1. ASSUME NEW n \in 1 .. Len(p) PROVE SubSeq(p, 1, n) \in DOMAIN fs'
        <3>1. CASE n = Len(p)
            BY <3>1, <1>2, <1>4
        <3>2. CASE n # Len(p)
            <4>0. PICK d : d = Up(p)
                OBVIOUS
            <4>1. /\ d \in Seq(Name) /\ Len(d) = Len(p) - 1
                  /\ \A k \in 1 .. Len(p) - 1 : d[k] = p[k]
                BY <1>1, <1>4, <4>0, UpLast
            <4>2. n \in 1 .. Len(d) /\ n \in 0 .. Len(d) /\ n \in 0 .. Len(p)
                BY <1>4, <3>2, <4>1
            <4>3. d \in DOMAIN fs
                <5>1. d # << >>
                    BY <4>2
                <5> QED BY <1>1, <4>0, <5>1 DEF IsDir
            <4>4. SubSeq(d, 1, n) \in DOMAIN fs
                BY <4>2, <4>3, FsPaths DEF Closed
            <4>5. SubSeq(d, 1, n) = SubSeq(p, 1, n)
                <5>1. /\ SubSeq(d, 1, n) \in Seq(Name) /\ Len(SubSeq(d, 1, n)) = n
                      /\ \A k \in 1 .. n : SubSeq(d, 1, n)[k] = d[k]
                    BY <4>1, <4>2, FirstNames
                <5>2. /\ SubSeq(p, 1, n) \in Seq(Name) /\ Len(SubSeq(p, 1, n)) = n
                      /\ \A k \in 1 .. n : SubSeq(p, 1, n)[k] = p[k]
                    BY <1>4, <4>2, FirstNames
                <5>3. \A k \in 1 .. n : d[k] = p[k]
                    BY <1>4, <4>1, <4>2
                <5> QED BY <5>1, <5>2, <5>3, SameSeq
            <4> QED BY <1>2, <4>4, <4>5
        <3> QED BY <3>1, <3>2
    <2>2. \A e \in DOMAIN fs : \A n \in 1 .. Len(e) : SubSeq(e, 1, n) \in DOMAIN fs'
        BY <1>2, FsPaths DEF Closed
    <2> QED BY <1>2, <2>1, <2>2 DEF Closed
<1>6. TreeInv'
    BY <1>1, <1>2, <1>5 DEF TreeInv
<1> QED BY <1>1, <1>3, <1>6

(* Without an entry and what is below it the rest is a tree. *)
LEMMA DeleteTree ==
    ASSUME FsType, TreeInv, NEW p \in Path, Delete(p)
    PROVE  /\ FsType' /\ TreeInv'
           /\ stable' = {e \in stable : ~IsPrefix(p, e)} /\ p # << >>
           /\ DOMAIN fs' = {e \in DOMAIN fs : ~IsPrefix(p, e)}
<1>1. /\ p \in DOMAIN fs
      /\ fs' = [e \in {e \in DOMAIN fs : ~IsPrefix(p, e)} |-> fs[e]]
      /\ stable' = {e \in stable : ~IsPrefix(p, e)}
    BY DEF Delete
<1>2. /\ DOMAIN fs' = {e \in DOMAIN fs : ~IsPrefix(p, e)}
      /\ \A e \in DOMAIN fs' : fs'[e] = fs[e]
    BY <1>1
<1>3. FsType'
    BY <1>2 DEF FsType
<1>4. Closed(DOMAIN fs') /\ Closed(stable')
    BY <1>1, <1>2, FsPaths, PathSeq, RestIsTree
<1>5. TreeInv'
    BY <1>1, <1>2, <1>4 DEF TreeInv
<1>6. p # << >>
    BY <1>1, FsPaths
<1> QED BY <1>1, <1>2, <1>3, <1>5, <1>6

(* An entry that is moved with what is below it leaves a tree. *)
LEMMA MoveTree ==
    ASSUME FsType, TreeInv, NEW p \in Path, NEW to \in Path, Move(p, to)
    PROVE  /\ FsType' /\ TreeInv'
           /\ stable' = {e \in stable : ~IsPrefix(p, e)} /\ p # << >>
           /\ {e \in DOMAIN fs : ~IsPrefix(p, e)} \subseteq DOMAIN fs'
           /\ \A e \in DOMAIN fs : IsPrefix(p, e) => Moved(p, to, e) \in DOMAIN fs'
<1> DEFINE below == {e \in DOMAIN fs : IsPrefix(p, e)}
           D == (DOMAIN fs \ below) \cup {Moved(p, to, b) : b \in below}
<1>1. /\ p \in DOMAIN fs /\ to \notin DOMAIN fs /\ to # << >> /\ ~IsPrefix(p, to)
      /\ IsDir(Up(to))
      /\ \A e \in below : Moved(p, to, e) \in Path
      /\ fs' = [e \in D |-> IF IsPrefix(to, e) THEN fs[Moved(to, p, e)] ELSE fs[e]]
      /\ stable' = {e \in stable : ~IsPrefix(p, e)}
    BY DEF Move
<1>2. /\ p \in Seq(Name) /\ to \in Seq(Name) /\ p # << >>
      /\ DOMAIN fs \in SUBSET Seq(Name) /\ Closed(DOMAIN fs)
      /\ stable \in SUBSET Seq(Name) /\ Closed(stable)
    BY <1>1, FsPaths, PathSeq
<1>3. \A e \in DOMAIN fs : ~IsPrefix(to, e)
    BY <1>1, <1>2, PrefixInTree
<1>4. \A b \in below : /\ IsPrefix(to, Moved(p, to, b))
                       /\ Moved(to, p, Moved(p, to, b)) = b
    BY <1>2, MovedNames, MovedBack
<1>5. /\ DOMAIN fs' = D
      /\ \A e \in DOMAIN fs \ below : fs'[e] = fs[e]
      /\ \A b \in below : fs'[Moved(p, to, b)] = fs[b]
    <2>1. DOMAIN fs' = D
        BY <1>1
    <2>2. ASSUME NEW e \in DOMAIN fs \ below PROVE fs'[e] = fs[e]
        BY <1>1, <1>3
    <2>3. ASSUME NEW b \in below PROVE fs'[Moved(p, to, b)] = fs[b]
        <3>1. PICK m : m = Moved(p, to, b)
            OBVIOUS
        <3>2. m \in D /\ IsPrefix(to, m) /\ Moved(to, p, m) = b
            BY <3>1, <1>4
        <3>3. fs'[m] = IF IsPrefix(to, m) THEN fs[Moved(to, p, m)] ELSE fs[m]
            BY <1>1, <3>2
        <3> QED BY <3>1, <3>2, <3>3
    <2> QED BY <2>1, <2>2, <2>3
<1>6. FsType'
    <2>1. D \subseteq Path
        BY <1>1 DEF FsType
    <2>2. ASSUME NEW e \in D PROVE fs'[e] \in Kind
        BY <1>5, <2>2 DEF FsType
    <2> QED BY <1>5, <2>1, <2>2 DEF FsType
<1>7. << >> \notin DOMAIN fs'
    <2>1. ASSUME NEW b \in below PROVE Moved(p, to, b) # << >>
        <3>1. b \in Seq(Name) /\ IsPrefix(p, b)
            BY <1>2
        <3>2. PICK m \in Seq(Name), j \in Nat : m = Moved(p, to, b) /\ Replaced(p, to, b, m, j)
            BY <1>2, <3>1, MovedNames
        <3>3. Len(to) \in Nat /\ Len(to) # 0
            BY <1>1, <1>2
        <3> QED BY <3>2, <3>3 DEF Replaced
    <2> QED BY <1>5, <2>1 DEF TreeInv
<1>8. Closed(DOMAIN fs')
    <2>1. ASSUME NEW e \in DOMAIN fs \ below, NEW n \in 1 .. Len(e)
          PROVE  SubSeq(e, 1, n) \in DOMAIN fs'
        <3>1. Closed(DOMAIN fs \ below)
            <4>1. DOMAIN fs \ below = {x \in DOMAIN fs : ~IsPrefix(p, x)}
                OBVIOUS
            <4> QED BY <1>2, <4>1, RestIsTree
        <3> QED BY <1>5, <3>1 DEF Closed
    <2>2. ASSUME NEW b \in below, NEW m, m = Moved(p, to, b), NEW n \in 1 .. Len(m)
          PROVE  SubSeq(m, 1, n) \in DOMAIN fs'
        <3>0. b \in DOMAIN fs /\ b \in Seq(Name) /\ IsPrefix(p, b)
            BY <1>2
        <3>m. PICK h \in Nat : m \in Seq(Name) /\ Replaced(p, to, b, m, h)
            BY <1>2, <2>2, <3>0, MovedNames
        <3>1. /\ m \in Seq(Name) /\ Len(b) = Len(p) + h /\ Len(m) = Len(to) + h
              /\ \A k \in 1 .. Len(to) : m[k] = to[k]
              /\ \A k \in 1 .. h : m[Len(to) + k] = b[Len(p) + k]
            BY <3>m DEF Replaced
        <3>2. Len(to) \in Nat \ {0} /\ Len(p) \in Nat \ {0} /\ Len(b) \in Nat
            BY <1>1, <1>2, <3>0
        <3>3. PICK x : x = SubSeq(m, 1, n)
            OBVIOUS
        <3>4. x \in Seq(Name) /\ Len(x) = n /\ \A k \in 1 .. n : x[k] = m[k]
            <4>1. n \in 0 .. Len(m)
                BY <3>1, <3>2
            <4> QED BY <3>1, <3>3, <4>1, FirstNames
        <3>5. CASE n < Len(to)
            <4>1. PICK u : u = Up(to)
                OBVIOUS
            <4>2. /\ u \in Seq(Name) /\ Len(u) = Len(to) - 1
                  /\ \A k \in 1 .. Len(to) - 1 : u[k] = to[k]
                BY <1>1, <1>2, <4>1, UpLast
            <4>3. u \in DOMAIN fs
                <5>1. u # << >>
                    BY <3>2, <3>5, <4>2
                <5> QED BY <1>1, <4>1, <5>1 DEF IsDir
            <4>4. \A k \in 1 .. n : x[k] = u[k] /\ x[k] = to[k]
                <5>1. ASSUME NEW k \in 1 .. n PROVE x[k] = u[k] /\ x[k] = to[k]
                    <6>1. k \in 1 .. Len(to) /\ k \in 1 .. Len(to) - 1
                        BY <3>2, <3>5
                    <6> QED BY <3>1, <3>4, <4>2, <6>1
                <5> QED BY <5>1
            <4>5. IsPrefix(x, u) /\ IsPrefix(x, to) /\ x # << >>
                <5>1. Len(x) <= Len(u) /\ Len(x) <= Len(to) /\ Len(x) # 0
                    BY <3>2, <3>4, <3>5, <4>2
                <5>2. IsPrefix(x, u)
                    BY <3>4, <4>2, <4>4, <5>1, PrefixNames
                <5>3. IsPrefix(x, to)
                    BY <1>2, <3>4, <4>4, <5>1, PrefixNames
                <5>4. x # << >>
                    BY <5>1
                <5> QED BY <5>2, <5>3, <5>4
            <4>6. x \in DOMAIN fs
                BY <1>2, <3>4, <4>3, <4>5, PrefixInTree
            <4>7. ~IsPrefix(p, x)
                BY <1>1, <1>2, <3>4, <4>5, PrefixTransitive
            <4> QED BY <1>5, <3>3, <4>6, <4>7
        <3>6. CASE n >= Len(to)
            <4>1. PICK j \in 0 .. h : n = Len(to) + j
                <5>1. n - Len(to) \in 0 .. h /\ n = Len(to) + (n - Len(to))
                    BY <3>1, <3>2, <3>6
                <5> QED BY <5>1
            <4>2. Len(p) + j \in 1 .. Len(b) /\ Len(p) + j \in 0 .. Len(b)
                BY <3>1, <3>2, <4>1
            <4>3. PICK y : y = SubSeq(b, 1, Len(p) + j)
                OBVIOUS
            <4>4. /\ y \in Seq(Name) /\ Len(y) = Len(p) + j
                  /\ \A k \in 1 .. Len(p) + j : y[k] = b[k]
                BY <3>0, <4>2, <4>3, FirstNames
            <4>5. y \in DOMAIN fs
                BY <1>2, <3>0, <4>2, <4>3 DEF Closed
            <4>6. IsPrefix(p, y)
                <5>1. Len(p) <= Len(y)
                    BY <3>2, <4>1, <4>4
                <5>2. \A k \in 1 .. Len(p) : p[k] = b[k]
                    BY <1>2, <3>0, PrefixNames
                <5>3. \A k \in 1 .. Len(p) : p[k] = y[k]
                    <6>1. \A k \in 1 .. Len(p) : k \in 1 .. Len(p) + j
                        BY <3>2, <4>1
                    <6> QED BY <4>4, <5>2, <6>1
                <5> QED BY <1>2, <4>4, <5>1, <5>3, PrefixNames
            <4>7. PICK z \in Seq(Name), g \in Nat :
                      z = Moved(p, to, y) /\ Replaced(p, to, y, z, g)
                <5>1. y \in Seq(Name)
                    BY <4>4
                <5> QED BY <1>2, <4>6, <5>1, MovedNames
            <4>8. /\ Len(y) = Len(p) + g /\ Len(z) = Len(to) + g
                  /\ \A k \in 1 .. Len(to) : z[k] = to[k]
                  /\ \A k \in 1 .. g : z[Len(to) + k] = y[Len(p) + k]
                BY <4>7 DEF Replaced
            <4>9. g = j /\ Len(z) = n
                BY <3>2, <4>1, <4>4, <4>8
            <4>10. ASSUME NEW k \in 1 .. n PROVE z[k] = x[k]
                <5>1. CASE k <= Len(to)
                    BY <3>1, <3>2, <3>4, <4>8, <5>1
                <5>2. CASE k > Len(to)
                    <6>1. PICK i \in 1 .. j : k = Len(to) + i
                        <7>1. k - Len(to) \in 1 .. j /\ k = Len(to) + (k - Len(to))
                            BY <3>2, <4>1, <5>2
                        <7> QED BY <7>1
                    <6>2. z[k] = y[Len(p) + i]
                        BY <4>8, <4>9, <6>1
                    <6>3. y[Len(p) + i] = b[Len(p) + i]
                        <7>1. Len(p) + i \in 1 .. Len(p) + j
                            BY <3>2, <4>1, <6>1
                        <7> QED BY <4>4, <7>1
                    <6>4. i \in 1 .. h
                        BY <3>1, <4>1, <6>1
                    <6>5. m[k] = b[Len(p) + i]
                        BY <3>1, <6>1, <6>4
                    <6> QED BY <3>4, <6>2, <6>3, <6>5
                <5> QED BY <3>2, <5>1, <5>2
            <4>11. z = x
                BY <3>4, <4>9, <4>10, SameSeq
            <4> QED BY <1>5, <3>3, <4>5, <4>6, <4>7, <4>11
        <3> QED BY <3>1, <3>2, <3>5, <3>6
    <2>3. ASSUME NEW e \in D, NEW n \in 1 .. Len(e) PROVE SubSeq(e, 1, n) \in DOMAIN fs'
        BY <2>1, <2>2
    <2> QED BY <1>5, <2>3 DEF Closed
<1>9. Closed(stable')
    BY <1>1, <1>2, RestIsTree
<1>10. stable' \subseteq DOMAIN fs \ below
    BY <1>1 DEF TreeInv
<1>11. TreeInv'
    <2>1. \A e \in stable' : fs'[e] = Tree[e]
        BY <1>1, <1>5, <1>10 DEF TreeInv
    <2>2. stable' \subseteq DOMAIN fs'
        BY <1>5, <1>10
    <2> QED BY <1>7, <1>8, <1>9, <2>1, <2>2 DEF TreeInv
<1> QED BY <1>1, <1>2, <1>5, <1>6, <1>11

-----------------------------------------------------------------------------
(* The invariant holds at the start, and a step of the user keeps it.      *)

(* At the start all that is above an entry is there. *)
LEMMA TreeIsClosed == Closed(DOMAIN Tree) /\ DOMAIN Tree \in SUBSET Seq(Name)
<1>1. DOMAIN Tree \in SUBSET Seq(Name)
    BY ScanAssumption, PathSeq
<1>2. ASSUME NEW p \in DOMAIN Tree PROVE \A n \in 1 .. Len(p) : SubSeq(p, 1, n) \in DOMAIN Tree
    <2> DEFINE S == {j \in 0 .. Len(p) - 1 : SubSeq(p, 1, Len(p) - j) \notin DOMAIN Tree}
    <2>1. p \in Seq(Name) /\ Len(p) \in Nat
        BY <1>1
    <2>2. S \subseteq Nat
        BY <2>1
    <2>3. ASSUME NEW j \in S, \A i \in S : j <= i PROVE FALSE
        <3>1. j \in 0 .. Len(p) - 1 /\ SubSeq(p, 1, Len(p) - j) \notin DOMAIN Tree
            OBVIOUS
        <3>2. j # 0
            <4>1. SubSeq(p, 1, Len(p)) = p
                BY <2>1
            <4>2. j = 0 => Len(p) - j = Len(p)
                BY <2>1
            <4> QED BY <3>1, <4>1, <4>2
        <3>3. j - 1 \in 0 .. Len(p) - 1 /\ ~(j <= j - 1)
            BY <2>1, <3>1, <3>2
        <3>4. SubSeq(p, 1, Len(p) - (j - 1)) \in DOMAIN Tree
            BY <2>3, <3>3
        <3>5. PICK n \in 1 .. Len(p) - 1 : n = Len(p) - j
            BY <2>1, <3>1, <3>2
        <3>6. n + 1 = Len(p) - (j - 1) /\ n \in 0 .. Len(p) /\ n + 1 \in 0 .. Len(p)
            BY <2>1, <3>1, <3>5
        <3>7. PICK e \in DOMAIN Tree : e = SubSeq(p, 1, n + 1)
            BY <3>4, <3>6
        <3>8. e \in Seq(Name) /\ Len(e) = n + 1 /\ \A k \in 1 .. n + 1 : e[k] = p[k]
            BY <2>1, <3>6, <3>7, FirstNames
        <3>9. e # << >>
            BY <3>5, <3>8
        <3>10. PICK u : u = Up(e)
            OBVIOUS
        <3>11. u \in Seq(Name) /\ Len(u) = Len(e) - 1 /\ \A k \in 1 .. Len(e) - 1 : u[k] = e[k]
            BY <3>8, <3>9, <3>10, UpLast
        <3>12. PICK x : x = SubSeq(p, 1, n)
            OBVIOUS
        <3>13. x \in Seq(Name) /\ Len(x) = n /\ \A k \in 1 .. n : x[k] = p[k]
            BY <2>1, <3>6, <3>12, FirstNames
        <3>14. Len(e) - 1 = n
            BY <3>5, <3>8
        <3>15. u = x
            <4>1. Len(u) = Len(x)
                BY <3>11, <3>13, <3>14
            <4>2. \A k \in 1 .. n : u[k] = x[k]
                BY <3>5, <3>8, <3>11, <3>13, <3>14
            <4> QED BY <3>11, <3>13, <4>1, <4>2, SameSeq
        <3>16. u # << >>
            BY <3>5, <3>11, <3>14
        <3>17. u \in DOMAIN Tree
            BY <3>10, <3>16, ScanAssumption
        <3> QED BY <3>1, <3>5, <3>12, <3>15, <3>17
    <2>4. S = {}
        <3> HIDE DEF S
        <3> QED BY <2>2, <2>3, LeastNumber
    <2>5. ASSUME NEW n \in 1 .. Len(p) PROVE SubSeq(p, 1, n) \in DOMAIN Tree
        <3>1. Len(p) - n \in 0 .. Len(p) - 1 /\ Len(p) - (Len(p) - n) = n
            BY <2>1
        <3> QED BY <2>4, <3>1
    <2> QED BY <2>5
<1> QED BY <1>1, <1>2 DEF Closed

(* The invariant holds at the start: the whole tree waits below the input  *)
(* folder.                                                                 *)
LEMMA InitInv == ASSUME Init PROVE Inv
<1>0. /\ fs = Tree /\ edits = 0 /\ stable = DOMAIN Tree /\ pc = "pop"
      /\ recursiveFolders = << << >> >> /\ filesToProcess = << >>
      /\ dir = NoDir /\ at = NoDir /\ seen = {} /\ old = {} /\ again = {}
      /\ cachedDir = NoDir /\ made = {} /\ next = 1
    BY DEF Init
<1>1. << >> \in Seq(Name)
    OBVIOUS
<1>2. TypeOK
    <2>1. recursiveFolders \in Seq(Seq(Name)) /\ filesToProcess \in Seq(Seq(Name))
        BY <1>0, <1>1
    <2>2. next \in 1 .. Len(filesToProcess) + 1
        BY <1>0
    <2>3. \A p \in Range(recursiveFolders) \cup Range(filesToProcess) : p = << >>
        BY <1>0 DEF Range
    <2> QED BY <1>0, <2>1, <2>2, <2>3, ScanAssumption DEF TypeOK
<1>3. TreeInv
    BY <1>0, TreeIsClosed, ScanAssumption DEF TreeInv
<1>4. ReadInv
    BY <1>0 DEF ReadInv
<1>5. StackInv
    BY <1>0 DEF StackInv
<1>6. TokenInv
    <2>1. ASSUME NEW p \in stable PROVE Token(p)
        <3>1. p \in Seq(Name) /\ p # << >>
            BY <1>0, TreeIsClosed, ScanAssumption
        <3>2. Above(<< >>, p)
            BY <3>1 DEF Above
        <3>3. Waiting(p) = {1}
            BY <1>0, <3>2 DEF Waiting
        <3>4. Found(p) = {} /\ ~Reading(p)
            BY <1>0 DEF Found, Reading
        <3>5. OneToken(p) /\ SomeToken(p)
            BY <3>3, <3>4 DEF OneToken, SomeToken
        <3> QED BY <3>4, <3>5 DEF Token
    <2> QED BY <2>1 DEF TokenInv
<1>7. MadeInv
    BY <1>0 DEF MadeInv
<1> QED BY <1>2, <1>3, <1>4, <1>5, <1>6, <1>7 DEF Inv

(* A directory that is gone is below nothing. *)
LEMMA GoneIsNowhere ==
    ASSUME NEW p \in Seq(Name), p # << >>, NEW x \in Path \cup {Gone, NoDir}, IsPrefix(p, x)
    PROVE  x \in Path /\ x # << >>
<1> DEFINE T == Name \cup {"gone", "none"}
<1>1. p \in Seq(T) /\ Gone \in Seq(T) /\ NoDir \in Seq(T)
    BY DEF Gone, NoDir
<1>2. Path \subseteq Seq(T)
    BY PathSeq
<1>3. Len(p) <= Len(x) /\ \A k \in 1 .. Len(p) : p[k] = x[k]
    <2> HIDE DEF T
    <2> QED BY <1>1, <1>2, PrefixNames
<1>4. Len(p) \in Nat \ {0} /\ p[1] \in Name /\ x[1] = p[1]
    BY <1>3
<1>5. x # Gone /\ x # NoDir
    BY <1>4, ScanAssumption DEF Gone, NoDir
<1>6. x # << >>
    BY <1>3, <1>4
<1> QED BY <1>5, <1>6

(* The directory of an entry that nobody has touched is still where it was *)
(* opened, and has the entry.                                              *)
LEMMA StillThere ==
    ASSUME TypeOK, TreeInv, ReadInv, pc = "read", NEW p \in stable, Above(dir, p)
    PROVE  LET n == p[Len(dir) + 1]
               q == Append(dir, n)
           IN  /\ dir \in Seq(Name) /\ dir \in stable \cup {<< >>} /\ at = dir
               /\ n \in Name /\ n \in old /\ n \in Children(at)
               /\ q \in stable /\ q \in DOMAIN fs /\ Up(q) = at /\ Last(q) = n
               /\ q = p \/ Above(q, p)
<1> DEFINE n == p[Len(dir) + 1]
           q == Append(dir, n)
<1>0. FsType
    BY DEF TypeOK, FsType
<1>1. dir \in Seq(Name) /\ n \in old
    BY DEF ReadInv
<1>2. stable \in SUBSET Seq(Name) /\ Closed(stable) /\ p \in Seq(Name)
    BY <1>0, FsPaths
<1>3. dir \in stable \cup {<< >>} /\ q \in stable
    BY <1>1, <1>2, OnTheWay
<1>4. at = dir
    BY <1>3 DEF ReadInv
<1>5. n \in Name /\ Up(q) = dir /\ Last(q) = n /\ (q = p \/ Above(q, p))
    BY <1>1, <1>2, NextEntry
<1>6. q \in DOMAIN fs
    BY <1>3 DEF TreeInv
<1>7. n \in Children(at)
    BY <1>4, <1>5, <1>6 DEF Children
<1> QED BY <1>1, <1>3, <1>4, <1>5, <1>6, <1>7

(* A step that leaves the tokens of a file alone. *)
LEMMA SameToken ==
    ASSUME NEW p, Token(p), Waiting(p)' = Waiting(p), Found(p)' = Found(p),
           Reading(p)' <=> Reading(p), again' = again
    PROVE  Token(p)'
<1>1. (Once(p)' <=> Once(p)) /\ (Visible(p)' <=> Visible(p))
    BY DEF Once, Visible
<1>2. (OneToken(p)' <=> OneToken(p)) /\ (SomeToken(p)' <=> SomeToken(p))
    BY DEF OneToken, SomeToken
<1> QED BY <1>1, <1>2 DEF Token

(* What a step of the user must leave alone. *)
Harmless ==
    /\ pc \in {"pop", "read"} /\ edits' \in 0 .. MaxEdits
    /\ UNCHANGED <<pc, recursiveFolders, filesToProcess, dir, again, folders>>
    /\ FsType' /\ TreeInv' /\ ReadInv' /\ stable' \subseteq stable
    /\ seen' \subseteq Name /\ old' \subseteq Name
    /\ \A p \in stable' : pc = "read" /\ Above(dir, p) =>
           (p[Len(dir) + 1] \in seen' <=> p[Len(dir) + 1] \in seen)

(* A step that leaves it alone keeps the invariant. *)
LEMMA HarmlessInv == ASSUME Inv, Harmless PROVE Inv'
<1>1. /\ pc' = pc /\ recursiveFolders' = recursiveFolders /\ filesToProcess' = filesToProcess
      /\ dir' = dir /\ again' = again
      /\ cachedDir' = cachedDir /\ made' = made /\ next' = next
      /\ pc \in {"pop", "read"} /\ stable' \subseteq stable
    BY DEF Harmless, folders
<1>2. TypeOK'
    <2>1. at' \in Path \cup {Gone, NoDir}
        <3>1. at' \in DOMAIN fs' \cup {<< >>, Gone, NoDir}
            BY DEF Harmless, ReadInv
        <3>2. << >> \in Path
            <4>1. 0 \in 0 .. MaxDepth /\ << >> \in [1 .. 0 -> Name]
                BY ScanAssumption
            <4> QED BY <4>1 DEF Path
        <3> QED BY <3>1, <3>2 DEF Harmless, FsType
    <2>2. DOMAIN fs' \subseteq Path /\ \A p \in DOMAIN fs' : fs'[p] \in Kind
        BY DEF Harmless, FsType
    <2>3. edits' \in 0 .. MaxEdits /\ seen' \subseteq Name /\ old' \subseteq Name
        BY DEF Harmless
    <2>4. stable' \subseteq DOMAIN Tree
        BY <1>1 DEF Inv, TypeOK
    <2>5. /\ pc \in {"pop", "read", "folders", "compress"}
          /\ recursiveFolders \in Seq(Seq(Name)) /\ filesToProcess \in Seq(Seq(Name))
          /\ dir \in Seq(Plain) \cup {NoDir} /\ again \subseteq Seq(Plain)
          /\ \A p \in Range(recursiveFolders) \cup Range(filesToProcess) :
                p = << >> \/ Up(p) \in Seq(Plain)
          /\ cachedDir \in Seq(Part) \cup {NoDir} /\ made \subseteq Seq(Part)
          /\ next \in 1 .. Len(filesToProcess) + 1
        BY DEF Inv, TypeOK
    <2> QED BY <1>1, <2>1, <2>2, <2>3, <2>4, <2>5 DEF TypeOK
<1>3. StackInv'
    BY <1>1 DEF Inv, StackInv, Clear
<1>4. TokenInv'
    <2>1. ASSUME NEW p \in stable'
          PROVE  Waiting(p)' = Waiting(p) /\ Found(p)' = Found(p) /\ (Reading(p)' <=> Reading(p))
        BY <1>1 DEF Waiting, Found, Reading, Harmless
    <2>2. ASSUME NEW p \in stable', Tree[p] = "file" PROVE Token(p)'
        <3>1. Token(p)
            BY <1>1, <2>2 DEF Inv, TokenInv
        <3> QED BY <1>1, <2>1, <3>1, SameToken
    <2> QED BY <2>2 DEF TokenInv
<1>5. MadeInv'
    BY <1>1 DEF Inv, MadeInv
<1> QED BY <1>2, <1>3, <1>4, <1>5 DEF Inv, Harmless

(* A new entry is not mistaken for one that nobody has touched. *)
LEMMA AppearsFacts ==
    ASSUME TypeOK, TreeInv, ReadInv, NEW x \in Path, x # << >>, x \notin DOMAIN fs, Appears(x)
    PROVE  /\ seen' \subseteq Name
           /\ \A p \in stable : pc = "read" /\ Above(dir, p) =>
                 (p[Len(dir) + 1] \in seen' <=> p[Len(dir) + 1] \in seen)
<1>1. seen' = seen \/ (Up(x) = at /\ seen' = seen \ {Last(x)})
    BY DEF Appears
<1>2. seen' \subseteq Name
    BY <1>1 DEF TypeOK
<1>3. ASSUME NEW p \in stable, pc = "read", Above(dir, p), Up(x) = at
      PROVE  p[Len(dir) + 1] # Last(x)
    <2> DEFINE n == p[Len(dir) + 1]
               q == Append(dir, n)
    <2>1. /\ dir \in Seq(Name) /\ at = dir /\ n \in Name /\ q \in DOMAIN fs
        BY <1>3, StillThere
    <2>2. x \in Seq(Name)
        BY PathSeq
    <2>3. /\ Len(x) > 0 /\ Len(x) \in Nat /\ Len(Up(x)) = Len(x) - 1
          /\ \A k \in 1 .. Len(x) - 1 : Up(x)[k] = x[k]
          /\ Last(x) = x[Len(x)]
        BY <2>2, UpLast
    <2>4. SUFFICES ASSUME n = Last(x) PROVE FALSE
        OBVIOUS
    <2>5. /\ q \in Seq(Name) /\ Len(q) = Len(dir) + 1 /\ Len(dir) \in Nat
          /\ \A k \in 1 .. Len(dir) : q[k] = dir[k]
          /\ q[Len(dir) + 1] = n
        BY <2>1, AppendNames
    <2>6. dir = Up(x)
        BY <1>3, <2>1
    <2> HIDE DEF q, n
    <2>7. PICK l \in Nat : l = Len(dir)
        BY <2>5
    <2>8. Len(x) = l + 1 /\ Len(q) = l + 1 /\ x[l + 1] = n /\ q[l + 1] = n
        <3>1. l = Len(x) - 1
            BY <2>3, <2>6, <2>7
        <3>2. Len(x) = l + 1
            BY <2>3, <3>1
        <3> QED BY <2>3, <2>4, <2>5, <2>7, <3>2
    <2>9. \A k \in 1 .. l : q[k] = x[k]
        <3>1. l = Len(x) - 1
            BY <2>8, <2>3
        <3> QED BY <2>3, <2>5, <2>6, <2>7, <3>1
    <2>10. \A k \in 1 .. Len(q) : q[k] = x[k]
        <3>1. \A k \in 1 .. l + 1 : k \in 1 .. l \/ k = l + 1
            OBVIOUS
        <3> QED BY <2>8, <2>9, <3>1
    <2>11. q = x
        BY <2>2, <2>5, <2>8, <2>10, SameSeq
    <2> QED BY <2>1, <2>11
<1> QED BY <1>1, <1>2, <1>3

(* What is left of the tree is left in the open directory. *)
LEMMA KeptFacts ==
    ASSUME TypeOK, TreeInv, ReadInv, FsType', TreeInv', pc = "read",
           NEW p \in Path, p # << >>, stable' = {e \in stable : ~IsPrefix(p, e)},
           ~IsPrefix(p, at) => at' = at /\ old' = StillOld(fs')
    PROVE  /\ dir \in stable' \cup {<< >>} => at' = dir
           /\ \A s \in stable' : Above(dir, s) => s[Len(dir) + 1] \in old'
<1>1. dir \in Seq(Name) /\ p \in Seq(Name)
    BY PathSeq DEF ReadInv
<1>2. ~IsPrefix(p, << >>)
    <2>1. << >> \in Seq(Name) /\ Len(<< >>) = 0 /\ Len(p) \in Nat /\ Len(p) # 0
        BY <1>1
    <2> QED BY <2>1 DEF IsPrefix
<1>3. ASSUME dir \in stable' \cup {<< >>}
      PROVE  at = dir /\ at' = at /\ old' = StillOld(fs')
    <2>1. at = dir
        BY <1>3 DEF ReadInv
    <2>2. ~IsPrefix(p, at)
        BY <1>2, <1>3, <2>1
    <2> QED BY <2>1, <2>2
<1>4. ASSUME NEW s \in stable', Above(dir, s)
      PROVE  s[Len(dir) + 1] \in old'
    <2> DEFINE n == s[Len(dir) + 1]
               q == Append(dir, n)
    <2>1. stable' \in SUBSET Seq(Name) /\ Closed(stable') /\ stable' \subseteq DOMAIN fs'
        BY PathSeq DEF FsType, TreeInv
    <2>2. dir \in stable' \cup {<< >>} /\ q \in stable'
        BY <1>1, <1>4, <2>1, OnTheWay
    <2>3. s \in stable
        OBVIOUS
    <2>4. n \in old /\ Up(q) = at /\ Last(q) = n
        BY <1>4, <2>3, StillThere
    <2>5. old' = StillOld(fs')
        BY <1>3, <2>2
    <2> HIDE DEF q, n
    <2>6. n \in old'
        BY <2>1, <2>2, <2>4, <2>5 DEF StillOld
    <2> QED BY <2>6 DEF n
<1> QED BY <1>3, <1>4

(* Making an entry is harmless. *)
LEMMA CreateHarmless ==
    ASSUME Inv, NEW p \in Path, NEW kind \in {"file", "dir"}, Create(p, kind)
    PROVE  Harmless
<1>0. FsType /\ TypeOK /\ TreeInv /\ ReadInv
    BY DEF Inv, TypeOK, FsType
<1>1. /\ pc \in {"pop", "read"} /\ edits < MaxEdits /\ edits' = edits + 1
      /\ p # << >> /\ p \notin DOMAIN fs /\ Appears(p)
      /\ UNCHANGED <<stable, pc, recursiveFolders, filesToProcess, dir, at, old, again, folders>>
      /\ DOMAIN fs' = DOMAIN fs \cup {p}
    BY DEF Create, Edit
<1>2. FsType' /\ TreeInv'
    BY <1>0, CreateTree
<1>3. /\ seen' \subseteq Name
      /\ \A s \in stable : pc = "read" /\ Above(dir, s) =>
             (s[Len(dir) + 1] \in seen' <=> s[Len(dir) + 1] \in seen)
    BY <1>0, <1>1, AppearsFacts
<1>4. edits' \in 0 .. MaxEdits
    BY <1>0, <1>1, ScanAssumption DEF TypeOK
<1>5. ReadInv'
    BY <1>0, <1>1 DEF ReadInv, Clear
<1>6. old' \subseteq Name
    BY <1>0, <1>1 DEF TypeOK
<1> QED BY <1>1, <1>2, <1>3, <1>4, <1>5, <1>6 DEF Harmless

(* Deleting an entry is harmless. *)
LEMMA DeleteHarmless ==
    ASSUME Inv, NEW p \in Path, Delete(p)
    PROVE  Harmless
<1>0. FsType /\ TypeOK /\ TreeInv /\ ReadInv
    BY DEF Inv, TypeOK, FsType
<1>1. /\ pc \in {"pop", "read"} /\ edits < MaxEdits /\ edits' = edits + 1
      /\ at' = (IF pc = "read" /\ IsPrefix(p, at) THEN Gone ELSE at)
      /\ old' = (IF pc = "read" THEN StillOld(fs') ELSE old)
      /\ UNCHANGED <<pc, recursiveFolders, filesToProcess, dir, seen, again, folders>>
    BY DEF Delete, Edit
<1>2. /\ FsType' /\ TreeInv' /\ p # << >>
      /\ stable' = {e \in stable : ~IsPrefix(p, e)}
      /\ DOMAIN fs' = {e \in DOMAIN fs : ~IsPrefix(p, e)}
    BY <1>0, DeleteTree
<1>3. edits' \in 0 .. MaxEdits
    BY <1>0, <1>1, ScanAssumption DEF TypeOK
<1>4. seen' \subseteq Name /\ old' \subseteq Name
    BY <1>0, <1>1 DEF TypeOK, StillOld
<1>5. ReadInv'
    <2>1. CASE pc # "read"
        BY <1>0, <1>1, <2>1 DEF ReadInv
    <2>2. CASE pc = "read"
        <3>1. /\ dir \in stable' \cup {<< >>} => at' = dir
              /\ \A s \in stable' : Above(dir, s) => s[Len(dir) + 1] \in old'
            BY <1>0, <1>1, <1>2, <2>2, KeptFacts
        <3>2. at' \in DOMAIN fs' \cup {<< >>, Gone}
            BY <1>0, <1>1, <1>2, <2>2 DEF ReadInv
        <3>3. /\ dir \in Seq(Name)
              /\ dir \in stable' => Clear(dir)
            BY <1>0, <1>2, <2>2 DEF ReadInv
        <3> QED BY <1>1, <2>2, <3>1, <3>2, <3>3 DEF ReadInv, Clear
    <2> QED BY <2>1, <2>2
<1> QED BY <1>1, <1>2, <1>3, <1>4, <1>5 DEF Harmless

(* Moving an entry is harmless. *)
LEMMA MoveHarmless ==
    ASSUME Inv, NEW p \in Path, NEW to \in Path, Move(p, to)
    PROVE  Harmless
<1>0. FsType /\ TypeOK /\ TreeInv /\ ReadInv
    BY DEF Inv, TypeOK, FsType
<1>1. /\ pc \in {"pop", "read"} /\ edits < MaxEdits /\ edits' = edits + 1
      /\ to # << >> /\ to \notin DOMAIN fs /\ Appears(to)
      /\ at' = (IF pc = "read" /\ IsPrefix(p, at) THEN Moved(p, to, at) ELSE at)
      /\ old' = (IF pc = "read" /\ ~IsPrefix(p, at) THEN StillOld(fs') ELSE old)
      /\ UNCHANGED <<pc, recursiveFolders, filesToProcess, dir, again, folders>>
    BY DEF Move, Edit
<1>2. /\ FsType' /\ TreeInv' /\ p # << >>
      /\ stable' = {e \in stable : ~IsPrefix(p, e)}
      /\ {e \in DOMAIN fs : ~IsPrefix(p, e)} \subseteq DOMAIN fs'
      /\ \A e \in DOMAIN fs : IsPrefix(p, e) => Moved(p, to, e) \in DOMAIN fs'
    BY <1>0, MoveTree
<1>3. edits' \in 0 .. MaxEdits
    BY <1>0, <1>1, ScanAssumption DEF TypeOK
<1>4. old' \subseteq Name
    BY <1>0, <1>1 DEF TypeOK, StillOld
<1>5. /\ seen' \subseteq Name
      /\ \A s \in stable : pc = "read" /\ Above(dir, s) =>
             (s[Len(dir) + 1] \in seen' <=> s[Len(dir) + 1] \in seen)
    BY <1>0, <1>1, AppearsFacts
<1>6. ReadInv'
    <2>1. CASE pc # "read"
        BY <1>0, <1>1, <2>1 DEF ReadInv
    <2>2. CASE pc = "read"
        <3>1. /\ dir \in stable' \cup {<< >>} => at' = dir
              /\ \A s \in stable' : Above(dir, s) => s[Len(dir) + 1] \in old'
            BY <1>0, <1>1, <1>2, <2>2, KeptFacts
        <3>2. at' \in DOMAIN fs' \cup {<< >>, Gone}
            <4>1. CASE IsPrefix(p, at)
                <5>1. at \in Path /\ at # << >>
                    BY <1>0, <1>2, <4>1, GoneIsNowhere, PathSeq DEF TypeOK
                <5>2. at # Gone
                    <6>1. at \in Seq(Name) /\ Len(at) \in Nat \ {0} /\ at[1] \in Name
                        BY <5>1, PathSeq
                    <6> QED BY <6>1, ScanAssumption DEF Gone
                <5>3. at \in DOMAIN fs
                    BY <1>0, <2>2, <5>1, <5>2 DEF ReadInv
                <5> QED BY <1>1, <1>2, <2>2, <4>1, <5>3
            <4>2. CASE ~IsPrefix(p, at)
                BY <1>0, <1>1, <1>2, <2>2, <4>2 DEF ReadInv
            <4> QED BY <4>1, <4>2
        <3>3. /\ dir \in Seq(Name)
              /\ dir \in stable' => Clear(dir)
            BY <1>0, <1>2, <2>2 DEF ReadInv
        <3> QED BY <1>1, <2>2, <3>1, <3>2, <3>3 DEF ReadInv, Clear
    <2> QED BY <2>1, <2>2
<1>7. \A s \in stable' : pc = "read" /\ Above(dir, s) =>
             (s[Len(dir) + 1] \in seen' <=> s[Len(dir) + 1] \in seen)
    BY <1>2, <1>5
<1> QED BY <1>1, <1>2, <1>3, <1>4, <1>5, <1>6, <1>7 DEF Harmless

(* Whatever the user does keeps the invariant. *)
LEMMA UserInv == ASSUME Inv, User PROVE Inv'
<1>0. DOMAIN fs \subseteq Path
    BY DEF Inv, TypeOK
<1>1. Harmless
    BY <1>0, CreateHarmless, DeleteHarmless, MoveHarmless DEF User
<1> QED BY <1>1, HarmlessInv

-----------------------------------------------------------------------------
(* The steps of the scan keep the invariant.                               *)

(* The names in a directory are names. *)
LEMMA ChildrenNames ==
    ASSUME FsType, TreeInv, NEW d
    PROVE  Children(d) \subseteq Name
<1>1. ASSUME NEW p \in DOMAIN fs PROVE Last(p) \in Name
    <2>1. p \in Seq(Name) /\ p # << >>
        BY FsPaths
    <2> QED BY <2>1, UpLast
<1> QED BY <1>1 DEF Children

(* Of the directories on the stack the last one is taken away. *)
LEMMA StackFront ==
    ASSUME NEW rf \in Seq(Seq(Name)), rf # << >>
    PROVE  \E l \in Nat \ {0} :
              /\ l = Len(rf) /\ DOMAIN rf = 1 .. l
              /\ Last(rf) = rf[l] /\ Last(rf) \in Seq(Name)
              /\ Front(rf) \in Seq(Seq(Name)) /\ DOMAIN Front(rf) = 1 .. l - 1
              /\ \A k \in 1 .. l - 1 : Front(rf)[k] = rf[k]
<1>1. Len(rf) \in Nat \ {0} /\ DOMAIN rf = 1 .. Len(rf)
    OBVIOUS
<1>2. /\ Front(rf) \in Seq(Seq(Name)) /\ Len(Front(rf)) = Len(rf) - 1
      /\ \A k \in 1 .. Len(rf) - 1 : Front(rf)[k] = rf[k]
      /\ Last(rf) \in Seq(Name) /\ Last(rf) = rf[Len(rf)]
    BY UpLast DEF Up
<1>3. DOMAIN Front(rf) = 1 .. Len(rf) - 1
    BY <1>1, <1>2
<1> QED BY <1>1, <1>2, <1>3

(* A file that nobody has touched, below directories that can be read.     *)
LEMMA WayIsReadable ==
    ASSUME FsType, TreeInv, NEW p \in stable, Visible(p), NEW d \in Seq(Name), Above(d, p)
    PROVE  Readable(d)
<1>1. stable \in SUBSET Seq(Name) /\ Closed(stable) /\ p \in Seq(Name)
    BY FsPaths
<1>2. d \in stable \cup {<< >>}
    BY <1>1, OnTheWay
<1>3. CASE d = << >>
    BY <1>3 DEF Readable
<1>4. CASE d # << >>
    <2>1. d = SubSeq(p, 1, Len(d))
        BY <1>1, NextEntry
    <2>2. Len(d) \in 1 .. Len(p) - 1
        BY <1>1, <1>4 DEF Above
    <2>3. Tree[SubSeq(p, 1, Len(d))] = "dir"
        BY <2>2 DEF Visible
    <2>4. Tree[d] = "dir"
        BY <2>1, <2>3
    <2>5. d \in DOMAIN fs /\ fs[d] = Tree[d]
        BY <1>2, <1>4 DEF TreeInv
    <2> QED BY <2>4, <2>5 DEF Readable
<1> QED BY <1>3, <1>4

(* The directory that is opened is clear if nobody has touched it. *)
LEMMA OpenedIsClear ==
    ASSUME FsType, TreeInv, NEW d \in Seq(Name), Straight(d),
           d # << >> /\ Up(d) \in stable => Clear(Up(d)),
           Opened(d) \in stable, Readable(Opened(d))
    PROVE  Clear(Opened(d))
<1>1. PICK e \in Seq(Plain) : e = Opened(d)
    BY OpenedPath
<1>2. /\ e \in Seq(Name) /\ e \in stable /\ e # << >> /\ Tree[e] = "dir"
      /\ stable \in SUBSET Seq(Name) /\ Closed(stable)
    BY <1>1, FsPaths, PlainNames DEF TreeInv, Readable
<1>3. CASE e = Up(d) /\ d # << >>
    BY <1>1, <1>2, <1>3
<1>4. CASE d # << >> /\ Up(e) = Up(d)
    <2>1. ASSUME Up(e) # << >> PROVE Clear(Up(e))
        <3>1. Up(e) \in Seq(Name) /\ Above(Up(e), e)
            BY <1>2, UpAbove
        <3>2. Up(e) \in stable
            BY <1>2, <2>1, <3>1, OnTheWay
        <3> QED BY <1>4, <3>2
    <2>2. Clear(e)
        BY <1>2, <2>1, ClearBelow
    <2> QED BY <1>1, <2>2
<1>5. (e = Up(d) /\ d # << >>) \/ (d # << >> /\ Up(e) = Up(d))
    <2>1. CASE e = d
        BY <1>2, <2>1
    <2>2. CASE e # d
        <3>1. d # << >> /\ (e = Up(d) \/ \E n \in Plain : e = Append(Up(d), n))
            BY <1>1, <2>2, OpenedPath
        <3>2. ASSUME NEW n \in Plain, e = Append(Up(d), n) PROVE Up(e) = Up(d)
            <4>1. Up(d) \in Seq(Name) /\ n \in Name
                BY <3>1, UpLast, PlainNames
            <4> QED BY <3>2, <4>1, UpOfAppend
        <3> QED BY <3>1, <3>2
    <2> QED BY <2>1, <2>2
<1> QED BY <1>3, <1>4, <1>5

(* Opening a directory turns the token of what is below it into one of     *)
(* what is read.  A directory that is opened for another one is in again,  *)
(* so that more than one token of what is below it is allowed.             *)
LEMMA OpenDirInv == ASSUME Inv, OpenDir PROVE Inv'
<1> DEFINE d == Last(recursiveFolders)
           e == Opened(d)
<1>0. FsType /\ TypeOK /\ TreeInv /\ ReadInv /\ StackInv /\ TokenInv /\ MadeInv
    BY DEF Inv, TypeOK, FsType
<1>1. /\ pc = "pop" /\ recursiveFolders # << >>
      /\ recursiveFolders' = Front(recursiveFolders)
      /\ IF Readable(e)
         THEN /\ pc' = "read" /\ dir' = e /\ at' = e /\ seen' = {} /\ old' = Children(e)
              /\ again' = again \cup ({e} \ {d})
         ELSE UNCHANGED <<pc, dir, at, seen, old, again>>
      /\ fs' = fs /\ edits' = edits /\ stable' = stable /\ filesToProcess' = filesToProcess
      /\ cachedDir' = cachedDir /\ made' = made /\ next' = next
    BY DEF OpenDir, Open, folders
<1>2. PICK l \in Nat \ {0} :
          /\ l = Len(recursiveFolders) /\ DOMAIN recursiveFolders = 1 .. l
          /\ d = recursiveFolders[l] /\ d \in Seq(Name)
          /\ recursiveFolders' \in Seq(Seq(Name)) /\ DOMAIN recursiveFolders' = 1 .. l - 1
          /\ \A k \in 1 .. l - 1 : recursiveFolders'[k] = recursiveFolders[k]
    BY <1>0, <1>1, StackFront DEF TypeOK
<1> HIDE DEF d
<1>l. Lists /\ l \in DOMAIN recursiveFolders
      /\ \A k \in DOMAIN recursiveFolders' :
            k \in DOMAIN recursiveFolders /\ recursiveFolders'[k] = recursiveFolders[k]
    <2>1. Lists
        BY <1>0, StraightLists DEF TypeOK
    <2>2. l \in DOMAIN recursiveFolders
        BY <1>2
    <2>3. \A k \in DOMAIN recursiveFolders' :
             k \in DOMAIN recursiveFolders /\ recursiveFolders'[k] = recursiveFolders[k]
        BY <1>2
    <2> QED BY <2>1, <2>2, <2>3
<1>s. Straight(d)
    BY <1>2, <1>l DEF Lists
<1>e. /\ e \in Seq(Plain) /\ e \in Seq(Name)
      /\ d \in Seq(Plain) => e = d
    BY <1>2, <1>s, OpenedPath, PlainNames
<1>c. ASSUME e \in stable, Readable(e) PROVE Clear(e)
    <2>1. d # << >> /\ Up(d) \in stable => Clear(Up(d))
        BY <1>0, <1>2, <1>l DEF StackInv
    <2> QED BY <1>0, <1>2, <1>s, <1>c, <2>1, OpenedIsClear
<1> HIDE DEF e
<1>3. Readable(e) => e = << >> \/ (e \in DOMAIN fs /\ fs[e] = "dir")
    BY DEF Readable
<1>4. TypeOK'
    <2>1. pc' \in {"pop", "read", "folders", "compress"} /\ dir' \in Seq(Plain) \cup {NoDir}
          /\ again' \subseteq Seq(Plain)
        BY <1>0, <1>1, <1>e DEF TypeOK
    <2>2. at' \in Path \cup {Gone, NoDir}
        <3>1. << >> \in Path
            <4>1. 0 \in 0 .. MaxDepth /\ << >> \in [1 .. 0 -> Name]
                BY ScanAssumption
            <4> QED BY <4>1 DEF Path
        <3> QED BY <1>0, <1>1, <1>3, <3>1 DEF TypeOK
    <2>3. seen' \subseteq Name /\ old' \subseteq Name
        BY <1>0, <1>1, ChildrenNames DEF TypeOK
    <2>4. \A p \in Range(recursiveFolders') \cup Range(filesToProcess') :
              p = << >> \/ Up(p) \in Seq(Plain)
        BY <1>1, <1>l DEF Lists, Straight, Range
    <2> QED BY <1>0, <1>1, <1>2, <2>1, <2>2, <2>3, <2>4 DEF TypeOK
<1>5. TreeInv'
    BY <1>0, <1>1 DEF TreeInv
<1>6. ReadInv'
    <2>1. CASE ~Readable(e)
        BY <1>0, <1>1, <2>1 DEF ReadInv
    <2>2. CASE Readable(e)
        <3>1. e \in stable => Clear(e)
            BY <1>c, <2>2
        <3>2. ASSUME NEW p \in stable, Above(e, p)
              PROVE  p[Len(e) + 1] \in Children(e)
            <4>1. stable \in SUBSET Seq(Name) /\ Closed(stable) /\ p \in Seq(Name)
                BY <1>0, FsPaths
            <4>2. PICK q : q = Append(e, p[Len(e) + 1])
                OBVIOUS
            <4>3. q \in DOMAIN fs
                BY <1>0, <1>e, <3>2, <4>1, <4>2, OnTheWay DEF TreeInv
            <4>4. Up(q) = e /\ Last(q) = p[Len(e) + 1]
                BY <1>e, <3>2, <4>1, <4>2, NextEntry
            <4> QED BY <4>3, <4>4 DEF Children
        <3> QED BY <1>1, <1>3, <1>e, <2>2, <3>1, <3>2 DEF ReadInv, Clear
    <2> QED BY <2>1, <2>2
<1>7. StackInv'
    <2>1. ASSUME NEW k \in DOMAIN recursiveFolders', NEW r, r = recursiveFolders'[k],
                 r # << >>, Up(r) \in stable
          PROVE  Clear(Up(r))
        <3>1. k \in DOMAIN recursiveFolders /\ r = recursiveFolders[k]
            BY <1>l, <2>1
        <3> QED BY <1>0, <2>1, <3>1 DEF StackInv
    <2>2. pc' \notin {"folders", "compress"}
        BY <1>1
    <2> QED BY <1>1, <2>1, <2>2 DEF StackInv, Clear
<1>8. TokenInv'
    <2>0. ASSUME NEW p PROVE Found(p)' = Found(p) /\ ~Reading(p)
        BY <1>1 DEF Found, Reading
    <2>1. ASSUME NEW p \in stable PROVE Waiting(p)' = Waiting(p) \ {l}
        <3>1. \A k \in 1 .. l : k # l <=> k \in 1 .. l - 1
            BY <1>2
        <3> QED BY <1>2, <3>1 DEF Waiting
    <2>2. ASSUME NEW p \in stable PROVE l \in Waiting(p) <=> Above(d, p)
        BY <1>2 DEF Waiting
    <2>o. ASSUME NEW p PROVE Once(p)' => Once(p)
        BY <1>1 DEF Once
    <2>3. ASSUME NEW p \in stable, Tree[p] = "file", Visible(p)
          PROVE  SomeToken(p)' /\ (Once(p)' => OneToken(p)')
        <3>p. p \in Seq(Name)
            BY <1>0, FsPaths
        <3>0. SomeToken(p) /\ (Once(p) => OneToken(p))
            BY <1>0, <2>3 DEF TokenInv, Token
        <3>1. CASE Above(d, p)
            <4>0. e = d
                BY <1>2, <1>e, <2>3, <3>p, <3>1, VisibleWay
            <4>1. Readable(e)
                BY <1>0, <1>2, <2>3, <3>1, <4>0, WayIsReadable
            <4>2. Reading(p)'
                BY <1>1, <3>1, <4>0, <4>1 DEF Reading
            <4>3. ASSUME Once(p)' PROVE OneToken(p)'
                <5>1. Waiting(p) = {l} /\ Found(p) = {}
                    BY <2>0, <2>2, <2>o, <3>0, <3>1, <4>3 DEF OneToken
                <5>2. Waiting(p)' = {}
                    BY <2>1, <5>1
                <5> QED BY <2>0, <4>2, <5>1, <5>2 DEF OneToken
            <4> QED BY <4>2, <4>3 DEF SomeToken
        <3>2. CASE ~Above(d, p)
            <4>1. Waiting(p)' = Waiting(p)
                BY <2>1, <2>2, <3>2
            <4>2. SomeToken(p)'
                BY <2>0, <3>0, <4>1 DEF SomeToken
            <4>3. ASSUME Once(p)' PROVE OneToken(p)'
                <5>1. OneToken(p)
                    BY <2>o, <3>0, <4>3
                <5>2. ~Reading(p)'
                    <6>1. CASE e = d \/ ~Readable(e)
                        BY <1>1, <3>2, <6>1 DEF Reading
                    <6>2. CASE e # d /\ Readable(e)
                        <7>1. e \in again'
                            BY <1>1, <6>2
                        <7>2. ~IsPrefix(e, p)
                            BY <4>3, <7>1 DEF Once
                        <7>3. ~Above(e, p)
                            BY <1>e, <3>p, <7>2, AbovePrefix
                        <7> QED BY <1>1, <6>2, <7>3 DEF Reading
                    <6> QED BY <6>1, <6>2
                <5> QED BY <2>0, <4>1, <5>1, <5>2 DEF OneToken
            <4> QED BY <4>2, <4>3
        <3> QED BY <3>1, <3>2
    <2>4. ASSUME NEW p \in stable, Tree[p] = "file", ~Visible(p) PROVE Found(p)' = {}
        BY <1>0, <2>0, <2>4 DEF TokenInv, Token
    <2>5. ASSUME NEW p \in stable, Tree[p] = "file" PROVE Token(p)'
        BY <2>3, <2>4, <2>5 DEF Token, Visible
    <2> QED BY <1>1, <2>5 DEF TokenInv
<1>9. MadeInv'
    BY <1>0, <1>1 DEF MadeInv
<1> QED BY <1>4, <1>5, <1>6, <1>7, <1>8, <1>9 DEF Inv

(* When the directory is closed, nothing that nobody has touched is left   *)
(* in it.                                                                  *)
LEMMA CloseDirInv == ASSUME Inv, CloseDir PROVE Inv'
<1>0. FsType /\ TypeOK /\ TreeInv /\ ReadInv /\ StackInv /\ TokenInv /\ MadeInv
    BY DEF Inv, TypeOK, FsType
<1>1. /\ pc = "read" /\ old \cap Children(at) \subseteq seen
      /\ pc' = "pop" /\ dir' = NoDir /\ at' = NoDir /\ seen' = {} /\ old' = {}
      /\ fs' = fs /\ edits' = edits /\ stable' = stable
      /\ recursiveFolders' = recursiveFolders /\ filesToProcess' = filesToProcess
      /\ cachedDir' = cachedDir /\ made' = made /\ next' = next /\ again' = again
    BY DEF CloseDir, folders
<1>2. TypeOK' /\ TreeInv' /\ ReadInv'
    BY <1>0, <1>1 DEF TypeOK, TreeInv, ReadInv, Clear
<1>3. StackInv'
    BY <1>0, <1>1 DEF StackInv, Clear
<1>4. ASSUME NEW p \in stable
      PROVE  ~Reading(p) /\ ~Reading(p)' /\ Waiting(p)' = Waiting(p) /\ Found(p)' = Found(p)
    <2>1. ~Reading(p)
        BY <1>0, <1>1, StillThere DEF Reading
    <2> QED BY <1>1, <2>1 DEF Reading, Waiting, Found
<1>5. TokenInv'
    BY <1>0, <1>1, <1>4, SameToken DEF TokenInv
<1>6. MadeInv'
    BY <1>0, <1>1 DEF MadeInv
<1> QED BY <1>2, <1>3, <1>5, <1>6 DEF Inv

(* The end of the scan, with an empty stack. *)
LEMMA ScanDoneInv == ASSUME Inv, ScanDone PROVE Inv'
<1>0. FsType /\ TypeOK /\ TreeInv /\ ReadInv /\ StackInv /\ TokenInv /\ MadeInv
    BY DEF Inv, TypeOK, FsType
<1>1. /\ pc = "pop" /\ recursiveFolders = << >> /\ pc' = "folders"
      /\ fs' = fs /\ edits' = edits /\ stable' = stable
      /\ recursiveFolders' = recursiveFolders /\ filesToProcess' = filesToProcess
      /\ dir' = dir /\ at' = at /\ seen' = seen /\ old' = old
      /\ cachedDir' = cachedDir /\ made' = made /\ next' = next /\ again' = again
    BY DEF ScanDone, folders
<1>2. TypeOK' /\ TreeInv' /\ ReadInv'
    BY <1>0, <1>1 DEF TypeOK, TreeInv, ReadInv, Clear
<1>3. StackInv'
    BY <1>0, <1>1 DEF StackInv, Clear
<1>4. ASSUME NEW p \in stable
      PROVE  ~Reading(p) /\ ~Reading(p)' /\ Waiting(p)' = Waiting(p) /\ Found(p)' = Found(p)
    BY <1>1 DEF Reading, Waiting, Found
<1>5. TokenInv'
    BY <1>0, <1>1, <1>4, SameToken DEF TokenInv
<1>6. MadeInv'
    BY <1>0, <1>1 DEF MadeInv
<1> QED BY <1>2, <1>3, <1>5, <1>6 DEF Inv

(* s with q behind it: q is at the position l. *)
Longer(s, q, l) ==
    /\ Append(s, q) \in Seq(Seq(Name))
    /\ DOMAIN Append(s, q) = DOMAIN s \cup {l} /\ l \notin DOMAIN s
    /\ \A k \in DOMAIN s : Append(s, q)[k] = s[k]
    /\ Append(s, q)[l] = q

(* A directory that is pushed, or a file that is added, is the last one of *)
(* its list.                                                               *)
LEMMA ListAppend ==
    ASSUME NEW s \in Seq(Seq(Name)), NEW q \in Seq(Name)
    PROVE  \E l \in Nat \ {0} : Longer(s, q, l)
<1>1. Len(s) \in Nat /\ DOMAIN s = 1 .. Len(s)
    OBVIOUS
<1>2. /\ Append(s, q) \in Seq(Seq(Name)) /\ Len(Append(s, q)) = Len(s) + 1
      /\ \A k \in 1 .. Len(s) : Append(s, q)[k] = s[k]
      /\ Append(s, q)[Len(s) + 1] = q
    BY AppendNames
<1>3. DOMAIN Append(s, q) = 1 .. Len(s) + 1
    BY <1>1, <1>2
<1>4. /\ Len(s) + 1 \in Nat \ {0} /\ 1 .. Len(s) + 1 = (1 .. Len(s)) \cup {Len(s) + 1}
      /\ Len(s) + 1 \notin 1 .. Len(s)
    BY <1>1
<1>5. Longer(s, q, Len(s) + 1)
    BY <1>1, <1>2, <1>3, <1>4 DEF Longer
<1> QED BY <1>4, <1>5

(* An entry lies on the way to a path exactly if its directory is above    *)
(* the path and the path goes on with the name of the entry.               *)
LEMMA OnWayIff ==
    ASSUME NEW T, NEW d \in Seq(T), NEW n \in T, NEW p \in Seq(T)
    PROVE  (Append(d, n) = p \/ Above(Append(d, n), p)) <=>
               (Above(d, p) /\ p[Len(d) + 1] = n)
<1>1. PICK q : q = Append(d, n)
    OBVIOUS
<1>2. PICK l \in Nat : l = Len(d)
    OBVIOUS
<1>3. /\ q \in Seq(T) /\ Len(q) = l + 1
      /\ \A k \in 1 .. l : q[k] = d[k]
      /\ q[l + 1] = n
    BY <1>1, <1>2, AppendNames
<1>4. ASSUME q = p \/ Above(q, p) PROVE Above(d, p) /\ p[l + 1] = n
    <2>1. Len(q) <= Len(p) /\ \A k \in 1 .. l + 1 : q[k] = p[k]
        BY <1>3, <1>4 DEF Above
    <2>2. l < Len(p) /\ \A k \in 1 .. l : d[k] = p[k]
        BY <1>3, <2>1
    <2>3. p[l + 1] = n
        BY <1>3, <2>1
    <2> QED BY <1>2, <2>2, <2>3 DEF Above
<1>5. ASSUME Above(d, p), p[l + 1] = n PROVE q = p \/ Above(q, p)
    BY <1>1, <1>2, <1>5, NextEntry
<1> QED BY <1>1, <1>2, <1>4, <1>5

(* Reading an entry turns the token of what is below it, or of the entry   *)
(* itself, and no other one.                                               *)
LEMMA ReadEntryInv == ASSUME Inv, NEW n \in Name, ReadEntry(n) PROVE Inv'
<1> DEFINE q == Append(dir, n)
<1>0. FsType /\ TypeOK /\ TreeInv /\ ReadInv /\ StackInv /\ TokenInv /\ MadeInv
    BY DEF Inv, TypeOK, FsType
<1>1. /\ pc = "read" /\ n \in Children(at) /\ n \notin seen /\ seen' = seen \cup {n}
      /\ IF IsDir(Append(at, n))
         THEN recursiveFolders' = Append(recursiveFolders, q) /\ filesToProcess' = filesToProcess
         ELSE filesToProcess' = Append(filesToProcess, q) /\ recursiveFolders' = recursiveFolders
      /\ fs' = fs /\ edits' = edits /\ stable' = stable /\ pc' = pc
      /\ dir' = dir /\ at' = at /\ old' = old /\ again' = again
      /\ cachedDir' = cachedDir /\ made' = made /\ next' = next
    BY DEF ReadEntry, folders
<1>2. dir \in Seq(Name) /\ dir \in Seq(Plain)
    <2>1. dir \in Seq(Name)
        BY <1>0, <1>1 DEF ReadInv
    <2>2. dir # NoDir
        BY <2>1, NoDirIsNoPath
    <2> QED BY <1>0, <2>1, <2>2 DEF TypeOK
<1>3. q \in Seq(Name) /\ q # << >> /\ Up(q) = dir
    BY <1>2, AppendNames, UpOfAppend
<1>4. /\ recursiveFolders \in Seq(Seq(Name)) /\ filesToProcess \in Seq(Seq(Name))
      /\ stable \in SUBSET Seq(Name) /\ Closed(stable)
    BY <1>0, FsPaths DEF TypeOK
<1> HIDE DEF q
<1>l. PICK l \in Nat \ {0} : Longer(recursiveFolders, q, l)
    BY <1>3, <1>4, ListAppend
<1>5. /\ Append(recursiveFolders, q) \in Seq(Seq(Name))
      /\ DOMAIN Append(recursiveFolders, q) = DOMAIN recursiveFolders \cup {l}
      /\ l \notin DOMAIN recursiveFolders
      /\ \A k \in DOMAIN recursiveFolders :
            Append(recursiveFolders, q)[k] = recursiveFolders[k]
      /\ Append(recursiveFolders, q)[l] = q
    BY <1>l DEF Longer
<1>m. PICK m \in Nat \ {0} : Longer(filesToProcess, q, m)
    BY <1>3, <1>4, ListAppend
<1>6. /\ Append(filesToProcess, q) \in Seq(Seq(Name))
      /\ DOMAIN Append(filesToProcess, q) = DOMAIN filesToProcess \cup {m}
      /\ m \notin DOMAIN filesToProcess
      /\ \A k \in DOMAIN filesToProcess :
            Append(filesToProcess, q)[k] = filesToProcess[k]
      /\ Append(filesToProcess, q)[m] = q
    BY <1>m DEF Longer
<1>7. ASSUME NEW p \in stable, Above(dir, p), p[Len(dir) + 1] = n
      PROVE  at = dir /\ q \in stable /\ (q = p \/ Above(q, p)) /\ dir \in stable \cup {<< >>}
    BY <1>0, <1>1, <1>7, StillThere DEF q
<1>8. ASSUME NEW p \in stable
      PROVE  (q = p \/ Above(q, p)) <=> (Above(dir, p) /\ p[Len(dir) + 1] = n)
    BY <1>2, <1>4, OnWayIff DEF q
<1>9. ASSUME q \in stable PROVE Visible(q)
    <2>1. Above(dir, q) /\ q[Len(dir) + 1] = n
        BY <1>8, <1>9
    <2>2. dir \in stable \cup {<< >>}
        BY <1>7, <1>9, <2>1
    <2>3. Len(q) = Len(dir) + 1 /\ Len(dir) \in Nat
          /\ \A k \in 1 .. Len(dir) : q[k] = dir[k]
        BY <1>2, AppendNames DEF q
    <2>4. ASSUME NEW k \in 1 .. Len(q) - 1
          PROVE  Tree[SubSeq(q, 1, k)] = "dir" /\ q[k] \in Plain
        <3>1. k \in 1 .. Len(dir) /\ k \in 0 .. Len(dir) /\ k \in 0 .. Len(q)
            BY <2>3
        <3>2. dir \in stable
            <4>1. dir # << >>
                BY <3>1
            <4> QED BY <2>2, <4>1
        <3>3. /\ SubSeq(q, 1, k) \in Seq(Name) /\ Len(SubSeq(q, 1, k)) = k
              /\ \A j \in 1 .. k : SubSeq(q, 1, k)[j] = q[j]
            BY <1>3, <3>1, FirstNames
        <3>4. /\ SubSeq(dir, 1, k) \in Seq(Name) /\ Len(SubSeq(dir, 1, k)) = k
              /\ \A j \in 1 .. k : SubSeq(dir, 1, k)[j] = dir[j]
            BY <1>2, <3>1, FirstNames
        <3>5. SubSeq(q, 1, k) = SubSeq(dir, 1, k)
            <4>1. \A j \in 1 .. k : j \in 1 .. Len(dir)
                BY <2>3, <3>1
            <4> QED BY <2>3, <3>3, <3>4, <4>1, SameSeq
        <3>6. Tree[SubSeq(dir, 1, k)] = "dir"
            BY <1>0, <1>1, <3>1, <3>2 DEF ReadInv, Clear
        <3>7. dir[k] \in Plain
            BY <1>2, <3>1
        <3> QED BY <2>3, <3>1, <3>5, <3>6, <3>7
    <2> QED BY <2>4 DEF Visible
<1>10. TypeOK'
    <2>1. recursiveFolders' \in Seq(Seq(Name)) /\ filesToProcess' \in Seq(Seq(Name))
        BY <1>1, <1>4, <1>5, <1>6
    <2>2. seen' \subseteq Name
        BY <1>0, <1>1 DEF TypeOK
    <2>3. next' \in 1 .. Len(filesToProcess') + 1
        <3>1. next' = 1
            BY <1>0, <1>1 DEF MadeInv
        <3>2. Len(filesToProcess') \in Nat
            BY <2>1
        <3> QED BY <3>1, <3>2
    <2>4. \A p \in Range(recursiveFolders') \cup Range(filesToProcess') :
              p = << >> \/ Up(p) \in Seq(Plain)
        <3>1. Straight(q)
            BY <1>2, <1>3 DEF Straight
        <3>2. Lists
            BY <1>0, <1>4, StraightLists DEF TypeOK
        <3>3. \A k \in DOMAIN recursiveFolders' : Straight(recursiveFolders'[k])
            BY <1>1, <1>5, <3>1, <3>2 DEF Lists
        <3>4. \A k \in DOMAIN filesToProcess' : Straight(filesToProcess'[k])
            BY <1>1, <1>6, <3>1, <3>2 DEF Lists
        <3> QED BY <3>3, <3>4 DEF Straight, Range
    <2> QED BY <1>0, <1>1, <2>1, <2>2, <2>3, <2>4 DEF TypeOK
<1>11. TreeInv' /\ ReadInv'
    BY <1>0, <1>1 DEF TreeInv, ReadInv, Clear
<1>12. StackInv'
    <2>1. CASE recursiveFolders' = recursiveFolders
        BY <1>0, <1>1, <2>1 DEF StackInv, Clear
    <2>2. CASE recursiveFolders' = Append(recursiveFolders, q)
        <3>1. ASSUME NEW k \in DOMAIN recursiveFolders', NEW r, r = recursiveFolders'[k],
                     r # << >>, Up(r) \in stable
              PROVE  Clear(Up(r))
            <4>1. CASE k = l
                BY <1>0, <1>1, <1>3, <1>5, <2>2, <3>1, <4>1 DEF ReadInv
            <4>2. CASE k \in DOMAIN recursiveFolders
                BY <1>0, <1>5, <2>2, <3>1, <4>2 DEF StackInv
            <4> QED BY <1>5, <2>2, <4>1, <4>2
        <3> QED BY <1>1, <3>1 DEF StackInv, Clear
    <2> QED BY <1>1, <2>1, <2>2
<1>13. TokenInv'
    <2>1. ASSUME NEW p
          PROVE  /\ recursiveFolders' = recursiveFolders => Waiting(p)' = Waiting(p)
                 /\ recursiveFolders' = Append(recursiveFolders, q) =>
                       Waiting(p)' = Waiting(p) \cup (IF Above(q, p) THEN {l} ELSE {})
                 /\ filesToProcess' = filesToProcess => Found(p)' = Found(p)
                 /\ filesToProcess' = Append(filesToProcess, q) =>
                       Found(p)' = Found(p) \cup (IF q = p THEN {m} ELSE {})
        <3>1. recursiveFolders' = recursiveFolders => Waiting(p)' = Waiting(p)
            BY DEF Waiting
        <3>2. filesToProcess' = filesToProcess => Found(p)' = Found(p)
            BY DEF Found
        <3>3. recursiveFolders' = Append(recursiveFolders, q) =>
                  Waiting(p)' = Waiting(p) \cup (IF Above(q, p) THEN {l} ELSE {})
            BY <1>5 DEF Waiting
        <3>4. filesToProcess' = Append(filesToProcess, q) =>
                  Found(p)' = Found(p) \cup (IF q = p THEN {m} ELSE {})
            BY <1>6 DEF Found
        <3> QED BY <3>1, <3>2, <3>3, <3>4
    <2>2. ASSUME NEW p \in stable, ~(Above(dir, p) /\ p[Len(dir) + 1] = n)
          PROVE  Waiting(p)' = Waiting(p) /\ Found(p)' = Found(p) /\ (Reading(p)' <=> Reading(p))
        <3>1. q # p /\ ~Above(q, p)
            BY <1>8, <2>2
        <3>2. Waiting(p)' = Waiting(p) /\ Found(p)' = Found(p)
            BY <1>1, <2>1, <3>1
        <3>3. Reading(p)' <=> Reading(p)
            BY <1>1, <2>2 DEF Reading
        <3> QED BY <3>2, <3>3
    <2>3. ASSUME NEW p \in stable, Above(dir, p), p[Len(dir) + 1] = n
          PROVE  Reading(p) /\ ~Reading(p)' /\ Append(at, n) = q /\ q \in DOMAIN fs
                 /\ fs[q] = Tree[q]
        BY <1>0, <1>1, <1>7, <2>3 DEF Reading, q, TreeInv
    <2>o. ASSUME NEW p PROVE (Once(p)' <=> Once(p)) /\ (Visible(p)' <=> Visible(p))
        BY <1>1 DEF Once, Visible
    <2>4. ASSUME NEW p \in stable, Tree[p] = "file", Above(dir, p), p[Len(dir) + 1] = n,
                 q = p
          PROVE  Token(p)'
        <3>1. Visible(p)
            BY <1>9, <2>4
        <3>2. ~IsDir(Append(at, n))
            BY <1>3, <2>3, <2>4 DEF IsDir
        <3>3. Waiting(p)' = Waiting(p) /\ Found(p)' = Found(p) \cup {m}
            BY <1>1, <2>1, <2>4, <3>2
        <3>4. SomeToken(p)'
            BY <3>3 DEF SomeToken
        <3>5. ASSUME Once(p)' PROVE OneToken(p)'
            <4>1. OneToken(p)
                BY <1>0, <2>4, <2>o, <3>1, <3>5 DEF TokenInv, Token
            <4>2. Waiting(p) = {} /\ Found(p) = {}
                BY <2>3, <2>4, <4>1 DEF OneToken
            <4>3. Waiting(p)' = {} /\ Found(p)' = {m}
                BY <3>3, <4>2
            <4> QED BY <2>3, <2>4, <4>3 DEF OneToken
        <3> QED BY <2>o, <3>1, <3>4, <3>5 DEF Token
    <2>5. ASSUME NEW p \in stable, Tree[p] = "file", Above(dir, p), p[Len(dir) + 1] = n,
                 Above(q, p)
          PROVE  Token(p)'
        <3>0. q # p
            BY <2>5, <1>4 DEF Above
        <3>1. CASE Visible(p)
            <4>1. IsDir(Append(at, n))
                <5>1. Readable(q)
                    BY <1>0, <1>3, <2>5, <3>1, WayIsReadable
                <5> QED BY <2>3, <2>5, <5>1 DEF IsDir, Readable
            <4>2. Waiting(p)' = Waiting(p) \cup {l} /\ Found(p)' = Found(p)
                BY <1>1, <2>1, <2>5, <4>1
            <4>3. SomeToken(p)'
                BY <4>2 DEF SomeToken
            <4>4. ASSUME Once(p)' PROVE OneToken(p)'
                <5>1. OneToken(p)
                    BY <1>0, <2>5, <2>o, <3>1, <4>4 DEF TokenInv, Token
                <5>2. Waiting(p) = {} /\ Found(p) = {}
                    BY <2>3, <2>5, <5>1 DEF OneToken
                <5>3. Waiting(p)' = {l} /\ Found(p)' = {}
                    BY <4>2, <5>2
                <5> QED BY <2>3, <2>5, <5>3 DEF OneToken
            <4> QED BY <2>o, <3>1, <4>3, <4>4 DEF Token
        <3>2. CASE ~Visible(p)
            <4>1. Found(p) = {}
                BY <1>0, <2>5, <3>2 DEF TokenInv, Token
            <4>2. Found(p)' = {}
                BY <1>1, <2>1, <3>0, <4>1
            <4> QED BY <2>o, <3>2, <4>2 DEF Token
        <3> QED BY <3>1, <3>2
    <2>6. ASSUME NEW p \in stable, Tree[p] = "file" PROVE Token(p)'
        <3>1. CASE Above(dir, p) /\ p[Len(dir) + 1] = n
            BY <1>7, <2>4, <2>5, <2>6, <3>1
        <3>2. CASE ~(Above(dir, p) /\ p[Len(dir) + 1] = n)
            <4>1. Token(p)
                BY <1>0, <2>6 DEF TokenInv
            <4> QED BY <1>1, <2>2, <3>2, <4>1, SameToken
        <3> QED BY <3>1, <3>2
    <2> QED BY <1>1, <2>6 DEF TokenInv
<1>14. MadeInv'
    <2>1. next' = 1 /\ pc' = "read"
        BY <1>0, <1>1 DEF MadeInv
    <2>2. \A k \in DOMAIN filesToProcess' : filesToProcess'[k] # << >>
        BY <1>0, <1>1, <1>3, <1>6 DEF MadeInv
    <2>3. cachedDir' # NoDir => smartCreate(cachedDir') \subseteq made'
        BY <1>0, <1>1 DEF MadeInv
    <2> QED BY <2>1, <2>2, <2>3 DEF MadeInv
<1> QED BY <1>10, <1>11, <1>12, <1>13, <1>14 DEF Inv

(* The folder of the next file is made, or was the last one made. *)
LEMMA MakeFolderInv == ASSUME Inv, MakeFolder PROVE Inv'
<1> DEFINE d == extractFolderFromFilePath(filesToProcess[next])
<1>0. FsType /\ TypeOK /\ TreeInv /\ ReadInv /\ StackInv /\ TokenInv /\ MadeInv
    BY DEF Inv, TypeOK, FsType
<1>1. /\ pc = "folders" /\ next <= Len(filesToProcess) /\ next' = next + 1
      /\ IF cachedDir # d
         THEN cachedDir' = d /\ made' = made \cup smartCreate(d)
         ELSE cachedDir' = cachedDir /\ made' = made
      /\ fs' = fs /\ edits' = edits /\ stable' = stable
      /\ pc' = pc /\ recursiveFolders' = recursiveFolders /\ filesToProcess' = filesToProcess
      /\ dir' = dir /\ at' = at /\ seen' = seen /\ old' = old /\ again' = again
    BY DEF MakeFolder, scan
<1>2. /\ filesToProcess \in Seq(Seq(Name)) /\ next \in Nat \ {0}
      /\ Len(filesToProcess) \in Nat /\ next \in DOMAIN filesToProcess
    BY <1>0, <1>1 DEF TypeOK
<1>3. d \in Seq(Part)
    <2>1. filesToProcess[next] \in Seq(Name) /\ filesToProcess[next] # << >>
        BY <1>0, <1>2 DEF MadeInv
    <2> QED BY <2>1, FolderFacts
<1> HIDE DEF d
<1>4. smartCreate(d) \subseteq Seq(Part)
    <2>1. ASSUME NEW n \in 1 .. Len(d) PROVE SubSeq(d, 1, n) \in Seq(Part)
        BY <1>3, FirstNames
    <2> QED BY <2>1 DEF smartCreate
<1>5. d # NoDir
    <2>1. d = NoDir => Len(d) = 1 /\ d[1] = "none"
        BY DEF NoDir
    <2>2. Len(d) = 1 => d[1] \in Part
        BY <1>3
    <2>3. "none" \notin Part
        BY ScanAssumption DEF Part, Nothing
    <2> QED BY <2>1, <2>2, <2>3
<1>6. /\ made \subseteq made' /\ made' \subseteq Seq(Part) /\ cachedDir' = d
      /\ smartCreate(d) \subseteq made'
    <2>1. made \subseteq Seq(Part)
        BY <1>0 DEF TypeOK
    <2>2. CASE cachedDir # d
        BY <1>1, <1>4, <2>1, <2>2
    <2>3. CASE cachedDir = d
        BY <1>0, <1>1, <1>5, <2>1, <2>3 DEF MadeInv
    <2> QED BY <2>2, <2>3
<1>7. TypeOK'
    <2>1. next' \in 1 .. Len(filesToProcess') + 1
        BY <1>1, <1>2
    <2> QED BY <1>0, <1>1, <1>3, <1>6, <2>1 DEF TypeOK
<1>8. TreeInv' /\ ReadInv' /\ StackInv'
    BY <1>0, <1>1 DEF TreeInv, ReadInv, StackInv, Clear
<1>9. TokenInv'
    <2>1. ASSUME NEW p \in stable
          PROVE  Waiting(p)' = Waiting(p) /\ Found(p)' = Found(p) /\ (Reading(p)' <=> Reading(p))
        BY <1>1 DEF Waiting, Found, Reading
    <2> QED BY <1>0, <1>1, <2>1, SameToken DEF TokenInv
<1>10. MadeInv'
    <2>1. ASSUME NEW k \in 1 .. next' - 1
          PROVE  smartCreate(extractFolderFromFilePath(filesToProcess[k])) \subseteq made'
        <3>1. CASE k = next
            BY <1>6, <3>1 DEF d
        <3>2. CASE k # next
            <4>1. k \in 1 .. next - 1
                BY <1>1, <1>2, <3>2
            <4> QED BY <1>0, <1>6, <4>1 DEF MadeInv
        <3> QED BY <3>1, <3>2
    <2> QED BY <1>0, <1>1, <1>6, <2>1 DEF MadeInv
<1> QED BY <1>7, <1>8, <1>9, <1>10 DEF Inv

(* The loop that makes folders ends behind the last file. *)
LEMMA FoldersDoneInv == ASSUME Inv, FoldersDone PROVE Inv'
<1>0. FsType /\ TypeOK /\ TreeInv /\ ReadInv /\ StackInv /\ TokenInv /\ MadeInv
    BY DEF Inv, TypeOK, FsType
<1>1. /\ pc = "folders" /\ next > Len(filesToProcess) /\ pc' = "compress"
      /\ fs' = fs /\ edits' = edits /\ stable' = stable
      /\ recursiveFolders' = recursiveFolders /\ filesToProcess' = filesToProcess
      /\ dir' = dir /\ at' = at /\ seen' = seen /\ old' = old
      /\ cachedDir' = cachedDir /\ made' = made /\ next' = next /\ again' = again
    BY DEF FoldersDone, folders
<1>2. TypeOK' /\ TreeInv' /\ ReadInv'
    BY <1>0, <1>1 DEF TypeOK, TreeInv, ReadInv, Clear
<1>3. StackInv'
    BY <1>0, <1>1 DEF StackInv, Clear
<1>4. ASSUME NEW p \in stable
      PROVE  ~Reading(p) /\ ~Reading(p)' /\ Waiting(p)' = Waiting(p) /\ Found(p)' = Found(p)
    BY <1>1 DEF Reading, Waiting, Found
<1>5. TokenInv'
    BY <1>0, <1>1, <1>4, SameToken DEF TokenInv
<1>6. next' = Len(filesToProcess') + 1
    <2>1. Len(filesToProcess) \in Nat /\ next \in 1 .. Len(filesToProcess) + 1
        BY <1>0 DEF TypeOK
    <2> QED BY <1>1, <2>1
<1>7. MadeInv'
    BY <1>0, <1>1, <1>6 DEF MadeInv
<1> QED BY <1>2, <1>3, <1>5, <1>7 DEF Inv

(* Every step of the program and of the user keeps the invariant. *)
LEMMA NextInv == ASSUME Inv, [Next]_vars PROVE Inv'
<1>1. CASE Program
    BY <1>1, OpenDirInv, CloseDirInv, ScanDoneInv, MakeFolderInv, FoldersDoneInv, ReadEntryInv
       DEF Program
<1>2. CASE User
    BY <1>2, UserInv
<1>3. CASE UNCHANGED vars
    <2>1. /\ fs' = fs /\ edits' = edits /\ stable' = stable /\ pc' = pc
          /\ recursiveFolders' = recursiveFolders /\ filesToProcess' = filesToProcess
          /\ dir' = dir /\ at' = at /\ seen' = seen /\ old' = old
          /\ cachedDir' = cachedDir /\ made' = made /\ next' = next /\ again' = again
        BY <1>3 DEF vars, scan, folders
    <2>2. TypeOK' /\ TreeInv' /\ ReadInv' /\ StackInv' /\ MadeInv'
        BY <2>1 DEF Inv, TypeOK, TreeInv, ReadInv, StackInv, MadeInv, Clear
    <2>3. TokenInv'
        <3>1. \A p : Waiting(p)' = Waiting(p) /\ Found(p)' = Found(p)
            BY <2>1 DEF Waiting, Found
        <3>2. \A p : Reading(p)' <=> Reading(p)
            BY <2>1 DEF Reading
        <3> QED BY <2>1, <3>1, <3>2, SameToken DEF Inv, TokenInv
    <2> QED BY <2>2, <2>3 DEF Inv
<1> QED BY <1>1, <1>2, <1>3 DEF Next

-----------------------------------------------------------------------------
(* The inductive invariant: whatever the user does during the scan, every  *)
(* file that nobody has touched and that can be reached has a token, on    *)
(* the stack, in the directory that is read or in the list, and exactly    *)
(* one unless a directory above it was opened for another one.             *)
THEOREM ScanInvariant == Spec => []Inv
<1>1. Init => Inv
    BY InitInv
<1>2. Inv /\ [Next]_vars => Inv'
    BY NextInv
<1> QED BY <1>1, <1>2, PTL DEF Spec

(* The variables of the scan always have the values they are declared to   *)
(* have; the position in the list of files stays within one of its end.    *)
THEOREM ScanTypes == Spec => []TypeOK
<1>1. Inv => TypeOK
    BY DEF Inv
<1> QED BY <1>1, ScanInvariant, PTL

(* When the scan of createOrUpdateArchive is over, a file that the user    *)
(* has left alone, with the directories above it, is in filesToProcess,    *)
(* and once unless a directory above it was also opened for one whose name *)
(* has backslashes at its end; it is not in the list at all if one of its  *)
(* directories may not be read or has such a name: for every tree, any     *)
(* names and however often the user moves, makes and deletes something     *)
(* around it.                                                              *)
THEOREM ScanFindsExactly == Spec => []FoundExactly
<1>1. ASSUME Inv PROVE FoundExactly
    <2>1. SUFFICES ASSUME pc = "folders", NEW p \in stable, Tree[p] = "file"
                   PROVE  IF Visible(p)
                          THEN Found(p) # {} /\ (Once(p) => Cardinality(Found(p)) = 1)
                          ELSE Found(p) = {}
        BY DEF FoundExactly, Visible, Once
    <2>2. recursiveFolders = << >>
        BY <1>1, <2>1 DEF Inv, StackInv
    <2>3. Waiting(p) = {} /\ ~Reading(p)
        BY <2>1, <2>2 DEF Waiting, Reading
    <2>t. Token(p)
        BY <1>1, <2>1 DEF Inv, TokenInv
    <2>4. CASE Visible(p)
        <3>1. SomeToken(p) /\ (Once(p) => OneToken(p))
            BY <2>t, <2>4 DEF Token
        <3>2. Found(p) # {}
            BY <2>3, <3>1 DEF SomeToken
        <3>3. ASSUME Once(p) PROVE Cardinality(Found(p)) = 1
            <4>1. PICK k : Found(p) = {k}
                BY <2>3, <3>1, <3>3 DEF OneToken
            <4>2. Cardinality({k}) = 1
                BY FS_Singleton
            <4> QED BY <4>1, <4>2
        <3> QED BY <2>4, <3>2, <3>3
    <2>5. CASE ~Visible(p)
        BY <2>t, <2>5 DEF Token
    <2> QED BY <2>4, <2>5
<1> QED BY <1>1, ScanInvariant, PTL

(* When the compressors start, smartCreate has made the folder of every    *)
(* file in the list whose folder has no backslash in its name, whatever    *)
(* the file itself is called, although the folder is only made where the   *)
(* list changes folders.                                                   *)
THEOREM ScanMakesFolders == Spec => []FoldersMade
<1>1. ASSUME Inv PROVE FoldersMade
    <2>1. SUFFICES ASSUME pc = "compress", NEW k \in DOMAIN filesToProcess,
                          Up(filesToProcess[k]) # << >>,
                          \A n \in Range(Up(filesToProcess[k])) : Parts[n] = <<n>>
                   PROVE  Up(filesToProcess[k]) \in made
        BY DEF FoldersMade
    <2>2. /\ filesToProcess \in Seq(Seq(Name)) /\ next = Len(filesToProcess) + 1
          /\ filesToProcess[k] # << >>
        BY <1>1, <2>1 DEF Inv, TypeOK, MadeInv
    <2>3. filesToProcess[k] \in Seq(Name) /\ k \in 1 .. next - 1
        BY <2>1, <2>2
    <2>4. PICK p \in Seq(Name) : p = filesToProcess[k] /\ p # << >>
        BY <2>2, <2>3
    <2>5. Up(p) \in smartCreate(extractFolderFromFilePath(p))
        BY <2>1, <2>4, FolderFacts
    <2>6. smartCreate(extractFolderFromFilePath(p)) \subseteq made
        BY <1>1, <2>3, <2>4 DEF Inv, MadeInv
    <2> QED BY <2>4, <2>5, <2>6
<1> QED BY <1>1, ScanInvariant, PTL

=============================================================================
