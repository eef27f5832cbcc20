------------------------ MODULE SharedDatabaseProofs ------------------------
(***************************************************************************)
(* What is certain about the database file for any number of runs and any  *)
(* lists: as long as no two runs were at work at the same time it keeps    *)
(* every name that was saved, and one that is removed and rebuilt by one   *)
(* merge after the other has exactly the names of their lists, whatever    *)
(* happened to it before.                                                  *)
(***************************************************************************)
EXTENDS SharedDatabase, TLAPS

(* Nobody else can be at work while a run is. *)
Alone == removed \/ ~overlapped
OneAtATime == Alone => \A r, s \in Running : r = s

(* Before the database is removed, no merge of the rebuild has begun;      *)
(* after it only those are at work.                                        *)
Rebuilding ==
    /\ ~removed => \A r \in Rebuild : pc[r] = "new"
    /\ removed => Running \subseteq Rebuild

(* The loops of a run begin at 0. *)
Loops == \A r \in Run :
    /\ pc[r] \in {"new", "load"} => loads[r] > 0
    /\ pc[r] \notin {"save", "ended"} => pos[r] = 0
    /\ pc[r] \in {"new", "load", "read"} => at[r] = 0
    /\ at[r] <= Len(List[r])
    /\ pc[r] = "save" => at[r] = Len(List[r])

(* The names that a run has merged, and those of the merges that ended. *)
Part(r) == {List[r][i] : i \in 1 .. at[r]}
Rebuilt == UNION {Range(List[s]) : s \in {s \in Rebuild : pc[s] = "ended"}}

SavedRuns == {s \in Run : Saved(s)}

(* A sequence of entries that may become the database after a run that has *)
(* merged the names P: it has every name once, those of the rebuild if it  *)
(* is one, otherwise at least what was saved before.                       *)
Good(f, P, rebuild, rebuilt, saved) ==
    /\ IsInjective(f)
    /\ Hole \notin Range(f)
    /\ rebuild => Range(f) = rebuilt \cup P
    /\ ~rebuild => /\ P \subseteq Range(f)
                   /\ \A s \in saved : Range(List[s]) \subseteq Range(f)
Whole(f, P) == Good(f, P, removed, Rebuilt, SavedRuns)

(* g begins with f. *)
Begins(f, g) == Len(f) <= Len(g) /\ \A i \in 1 .. Len(f) : f[i] = g[i]

(* A run that is alone reads what is in the file, and the file is either   *)
(* whole, or what has been written of a whole database.                    *)
Loading == Alone => \A r \in Run :
    /\ pc[r] = "read" => size[r] = Len(db) /\ Begins(mem[r], db)
    /\ pc[r] # "spin"

Keeping == Alone =>
    /\ (\A r \in Run : pc[r] # "save") => Whole(db, {})
    /\ \A r \in Run :
          /\ pc[r] \in {"work", "save"} => Whole(mem[r], Part(r))
          /\ pc[r] = "save" => Len(db) = pos[r] /\ Begins(db, mem[r])

Inv == TypeOK /\ OneAtATime /\ Rebuilding /\ Loops /\ Loading /\ Keeping

-----------------------------------------------------------------------------
(* Sequences of entries. *)

(* The entries of a list are those at its positions. *)
LEMMA RangeOf ==
    ASSUME NEW S, NEW f \in Seq(S)
    PROVE  Range(f) = {f[i] : i \in 1 .. Len(f)} /\ Range(f) \subseteq S
           /\ DOMAIN f = 1 .. Len(f) /\ Len(f) \in Nat
BY DEF Range

(* The list of an empty database has no entries and no repetition. *)
LEMMA EmptyRange ==
    Range(<< >>) = {} /\ IsInjective(<< >>) /\ Len(<< >>) = 0
BY DEF Range, IsInjective

(* push_back adds its entry to the list; an entry that is not yet there    *)
(* keeps the list free of repetitions.                                     *)
LEMMA AppendRange ==
    ASSUME NEW S, NEW f \in Seq(S), NEW x \in S
    PROVE  /\ Append(f, x) \in Seq(S) /\ Len(Append(f, x)) = Len(f) + 1
           /\ Range(Append(f, x)) = Range(f) \cup {x}
           /\ IsInjective(f) /\ x \notin Range(f) => IsInjective(Append(f, x))
           /\ Begins(f, Append(f, x)) /\ Append(f, x)[Len(f) + 1] = x
<1> DEFINE g == Append(f, x)
<1>1. /\ g \in Seq(S) /\ Len(g) = Len(f) + 1 /\ Len(f) \in Nat
      /\ \A i \in 1 .. Len(f) : g[i] = f[i]
      /\ g[Len(f) + 1] = x
    OBVIOUS
<1> HIDE DEF g
<1>2. DOMAIN f = 1 .. Len(f) /\ DOMAIN g = 1 .. Len(f) + 1
    BY <1>1
<1>3. Range(g) = Range(f) \cup {x}
  <2>1. ASSUME NEW y \in Range(g) PROVE y \in Range(f) \cup {x}
    <3>1. PICK i \in 1 .. Len(f) + 1 : y = g[i]
        BY <1>2, <2>1 DEF Range
    <3> QED BY <1>1, <1>2, <3>1 DEF Range
  <2>2. ASSUME NEW y \in Range(f) \cup {x} PROVE y \in Range(g)
    <3>1. CASE y = x
        BY <1>1, <1>2, <3>1 DEF Range
    <3>2. CASE y \in Range(f)
      <4>1. PICK i \in 1 .. Len(f) : y = f[i]
          BY <1>2, <3>2 DEF Range
      <4> QED BY <1>1, <1>2, <4>1 DEF Range
    <3> QED BY <2>2, <3>1, <3>2
  <2> QED BY <2>1, <2>2
<1>4. ASSUME IsInjective(f), x \notin Range(f) PROVE IsInjective(g)
  <2>1. \A i \in 1 .. Len(f) : f[i] # x
      BY <1>2, <1>4 DEF Range
  <2> QED BY <1>1, <1>2, <1>4, <2>1 DEF IsInjective
<1>5. Begins(f, g)
    BY <1>1 DEF Begins
<1> QED BY <1>1, <1>3, <1>4, <1>5 DEF g

(* Sequences of the same length that agree are equal. *)
LEMMA SameSequence ==
    ASSUME NEW S, NEW f \in Seq(S), NEW g \in Seq(S), Begins(f, g), Len(f) = Len(g)
    PROVE  f = g
BY DEF Begins

(* mergeUpdates for one entry. *)
LEMMA MergedIsGood ==
    ASSUME NEW f \in Seq(Entry), NEW n \in Name
    PROVE  /\ merged(f, n) \in Seq(Entry) /\ Len(f) <= Len(merged(f, n))
           /\ Range(merged(f, n)) = Range(f) \cup {n}
           /\ \A P, rebuild, rebuilt, saved :
                 Good(f, P, rebuild, rebuilt, saved)
                    => Good(merged(f, n), P \cup {n}, rebuild, rebuilt, saved)
<1>1. /\ merged(f, n) \in Seq(Entry) /\ Len(f) <= Len(merged(f, n))
      /\ Range(merged(f, n)) = Range(f) \cup {n}
      /\ IsInjective(f) => IsInjective(merged(f, n))
  <2>1. n \in Entry
      BY DEF Entry
  <2>2. CASE n \in Range(f)
      BY <2>2 DEF merged
  <2>3. CASE n \notin Range(f)
      BY <2>1, <2>3, AppendRange DEF merged
  <2> QED BY <2>2, <2>3
<1>2. n # Hole
    BY RunAssumption
<1> QED BY <1>1, <1>2 DEF Good

(* Writing a block. *)
LEMMA WriteAtKeeps ==
    ASSUME NEW f \in Seq(Entry), NEW i \in Nat \ {0}, NEW e \in Entry
    PROVE  /\ WriteAt(f, i, e) \in Seq(Entry)
           /\ i = Len(f) + 1 => WriteAt(f, i, e) = Append(f, e)
<1>1. PICK n \in Nat : n = IF i > Len(f) THEN i ELSE Len(f)
    OBVIOUS
<1> DEFINE g == [k \in 1 .. n |-> IF k = i THEN e ELSE IF k <= Len(f) THEN f[k] ELSE Hole]
<1>2. WriteAt(f, i, e) = g
    BY <1>1 DEF WriteAt
<1>3. \A k \in 1 .. n : (IF k = i THEN e ELSE IF k <= Len(f) THEN f[k] ELSE Hole) \in Entry
    BY DEF Entry
<1>4. g \in Seq(Entry)
    BY <1>3
<1>5. ASSUME i = Len(f) + 1 PROVE g = Append(f, e)
  <2>1. n = Len(f) + 1
      BY <1>1, <1>5
  <2>2. Append(f, e) \in Seq(Entry) /\ Len(Append(f, e)) = n /\ Len(g) = n
      BY <2>1, <1>4
  <2>3. \A k \in 1 .. n : g[k] = Append(f, e)[k]
      BY <1>5, <2>1
  <2> HIDE DEF g
  <2>4. Begins(g, Append(f, e))
      BY <2>2, <2>3 DEF Begins
  <2> QED BY <1>4, <2>2, <2>4, SameSequence
<1> QED BY <1>2, <1>4, <1>5

-----------------------------------------------------------------------------
(* What a step of a run leaves alone. *)

(* While no runs have overlapped, a run that is under way is the only one. *)
LEMMA Sole ==
    ASSUME Inv, Alone, NEW r \in Run, pc[r] \notin {"new", "ended"}
    PROVE  \A s \in Run : s # r => pc[s] \in {"new", "ended"}
BY DEF Inv, OneAtATime, Running

(* A step that stays at work changes neither what was saved nor what was   *)
(* rebuilt.                                                                *)
LEMMA SameRuns ==
    ASSUME TypeOK, NEW r \in Run, pc[r] # "ended", NEW step, step # "ended", Goto(r, step),
           \A s \in Run : s # r => pos'[s] = pos[s]
    PROVE  Rebuilt' = Rebuilt /\ SavedRuns' = SavedRuns
<1>1. \A s \in Run : pc'[s] = "ended" <=> pc[s] = "ended"
    BY DEF TypeOK, Goto
<1>2. \A s \in Run : pc[s] = "ended" => pos'[s] = pos[s]
    OBVIOUS
<1>3. SavedRuns' = SavedRuns
    BY <1>1, <1>2 DEF SavedRuns, Saved
<1>4. Rebuild \subseteq Run
    BY RunAssumption
<1>5. {s \in Rebuild : pc[s] = "ended"}' = {s \in Rebuild : pc[s] = "ended"}
    BY <1>1, <1>4
<1> QED BY <1>3, <1>5 DEF Rebuilt

(* A step of a run under way keeps OneAtATime and Rebuilding: no run       *)
(* starts, and nobody removes the file.                                    *)
LEMMA RunningStep ==
    ASSUME TypeOK, OneAtATime, Rebuilding, NEW r \in Run, pc[r] \notin {"new", "ended"},
           NEW step, step # "new", Goto(r, step), UNCHANGED <<removed, overlapped>>
    PROVE  OneAtATime' /\ Rebuilding'
<1>1. Running' \subseteq Running
    BY DEF TypeOK, Running, Goto
<1>2. r \in Rebuild => removed
    BY DEF Rebuilding
<1>3. OneAtATime'
    BY <1>1 DEF OneAtATime, Alone
<1>4. Rebuild \subseteq Run
    BY RunAssumption
<1>5. Rebuilding'
    BY <1>1, <1>2, <1>4 DEF TypeOK, Rebuilding, Goto
<1> QED BY <1>3, <1>5

(* A run that starts records the overlap with those under way, and touches *)
(* neither the file nor its list.                                          *)
LEMMA StartStep ==
    ASSUME Inv, NEW r \in Run, Start(r)
    PROVE  Inv'
<1>1. /\ pc[r] = "new" /\ Goto(r, "load") /\ overlapped' = (overlapped \/ Running # {})
      /\ UNCHANGED <<db, loads, size, mem, at, pos, removed>>
      /\ IF r \in Rebuild THEN removed /\ Running = {} ELSE ~removed
    BY DEF Start
<1>2. TypeOK'
  <2>1. overlapped' \in BOOLEAN
      BY <1>1
  <2> QED BY <1>1, <2>1 DEF Inv, TypeOK, Goto
<1>3. Running' = Running \cup {r} /\ (Alone' => Running = {}) /\ (Alone' => Alone)
  <2>1. Running' = Running \cup {r}
      BY <1>1 DEF Inv, TypeOK, Goto, Running
  <2>2. Alone' => Running = {} /\ Alone
      BY <1>1, RunAssumption DEF Alone, Inv, Rebuilding, TypeOK
  <2> QED BY <2>1, <2>2
<1>4. OneAtATime'
    BY <1>3 DEF OneAtATime
<1>5. Rebuilding'
    BY <1>1, <1>3, RunAssumption DEF Inv, Rebuilding, TypeOK, Goto
<1>6. Loops'
    BY <1>1 DEF Inv, TypeOK, Loops, Goto
<1>7. Rebuilt' = Rebuilt /\ SavedRuns' = SavedRuns
    BY <1>1, SameRuns DEF Inv
<1>8. Loading'
    BY <1>1, <1>3 DEF Inv, TypeOK, Loading, Goto
<1>9. Keeping'
  <2> SUFFICES ASSUME Alone'
               PROVE  /\ (\A s \in Run : pc'[s] # "save") => Whole(db, {})'
                      /\ \A s \in Run : pc'[s] \notin {"work", "save"}
      BY DEF Keeping
  <2>1. \A s \in Run : pc[s] \in {"new", "ended"}
      BY <1>3 DEF Running
  <2>2. Whole(db, {})
      BY <1>3, <2>1 DEF Inv, Keeping
  <2> QED BY <1>1, <1>7, <2>1, <2>2 DEF Inv, TypeOK, Goto, Whole
<1> QED BY <1>2, <1>4, <1>5, <1>6, <1>8, <1>9 DEF Inv

(* A step of a run that reads the file or works. *)
LEMMA ReadingStep ==
    ASSUME Inv, NEW r \in Run, pc[r] \in {"load", "read", "work"},
           NEW step \in {"load", "read", "spin", "work"}, Goto(r, step),
           UNCHANGED <<db, pos, removed, overlapped>>, TypeOK', Loops',
           Alone => /\ step # "spin"
                    /\ step = "read" => size'[r] = Len(db) /\ Begins(mem'[r], db)
                    /\ step = "work" => Good(mem'[r], Part(r)', removed, Rebuilt, SavedRuns)
    PROVE  Inv'
<1>1. OneAtATime' /\ Rebuilding'
    BY RunningStep DEF Inv
<1>2. Rebuilt' = Rebuilt /\ SavedRuns' = SavedRuns
    BY SameRuns DEF Inv
<1>3. Alone' <=> Alone
    BY DEF Alone
<1>4. pc'[r] = step /\ \A s \in Run : s # r => pc'[s] = pc[s]
    BY DEF Inv, TypeOK, Goto
<1>5. Alone => \A s \in Run : s # r => pc[s] \in {"new", "ended"}
    BY Sole
<1>6. Loading'
    BY <1>3, <1>4, <1>5 DEF Loading
<1>7. Keeping'
  <2> SUFFICES ASSUME Alone
               PROVE  /\ Whole(db, {})'
                      /\ \A s \in Run :
                            /\ pc'[s] \in {"work", "save"} => Whole(mem[s], Part(s))'
                            /\ pc'[s] # "save"
      BY <1>3 DEF Keeping
  <2>1. \A s \in Run : pc[s] # "save"
      BY <1>5
  <2>2. Whole(db, {})'
      BY <1>2, <2>1 DEF Inv, Keeping, Whole
  <2>3. ASSUME NEW s \in Run, pc'[s] \in {"work", "save"} PROVE s = r /\ step = "work"
      BY <1>4, <1>5, <2>3
  <2>4. step = "work" => Whole(mem[r], Part(r))'
      BY <1>2 DEF Whole
  <2> QED BY <1>4, <2>2, <2>3, <2>4
<1> QED BY <1>1, <1>6, <1>7 DEF Inv

(* A run that is alone finds the whole database, since nobody is writing   *)
(* it.                                                                     *)
LEMMA OpenToReadStep ==
    ASSUME Inv, NEW r \in Run, OpenToRead(r)
    PROVE  Inv'
<1>1. /\ pc[r] = "load" /\ Goto(r, "read") /\ UNCHANGED <<db, at, pos, removed, overlapped>>
      /\ size' = [size EXCEPT ![r] = Len(db)]
      /\ mem' = [mem EXCEPT ![r] = << >>]
      /\ loads' = [loads EXCEPT ![r] = @ - 1]
    BY DEF OpenToRead
<1>2. loads[r] \in 1 .. 2 /\ pos[r] = 0 /\ Len(db) \in Nat
  <2>1. loads[r] > 0 /\ pos[r] = 0
      BY <1>1 DEF Inv, Loops
  <2>2. loads[r] \in 0 .. 2 /\ db \in Seq(Entry)
      BY DEF Inv, TypeOK
  <2> QED BY <2>1, <2>2
<1>3. TypeOK'
  <2>1. << >> \in Seq(Entry) /\ Len(<< >>) = 0
      OBVIOUS
  <2>2. mem' \in [Run -> Seq(Entry)] /\ \A s \in Run : pos[s] <= Len(mem'[s])
      BY <1>1, <1>2, <2>1 DEF Inv, TypeOK
  <2>3. loads' \in [Run -> 0 .. 2]
      BY <1>1, <1>2 DEF Inv, TypeOK
  <2> QED BY <1>1, <1>2, <2>2, <2>3 DEF Inv, TypeOK, Goto
<1>4. Loops'
    BY <1>1 DEF Inv, TypeOK, Loops, Goto
<1>5. size'[r] = Len(db) /\ Begins(mem'[r], db)
  <2>1. mem'[r] = << >> /\ size'[r] = Len(db)
      BY <1>1 DEF Inv, TypeOK
  <2> QED BY <1>2, <2>1 DEF Begins
<1> QED BY <1>1, <1>3, <1>4, <1>5, ReadingStep

(* The loop of readFileHashes: the next entry of a run that is alone is    *)
(* the next one of the file, so what is in memory begins as the file does. *)
LEMMA ReadStep ==
    ASSUME Inv, NEW r \in Run, Read(r)
    PROVE  Inv'
<1>1. /\ pc[r] = "read" /\ Len(mem[r]) < size[r]
      /\ UNCHANGED <<db, loads, size, at, pos, removed, overlapped>>
    BY DEF Read
<1>2. PICK m \in Seq(Entry) : m = mem[r]
    BY DEF Inv, TypeOK
<1>3. db \in Seq(Entry) /\ Len(db) \in Nat /\ Len(m) \in Nat
    BY DEF Inv, TypeOK
<1>4. CASE Len(m) < Len(db)
  <2>1. PICK e \in Entry : e = db[Len(m) + 1]
      BY <1>3, <1>4
  <2>2. mem' = [mem EXCEPT ![r] = Append(m, e)] /\ UNCHANGED pc
      BY <1>2, <1>4, <2>1 DEF Read
  <2>3. PICK n \in Seq(Entry) : n = Append(m, e) /\ Len(n) = Len(m) + 1 /\ n[Len(m) + 1] = e
                               /\ Begins(m, n)
      BY AppendRange
  <2>4. mem' \in [Run -> Seq(Entry)] /\ mem'[r] = n /\ \A s \in Run : s # r => mem'[s] = mem[s]
      BY <2>2, <2>3 DEF Inv, TypeOK
  <2>5. TypeOK'
    <3>1. \A s \in Run : pos[s] <= Len(mem'[s])
      <4>1. pos[r] \in Nat /\ pos[r] <= Len(m) /\ \A s \in Run : pos[s] <= Len(mem[s])
          BY <1>2 DEF Inv, TypeOK
      <4>2. pos[r] <= Len(n)
          BY <1>3, <2>3, <4>1
      <4> QED BY <2>4, <4>1, <4>2
    <3> QED BY <1>1, <2>2, <2>4, <3>1 DEF Inv, TypeOK
  <2>6. Loops'
      BY <1>1, <2>2 DEF Inv, Loops
  <2>7. Alone => size'[r] = Len(db) /\ Begins(mem'[r], db)
    <3> SUFFICES ASSUME Alone PROVE size[r] = Len(db) /\ Begins(n, db)
        BY <1>1, <2>4
    <3>1. size[r] = Len(db) /\ Begins(m, db)
        BY <1>1, <1>2 DEF Inv, Loading
    <3>2. ASSUME NEW i \in 1 .. Len(n) PROVE n[i] = db[i]
      <4>1. CASE i = Len(m) + 1
          BY <2>1, <2>3, <4>1
      <4>2. CASE i # Len(m) + 1
          BY <1>3, <2>3, <3>1, <4>2 DEF Begins
      <4> QED BY <4>1, <4>2
    <3> QED BY <1>3, <1>4, <2>3, <3>1, <3>2 DEF Begins
  <2>8. Goto(r, "read")
      BY <1>1, <2>2 DEF Goto, Inv, TypeOK
  <2> QED BY <1>1, <2>5, <2>6, <2>7, <2>8, ReadingStep
<1>5. CASE ~(Len(m) < Len(db))
  <2>1. Goto(r, "spin") /\ UNCHANGED mem
      BY <1>2, <1>5 DEF Read
  <2>2. TypeOK'
      BY <1>1, <2>1 DEF Inv, TypeOK, Goto
  <2>3. Loops'
      BY <1>1, <2>1 DEF Inv, TypeOK, Loops, Goto
  <2>4. ~Alone
      BY <1>1, <1>2, <1>3, <1>5 DEF Inv, Loading
  <2> QED BY <1>1, <2>1, <2>2, <2>3, <2>4, ReadingStep
<1> QED BY <1>4, <1>5

(* The end of readFileHashes: a run that is alone has the file in memory;  *)
(* create mode loads a second time, then the work begins.                  *)
LEMMA LoadedStep ==
    ASSUME Inv, NEW r \in Run, Loaded(r)
    PROVE  Inv'
<1>1. PICK step \in {"load", "work"} :
      /\ pc[r] = "read" /\ Len(mem[r]) = size[r] /\ Goto(r, step)
      /\ step = "load" => loads[r] > 0
      /\ UNCHANGED <<db, loads, size, mem, at, pos, removed, overlapped>>
    BY DEF Loaded
<1>2. TypeOK'
    BY <1>1 DEF Inv, TypeOK, Goto
<1>3. Loops'
    BY <1>1 DEF Inv, TypeOK, Loops, Goto
<1>4. Alone => Good(mem'[r], Part(r)', removed, Rebuilt, SavedRuns)
  <2> SUFFICES ASSUME Alone PROVE Good(mem[r], Part(r)', removed, Rebuilt, SavedRuns)
      BY <1>1
  <2>1. size[r] = Len(db) /\ Begins(mem[r], db)
      BY <1>1 DEF Inv, Loading
  <2>2. mem[r] = db
      BY <1>1, <2>1, SameSequence DEF Inv, TypeOK
  <2>3. \A s \in Run : pc[s] # "save"
      BY <1>1, Sole
  <2>4. Part(r)' = {}
      BY <1>1 DEF Inv, Loops, Part
  <2> QED BY <2>2, <2>3, <2>4 DEF Inv, Keeping, Whole
<1> QED BY <1>1, <1>2, <1>3, <1>4, ReadingStep

(* One iteration of mergeUpdates adds one name of the run's list, unless   *)
(* the database has it already.                                            *)
LEMMA MergeUpdatesStep ==
    ASSUME Inv, NEW r \in Run, MergeUpdates(r)
    PROVE  Inv'
<1>1. /\ pc[r] = "work" /\ at[r] < Len(List[r])
      /\ mem' = [mem EXCEPT ![r] = merged(mem[r], List[r][at[r] + 1])]
      /\ at' = [at EXCEPT ![r] = at[r] + 1]
      /\ UNCHANGED <<db, pc, loads, size, pos, removed, overlapped>>
    BY DEF MergeUpdates
<1>2. PICK m \in Seq(Entry) : m = mem[r]
    BY DEF Inv, TypeOK
<1>3. PICK i \in Nat : i = at[r] /\ i < Len(List[r])
    BY <1>1 DEF Inv, TypeOK
<1>4. List[r] \in Seq(Name) /\ Len(List[r]) \in Nat
    BY RunAssumption
<1>5. PICK n \in Name : n = List[r][i + 1]
    BY <1>3, <1>4
<1>6. PICK g \in Seq(Entry) :
         /\ g = merged(m, n) /\ Len(m) <= Len(g)
         /\ \A P, rebuild, rebuilt, saved :
               Good(m, P, rebuild, rebuilt, saved) => Good(g, P \cup {n}, rebuild, rebuilt, saved)
    BY MergedIsGood
<1>7. mem' = [mem EXCEPT ![r] = g] /\ at' = [at EXCEPT ![r] = i + 1]
    BY <1>1, <1>2, <1>3, <1>5, <1>6
<1>8. TypeOK'
  <2>1. mem' \in [Run -> Seq(Entry)] /\ at' \in [Run -> Nat]
      BY <1>7 DEF Inv, TypeOK
  <2>2. \A s \in Run : pos[s] <= Len(mem'[s])
      BY <1>2, <1>6, <1>7 DEF Inv, TypeOK
  <2> QED BY <1>1, <2>1, <2>2 DEF Inv, TypeOK
<1>9. at'[r] = i + 1 /\ \A s \in Run : s # r => at'[s] = at[s]
    BY <1>7 DEF Inv, TypeOK
<1>10. Loops'
    BY <1>1, <1>3, <1>4, <1>9 DEF Inv, Loops
<1>11. Alone => Good(mem'[r], Part(r)', removed, Rebuilt, SavedRuns)
  <2>1. Part(r)' = Part(r) \cup {n}
      BY <1>3, <1>5, <1>9 DEF Part
  <2>2. mem'[r] = g
      BY <1>7 DEF Inv, TypeOK
  <2>3. Alone => Good(m, Part(r), removed, Rebuilt, SavedRuns)
      BY <1>1, <1>2 DEF Inv, Keeping, Whole
  <2> QED BY <1>6, <2>1, <2>2, <2>3
<1>12. Goto(r, "work")
    BY <1>1 DEF Goto, Inv, TypeOK
<1> QED BY <1>1, <1>8, <1>10, <1>11, <1>12, ReadingStep

(* fopen empties the file; what a run that is alone has in memory holds    *)
(* all that was in it.                                                     *)
LEMMA OpenToWriteStep ==
    ASSUME Inv, NEW r \in Run, OpenToWrite(r)
    PROVE  Inv'
<1>1. /\ pc[r] = "work" /\ at[r] = Len(List[r]) /\ db' = << >> /\ Goto(r, "save")
      /\ UNCHANGED <<loads, size, mem, at, pos, removed, overlapped>>
    BY DEF OpenToWrite
<1>2. << >> \in Seq(Entry) /\ Len(<< >>) = 0
    OBVIOUS
<1>3. TypeOK'
    BY <1>1, <1>2 DEF Inv, TypeOK, Goto
<1>4. Loops'
    BY <1>1 DEF Inv, TypeOK, Loops, Goto
<1>5. OneAtATime' /\ Rebuilding'
    BY <1>1, RunningStep DEF Inv
<1>6. Rebuilt' = Rebuilt /\ SavedRuns' = SavedRuns
    BY <1>1, SameRuns DEF Inv
<1>7. Alone' <=> Alone
    BY <1>1 DEF Alone
<1>8. pc'[r] = "save" /\ \A s \in Run : s # r => pc'[s] = pc[s]
    BY <1>1 DEF Inv, TypeOK, Goto
<1>9. Alone => \A s \in Run : s # r => pc[s] \in {"new", "ended"}
    BY <1>1, Sole
<1>10. Loading'
    BY <1>7, <1>8, <1>9 DEF Loading
<1>11. Keeping'
  <2> SUFFICES ASSUME Alone
               PROVE  /\ Whole(mem[r], Part(r))' /\ Len(db') = pos'[r] /\ Begins(db', mem'[r])
      BY <1>7, <1>8, <1>9 DEF Keeping
  <2>1. Whole(mem[r], Part(r))
      BY <1>1 DEF Inv, Keeping
  <2>2. Part(r)' = Part(r)
      BY <1>1 DEF Part
  <2>3. pos[r] = 0
      BY <1>1 DEF Inv, Loops
  <2>4. Begins(<< >>, mem[r])
    <3>1. mem[r] \in Seq(Entry)
        BY DEF Inv, TypeOK
    <3> QED BY <1>2, <3>1 DEF Begins
  <2> QED BY <1>1, <1>2, <1>6, <2>1, <2>2, <2>3, <2>4 DEF Whole
<1> QED BY <1>3, <1>4, <1>5, <1>10, <1>11 DEF Inv

(* saveFileHashes writes the next entry at its own position in the file:   *)
(* behind the last one when the run is alone.                              *)
LEMMA WriteStep ==
    ASSUME Inv, NEW r \in Run, Write(r)
    PROVE  Inv'
<1>1. /\ pc[r] = "save" /\ pos[r] < Len(mem[r])
      /\ db' = WriteAt(db, pos[r] + 1, mem[r][pos[r] + 1])
      /\ pos' = [pos EXCEPT ![r] = pos[r] + 1]
      /\ UNCHANGED <<pc, loads, size, mem, at, removed, overlapped>>
    BY DEF Write
<1>2. PICK m \in Seq(Entry) : m = mem[r]
    BY DEF Inv, TypeOK
<1>3. PICK p \in Nat : p = pos[r] /\ p < Len(m)
    BY <1>1, <1>2 DEF Inv, TypeOK
<1>4. PICK e \in Entry : e = m[p + 1]
    BY <1>3
<1>5. db \in Seq(Entry) /\ Len(db) \in Nat /\ Len(m) \in Nat
    BY DEF Inv, TypeOK
<1>i. PICK k \in Nat \ {0} : k = p + 1
    OBVIOUS
<1>6. db' = WriteAt(db, k, e) /\ db' \in Seq(Entry)
  <2>1. db' = WriteAt(db, k, e)
      BY <1>1, <1>2, <1>3, <1>4, <1>i
  <2> QED BY <1>5, <2>1, WriteAtKeeps
<1>7. pos' \in [Run -> Nat] /\ pos'[r] = p + 1 /\ \A s \in Run : s # r => pos'[s] = pos[s]
    BY <1>1, <1>3 DEF Inv, TypeOK
<1>8. TypeOK'
  <2>1. \A s \in Run : pos'[s] <= Len(mem[s])
    <3>1. p + 1 <= Len(m) /\ \A s \in Run : pos[s] <= Len(mem[s])
        BY <1>3, <1>5 DEF Inv, TypeOK
    <3> QED BY <1>2, <1>7, <3>1
  <2> QED BY <1>1, <1>6, <1>7, <2>1 DEF Inv, TypeOK
<1>9. Loops'
    BY <1>1, <1>7 DEF Inv, Loops
<1>10. Goto(r, "save")
    BY <1>1 DEF Goto, Inv, TypeOK
<1>11. OneAtATime' /\ Rebuilding'
    BY <1>1, <1>10, RunningStep DEF Inv
<1>12. Rebuilt' = Rebuilt /\ SavedRuns' = SavedRuns
    BY <1>1, <1>7, <1>10, SameRuns DEF Inv
<1>13. Alone' <=> Alone
    BY <1>1 DEF Alone
<1>14. Alone => \A s \in Run : s # r => pc[s] \in {"new", "ended"}
    BY <1>1, Sole
<1>15. Loading'
    BY <1>1, <1>13, <1>14 DEF Loading
<1>16. Keeping'
  <2> SUFFICES ASSUME Alone
               PROVE  /\ Whole(mem[r], Part(r))' /\ Len(db') = pos'[r] /\ Begins(db', mem'[r])
      BY <1>1, <1>13, <1>14 DEF Keeping
  <2>1. Whole(mem[r], Part(r)) /\ Len(db) = p /\ Begins(db, m)
      BY <1>1, <1>2, <1>3 DEF Inv, Keeping
  <2>2. Part(r)' = Part(r)
      BY <1>1 DEF Part
  <2>3. db' = Append(db, e)
    <3>1. k = Len(db) + 1
        BY <1>i, <2>1
    <3>2. k = Len(db) + 1 => WriteAt(db, k, e) = Append(db, e)
        BY <1>5, WriteAtKeeps
    <3> QED BY <1>6, <3>1, <3>2
  <2>4. Len(db') = p + 1 /\ db'[p + 1] = e /\ \A i \in 1 .. p : db'[i] = db[i]
      BY <1>5, <2>1, <2>3
  <2>5. Begins(db', m)
    <3>1. \A i \in 1 .. p + 1 : db'[i] = m[i]
        BY <1>3, <1>4, <2>1, <2>4 DEF Begins
    <3> QED BY <1>3, <1>5, <2>4, <3>1 DEF Begins
  <2> QED BY <1>1, <1>2, <1>7, <1>12, <2>1, <2>2, <2>4, <2>5 DEF Whole
<1> QED BY <1>8, <1>9, <1>11, <1>15, <1>16 DEF Inv

(* The names of a list, all of which were merged. *)
LEMMA WholeList ==
    ASSUME NEW r \in Run, at[r] = Len(List[r])
    PROVE  Part(r) = Range(List[r])
<1>1. List[r] \in Seq(Name)
    BY RunAssumption
<1> QED BY <1>1, RangeOf DEF Part

(* With its last entry written a run that is alone leaves all it has in    *)
(* memory, thus all earlier runs saved, in the file.                       *)
LEMMA CloseStep ==
    ASSUME Inv, NEW r \in Run, Close(r)
    PROVE  Inv'
<1>1. /\ pc[r] = "save" /\ pos[r] = Len(mem[r]) /\ Goto(r, "ended")
      /\ UNCHANGED <<db, loads, size, mem, at, pos, removed, overlapped>>
    BY DEF Close
<1>2. TypeOK'
    BY <1>1 DEF Inv, TypeOK, Goto
<1>3. Loops'
    BY <1>1 DEF Inv, TypeOK, Loops, Goto
<1>4. OneAtATime' /\ Rebuilding'
    BY <1>1, RunningStep DEF Inv
<1>5. Alone' <=> Alone
    BY <1>1 DEF Alone
<1>6. pc'[r] = "ended" /\ \A s \in Run : s # r => pc'[s] = pc[s]
    BY <1>1 DEF Inv, TypeOK, Goto
<1>7. Alone => \A s \in Run : s # r => pc[s] \in {"new", "ended"}
    BY <1>1, Sole
<1>8. Loading'
    BY <1>5, <1>6, <1>7 DEF Loading
<1>9. Keeping'
  <2> SUFFICES ASSUME Alone PROVE Whole(db, {})'
      BY <1>5, <1>6, <1>7 DEF Keeping
  <2>1. Good(mem[r], Part(r), removed, Rebuilt, SavedRuns) /\ Len(db) = pos[r] /\ Begins(db, mem[r])
      BY <1>1 DEF Inv, Keeping, Whole
  <2>2. db = mem[r]
      BY <1>1, <2>1, SameSequence DEF Inv, TypeOK
  <2>3. Part(r) = Range(List[r])
      BY <1>1, WholeList DEF Inv, Loops
  <2>4. SavedRuns' \subseteq SavedRuns \cup {r}
      BY <1>1, <1>6 DEF SavedRuns, Saved
  <2>5. removed => Rebuilt' = Rebuilt \cup Range(List[r])
    <3> SUFFICES ASSUME removed PROVE Rebuilt' = Rebuilt \cup Range(List[r])
        OBVIOUS
    <3>1. r \in Rebuild
        BY <1>1 DEF Inv, Rebuilding, Running
    <3>2. Rebuild \subseteq Run
        BY RunAssumption
    <3>3. {s \in Rebuild : pc[s] = "ended"}' = {s \in Rebuild : pc[s] = "ended"} \cup {r}
        BY <1>6, <3>1, <3>2
    <3> QED BY <3>3 DEF Rebuilt
  <2>6. Good(db, {}, removed, Rebuilt', SavedRuns')
      BY <2>1, <2>2, <2>3, <2>4, <2>5 DEF Good
  <2> QED BY <1>1, <2>6 DEF Whole
<1> QED BY <1>2, <1>3, <1>4, <1>8, <1>9 DEF Inv

(* The user stops a run that hangs; it has saved nothing. *)
LEMMA KillHangingStep ==
    ASSUME Inv, NEW r \in Run, KillHanging(r)
    PROVE  Inv'
<1>1. /\ pc[r] = "spin" /\ Goto(r, "ended")
      /\ UNCHANGED <<db, loads, size, mem, at, pos, removed, overlapped>>
    BY DEF KillHanging
<1>2. TypeOK'
    BY <1>1 DEF Inv, TypeOK, Goto
<1>3. Loops'
    BY <1>1 DEF Inv, TypeOK, Loops, Goto
<1>4. OneAtATime' /\ Rebuilding'
    BY <1>1, RunningStep DEF Inv
<1>5. ~Alone'
    BY <1>1 DEF Inv, Loading, Alone
<1> QED BY <1>2, <1>3, <1>4, <1>5 DEF Inv, Loading, Keeping

(* The user removes the file while no run is at work: from then on only    *)
(* the names of the rebuild count.                                         *)
LEMMA RemoveDatabaseStep ==
    ASSUME Inv, RemoveDatabase
    PROVE  Inv'
<1>1. /\ ~removed /\ Running = {} /\ db' = << >> /\ removed' = TRUE
      /\ UNCHANGED <<pc, loads, size, mem, at, pos, overlapped>>
    BY DEF RemoveDatabase, run
<1>2. << >> \in Seq(Entry) /\ Len(<< >>) = 0
    OBVIOUS
<1>3. TypeOK'
    BY <1>1, <1>2 DEF Inv, TypeOK
<1>4. Loops'
    BY <1>1 DEF Inv, Loops
<1>5. Running' = {}
    BY <1>1 DEF Running
<1>6. OneAtATime' /\ Rebuilding'
    BY <1>1, <1>5 DEF OneAtATime, Rebuilding
<1>7. \A s \in Run : pc[s] \in {"new", "ended"}
    BY <1>1 DEF Running
<1>8. Loading'
    BY <1>1, <1>7 DEF Loading
<1>9. Keeping'
  <2>1. Rebuilt' = {}
    <3>1. \A s \in Rebuild : pc[s] # "ended"
        BY <1>1 DEF Inv, Rebuilding
    <3> QED BY <1>1, <3>1 DEF Rebuilt
  <2>2. Good(<< >>, {}, TRUE, {}, SavedRuns')
      BY EmptyRange DEF Good
  <2>3. Whole(db, {})'
      BY <1>1, <2>1, <2>2 DEF Whole
  <2> QED BY <1>1, <1>7, <2>3 DEF Keeping
<1> QED BY <1>3, <1>4, <1>6, <1>8, <1>9 DEF Inv

-----------------------------------------------------------------------------
(* The database is empty at first, and no run has begun. *)
LEMMA InvInit == Init => Inv
<1> SUFFICES ASSUME Init PROVE Inv
    OBVIOUS
<1>1. << >> \in Seq(Entry) /\ Len(<< >>) = 0
    OBVIOUS
<1>2. TypeOK
  <2>1. loads \in [Run -> 0 .. 2]
      BY DEF Init
  <2>2. mem \in [Run -> Seq(Entry)] /\ \A r \in Run : pos[r] = 0 /\ Len(mem[r]) = 0
      BY <1>1 DEF Init
  <2>3. \A r \in Run : pos[r] <= Len(mem[r])
      BY <2>2
  <2> QED BY <1>1, <2>1, <2>2, <2>3 DEF Init, TypeOK
<1>3. \A r \in Run : pc[r] = "new"
    BY DEF Init
<1>4. Running = {}
    BY <1>3 DEF Running
<1>5. OneAtATime /\ Rebuilding
    BY <1>3, <1>4, RunAssumption DEF Init, OneAtATime, Rebuilding
<1>6. Loops
  <2>1. \A r \in Run : Len(List[r]) \in Nat
      BY RunAssumption
  <2> QED BY <2>1 DEF Init, Loops
<1>7. Loading
    BY <1>3 DEF Loading
<1>8. Keeping
  <2>1. SavedRuns = {}
      BY <1>3 DEF SavedRuns, Saved
  <2>2. Good(<< >>, {}, FALSE, Rebuilt, {})
      BY EmptyRange DEF Good
  <2>3. Whole(db, {})
      BY <2>1, <2>2 DEF Init, Whole
  <2> QED BY <1>3, <2>3 DEF Keeping
<1> QED BY <1>2, <1>5, <1>6, <1>7, <1>8 DEF Inv

(* Every step keeps the invariant, one lemma per action. *)
LEMMA InvStep == Inv /\ [Next]_vars => Inv'
<1> SUFFICES ASSUME Inv, [Next]_vars PROVE Inv'
    OBVIOUS
<1>1. CASE UNCHANGED vars
  <2>1. UNCHANGED <<db, pc, loads, size, mem, at, pos, removed, overlapped>>
      BY <1>1 DEF vars, run
  <2>2. TypeOK' /\ Loops'
      BY <2>1 DEF Inv, TypeOK, Loops
  <2>3. OneAtATime' /\ Rebuilding' /\ Loading'
      BY <2>1 DEF Inv, OneAtATime, Rebuilding, Loading, Alone, Running
  <2>4. Keeping'
      BY <2>1 DEF Inv, Keeping, Alone, Whole, Part, Rebuilt, SavedRuns, Saved
  <2> QED BY <2>2, <2>3, <2>4 DEF Inv
<1>2. ASSUME NEW r \in Run, Start(r) PROVE Inv'
    BY <1>2, StartStep
<1>3. ASSUME NEW r \in Run, Step(r) PROVE Inv'
    BY <1>3, OpenToReadStep, ReadStep, LoadedStep, MergeUpdatesStep, OpenToWriteStep, WriteStep,
       CloseStep DEF Step
<1>4. ASSUME NEW r \in Run, KillHanging(r) PROVE Inv'
    BY <1>4, KillHangingStep
<1>5. CASE RemoveDatabase
    BY <1>5, RemoveDatabaseStep
<1> QED BY <1>1, <1>2, <1>3, <1>4, <1>5 DEF Next

(* Inv holds whatever the runs of ctrlcenter2 do to their database. *)
THEOREM DatabaseInvariant == Spec => []Inv
BY InvInit, InvStep, PTL DEF Spec

(* The file and the lists in memory keep their types: saveFileHashes never *)
(* writes more entries than there are, even while runs overlap.            *)
THEOREM DatabaseTypes == Spec => []TypeOK
<1>1. Inv => TypeOK
    BY DEF Inv
<1> QED BY <1>1, DatabaseInvariant, PTL

(* Runs that do not overlap lose nothing: what one of them has saved stays *)
(* in the database, each name once, and none of them waits for bytes that  *)
(* the file no longer has.                                                 *)
THEOREM NothingLostWithoutOverlap == Spec => []KeepsWithoutOverlap
<1>1. Inv => KeepsWithoutOverlap
  <2> SUFFICES ASSUME Inv, ~overlapped PROVE /\ SavedStays
                                             /\ \A r \in Run : pc[r] # "spin"
                                             /\ Running = {} => IsInjective(db) /\ Hole \notin Range(db)
      BY DEF KeepsWithoutOverlap
  <2>1. \A r \in Run : pc[r] # "spin"
      BY DEF Inv, Loading, Alone
  <2>2. ASSUME Running = {} PROVE Good(db, {}, removed, Rebuilt, SavedRuns)
    <3>1. \A r \in Run : pc[r] # "save"
        BY <2>2 DEF Running
    <3> QED BY <3>1 DEF Inv, Keeping, Alone, Whole
  <2>3. SavedStays
      BY <2>2 DEF SavedStays, Good, SavedRuns
  <2> QED BY <2>1, <2>2, <2>3 DEF Good
<1> QED BY <1>1, DatabaseInvariant, PTL

(* A rebuild as concept.txt describes it gives the names of all merged     *)
(* lists and no others, even if overlapping runs had damaged the file.     *)
THEOREM RebuildIsExact == Spec => []RebuildExact
<1>1. Inv => RebuildExact
  <2> SUFFICES ASSUME Inv, removed, Running = {}, \A r \in Rebuild : pc[r] = "ended"
               PROVE  /\ Range(db) = UNION {Range(List[r]) : r \in Rebuild}
                      /\ IsInjective(db)
      BY DEF RebuildExact
  <2>1. \A r \in Run : pc[r] # "save"
      BY DEF Running
  <2>2. Good(db, {}, removed, Rebuilt, SavedRuns)
      BY <2>1 DEF Inv, Keeping, Alone, Whole
  <2>3. Rebuilt = UNION {Range(List[r]) : r \in Rebuild}
    <3>1. {s \in Rebuild : pc[s] = "ended"} = Rebuild
        OBVIOUS
    <3> QED BY <3>1 DEF Rebuilt
  <2> QED BY <2>2, <2>3 DEF Good
<1> QED BY <1>1, DatabaseInvariant, PTL
=============================================================================
