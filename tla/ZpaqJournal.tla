----------------------------- MODULE ZpaqJournal ----------------------------
(***************************************************************************)
(* The journaling archive of zpaq, as compressFile makes it: one file per  *)
(* archive, "zpaq a" run again when an interrupted backup is repeated.     *)
(* An update appends, behind what read_archive accepts, a header block c   *)
(* that says -1, data blocks d, their fragment tables h and the index i,   *)
(* then goes back to put the size of the data into the header, and cuts    *)
(* off what an older interrupted update has left behind.                   *)
(*                                                                         *)
(* A block takes one cell of the archive and a data block holds one        *)
(* fragment.  ZpaqPipeline is why data blocks arrive in order.  A killed   *)
(* process has written some number of its blocks; the output buffer only   *)
(* makes that number smaller.                                              *)
(***************************************************************************)
EXTENDS Integers, Sequences, SequencesExt, FiniteSetsExt

CONSTANTS
    Fragment,       \* pieces of a file, known by their SHA-1
    MaxFragments,   \* bound: the length of the file
    MaxUpdates      \* bound: how often zpaq is started

ASSUME JournalAssumption ==
    /\ "unknown" \notin Fragment
    /\ MaxFragments \in Nat /\ MaxUpdates \in Nat

VARIABLES
    disk,           \* the archive
    step,           \* of the running update, or "idle"
    plan,           \* the blocks that the update writes, in order
    header_pos,     \* where it writes them
    written,        \* how many it has written
    content,        \* the file it adds
    committed,      \* history: the versions, and whether each is the end of the archive
                    \* or still has the rest of an older update behind it
    updates         \* updates so far

update == <<step, plan, header_pos, written, content>>
journal == <<disk, update, committed, updates>>

Content == UNION {[1 .. n -> Fragment] : n \in 1 .. MaxFragments}
Header(jmp) == [kind |-> "c", jmp |-> jmp]
DataBlock(frag) == [kind |-> "d", frag |-> frag]
Table(num, frag) == [kind |-> "h", num |-> num, frag |-> frag]
Index(ptr) == [kind |-> "i", ptr |-> ptr]

Block ==
    {Header(jmp) : jmp \in -1 .. MaxFragments} \cup {DataBlock(f) : f \in Fragment}
    \cup {Table(num, f) : num \in 1 .. MaxUpdates * MaxFragments, f \in Fragment}
    \cup {Index(ptr) : ptr \in UNION {[1 .. n -> 1 .. MaxUpdates * MaxFragments] :
                                    n \in 1 .. MaxFragments}}

JournalTypeOK ==
    /\ disk \in Seq(Block)
    /\ step \in {"idle", "append", "header", "truncate"}
    /\ plan \in Seq(Block)
    /\ header_pos \in 0 .. Len(disk) /\ written \in 0 .. Len(plan)
    /\ content \in Content \cup {<< >>}
    /\ committed \in Seq([content : Content, ended : BOOLEAN])
    /\ updates \in 0 .. MaxUpdates

JournalInit ==
    /\ disk = << >>
    /\ step = "idle" /\ plan = << >> /\ header_pos = 0 /\ written = 0
    /\ content = << >>
    /\ committed = << >>
    /\ updates = 0

-----------------------------------------------------------------------------
(* read_archive, up to a version.  at: the next cell that is looked at;    *)
(* data: data_offset; offset: block_offset; ht: the fragments by number.   *)
Start == [done |-> FALSE, at |-> 1, ver |-> 0, data |-> 0, offset |-> 0,
          ht |-> << >>, block |-> << >>, dt |-> << >>, errors |-> 0]

(* A header: stop at an incomplete or too new one, else jump over the data *)
(* and leave block_offset alone until the next block, if there is data.    *)
ReadHeader(r, b, p, version) ==
    IF b.jmp < 0 \/ r.ver >= version THEN [r EXCEPT !.done = TRUE]
    ELSE [r EXCEPT !.ver = @ + 1, !.data = p + 1, !.at = p + 1 + b.jmp,
                   !.offset = IF b.jmp = 0 THEN p ELSE @]

(* A fragment table: ht is filled up to its number. *)
ReadTable(r, b, p) ==
    [r EXCEPT !.ht = [n \in 1 .. (IF b.num > Len(@) THEN b.num ELSE Len(@)) |->
                        IF n = b.num THEN b.frag
                        ELSE IF n <= Len(@) THEN @[n] ELSE "unknown"],
              !.block = Append(@, [start |-> b.num, offset |-> r.data]),
              !.data = @ + 1, !.at = p + 1, !.offset = p]

ReadBlock(r, b, p, version) ==
    IF r.done \/ p < r.at THEN r
    ELSE CASE b.kind = "c" -> ReadHeader(r, b, p, version)
           [] b.kind = "h" -> ReadTable(r, b, p)
           [] b.kind = "i" -> [r EXCEPT !.dt = b.ptr, !.at = p + 1, !.offset = p]
           [] b.kind = "d" -> [r EXCEPT !.errors = @ + 1, !.at = p + 1]

(* How far it has come at each cell. *)
reading(file, version) ==
    LET r[p \in 0 .. Len(file)] ==
            IF p = 0 THEN Start ELSE ReadBlock(r[p - 1], file[p], p, version)
    IN  r

read_archive(version) == reading(disk, version)[Len(disk)]

(* extract: no file at all if the blocks are not in order; else a fragment *)
(* must be in the last block that does not start behind it, and have the   *)
(* right SHA-1.                                                            *)
InBlock(r, ptr) ==
    disk[r.block[Max({k \in 1 .. Len(r.block) : r.block[k].start <= ptr})].offset]

Extractable(r) ==
    /\ \A k \in 2 .. Len(r.block) : r.block[k].start > r.block[k - 1].start
    /\ \A k \in DOMAIN r.dt :
          r.dt[k] <= Len(r.ht) /\ InBlock(r, r.dt[k]) = DataBlock(r.ht[r.dt[k]])

Extracted(r) == [k \in DOMAIN r.dt |-> r.ht[r.dt[k]]]

-----------------------------------------------------------------------------
Latest == MaxUpdates + 1    \* read_archive without -until

(* The fragments that are not in ht yet, each once. *)
NewFragments(ht, x) ==
    LET new[n \in 0 .. Len(x)] ==
            IF n = 0 THEN << >>
            ELSE IF Contains(ht \o new[n - 1], x[n]) THEN new[n - 1]
            ELSE Append(new[n - 1], x[n])
    IN  new[Len(x)]

(* The blocks that add() writes after it has read the archive. *)
Plan(r, x) ==
    LET new == NewFragments(r.ht, x)
        ht  == r.ht \o new
        ptr == [k \in DOMAIN x |-> Min({n \in DOMAIN ht : ht[n] = x[k]})]
    IN  <<Header(-1)>> \o [k \in DOMAIN new |-> DataBlock(new[k])]
        \o [k \in DOMAIN new |-> Table(Len(r.ht) + k, new[k])] \o <<Index(ptr)>>

(* A file with the date that the archive has for it is not added. *)
Unchanged(r, x) == r.dt # << >> /\ Extracted(r) = x

ToWrite(r, x) == IF Unchanged(r, x) THEN <<Header(-1)>> ELSE Plan(r, x)

(* A mistake for the check of FinishedStays: the update begins one block   *)
(* too early.                                                              *)
AddOneEarly(x) ==
    /\ step = "idle" /\ updates < MaxUpdates
    /\ LET r == read_archive(Latest)
       IN  /\ header_pos' = IF r.offset > 1 THEN r.offset - 1 ELSE r.offset
           /\ plan' = ToWrite(r, x)
    /\ content' = x
    /\ written' = 0 /\ step' = "append"
    /\ updates' = updates + 1
    /\ UNCHANGED <<disk, committed>>

(* add(): reads the archive, whatever state it is in. *)
Add(x) ==
    /\ step = "idle" /\ updates < MaxUpdates
    /\ LET r == read_archive(Latest)
       IN  /\ header_pos' = r.offset
           /\ plan' = ToWrite(r, x)
    /\ content' = x
    /\ written' = 0 /\ step' = "append"
    /\ updates' = updates + 1
    /\ UNCHANGED <<disk, committed>>

Put(p, b) == IF p <= Len(disk) THEN [disk EXCEPT ![p] = b] ELSE Append(disk, b)

AppendBlock ==
    /\ step = "append"
    /\ disk' = Put(header_pos + written + 1, plan[written + 1])
    /\ written' = written + 1
    /\ step' = IF written' = Len(plan) THEN "header" ELSE "append"
    /\ UNCHANGED <<plan, header_pos, content, committed, updates>>

(* A mistake for the check of JournalTypeOK: the size is that of the whole *)
(* update.                                                                 *)
WholeSize == Len(plan)

(* out.tell() - header_end, after the data blocks. *)
cdatasize == Cardinality({k \in DOMAIN plan : plan[k].kind = "d"})

(* From here on the update counts. *)
RewriteHeader ==
    /\ step = "header"
    /\ disk' = Put(header_pos + 1, Header(cdatasize))
    /\ committed' = Append(committed, [content |-> content,
                                       ended |-> Len(disk) = header_pos + Len(plan)])
    /\ step' = "truncate"
    /\ UNCHANGED <<plan, header_pos, written, content, updates>>

Idle ==
    step' = "idle" /\ plan' = << >> /\ header_pos' = 0 /\ written' = 0 /\ content' = << >>

(* A mistake for the check of AllOrNothing: nothing is cut off. *)
EndWithoutTruncate ==
    /\ step = "truncate"
    /\ committed' = [committed EXCEPT ![Len(committed)].ended = TRUE]
    /\ Idle
    /\ UNCHANGED <<disk, updates>>

(* An update without a change is taken back, header included. *)
Truncate ==
    /\ step = "truncate"
    /\ IF Len(plan) = 1
       THEN /\ disk' = SubSeq(disk, 1, header_pos)
            /\ committed' = Front(committed)
       ELSE /\ disk' = SubSeq(disk, 1, header_pos + Len(plan))
            /\ committed' = [committed EXCEPT ![Len(committed)].ended = TRUE]
    /\ Idle
    /\ UNCHANGED updates

(* The process is killed. *)
Crash ==
    /\ step # "idle"
    /\ Idle
    /\ UNCHANGED <<disk, committed, updates>>

JournalNext ==
    \/ \E x \in Content : Add(x)
    \/ AppendBlock \/ RewriteHeader \/ Truncate \/ Crash
    \/ updates = MaxUpdates /\ step = "idle" /\ UNCHANGED journal

JournalSpec == JournalInit /\ [][JournalNext]_journal

-----------------------------------------------------------------------------
(* zpaq.pod:117: "Updates are transacted. If zpaq is interrupted before    *)
(* completing the update, then the partially appended data is ignored and  *)
(* overwritten on the next update."  Whatever update is under way or has   *)
(* died at any of its steps, the archive reads as the last update whose    *)
(* header was completed, without an error.                                 *)
ReadsAsCommitted ==
    LET r == read_archive(Latest)
    IN  /\ r.errors = 0
        /\ Extractable(r)
        /\ Extracted(r) = IF committed = << >> THEN << >> ELSE Last(committed).content

Transacted == step # "truncate" => ReadsAsCommitted

(* That holds, also between RewriteHeader and Truncate, as long as no      *)
(* update has died with the rest of an older one behind it.                *)
AllOrNothing == (\A v \in DOMAIN committed : committed[v].ended) => ReadsAsCommitted

(* zpaq.cpp:16: "You can extract from old versions of the archive by       *)
(* specifying a date or version number."  A version with nothing of an     *)
(* older update behind it or behind one before it is extracted with -until *)
(* as it was added, whatever later updates do and wherever they die.       *)
FinishedStays ==
    \A v \in 1 .. Len(committed) :
        (\A u \in 1 .. v : committed[u].ended) =>
            LET r == read_archive(v)
            IN  Extractable(r) /\ Extracted(r) = committed[v].content
=============================================================================
