-------------------------- MODULE MCSharedDatabase --------------------------
(***************************************************************************)
(* SharedDatabase for TLC: c1 and c2 create backups of folders that share  *)
(* a file, c3 one of that file, m1 and m2 merge the lists of c1 and c2.    *)
(***************************************************************************)
EXTENDS SharedDatabase

CONSTANTS c1, c2, c3, m1, m2

MCName == {"a", "b", "c"}
MCList == [r \in Run |-> CASE r \in {c1, m1} -> <<"a", "b">>
                           [] r \in {c2, m2} -> <<"c", "b">>
                           [] OTHER -> <<"b">>]
MCCreate == Run \cap {c1, c2, c3}
MCRebuild == Run \cap {m1, m2}
=============================================================================
