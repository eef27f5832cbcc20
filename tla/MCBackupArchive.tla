-------------------------- MODULE MCBackupArchive ---------------------------
(***************************************************************************)
(* BackupArchive for TLC: a text file t, which zpaq compresses, and a      *)
(* photo j for lepton.                                                     *)
(***************************************************************************)
EXTENDS BackupArchive, TLC

CONSTANTS t, j, c1, c2, h1, h2

MCMeow == c1 :> h1 @@ c2 :> h2
MCTool == [p \in Path |-> IF p = j THEN "lepton" ELSE "zpaq"]
MCReported == [p \in Path |-> p]
MCPrefix == [p \in Path |-> {}]
=============================================================================
