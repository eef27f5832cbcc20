--------------------------- MODULE MCVerifyArchive --------------------------
(***************************************************************************)
(* VerifyArchive for TLC: two text files and a jpeg in one folder, a jpeg  *)
(* in a folder of its own, an mp3 that was copied and a text file of an    *)
(* older set.                                                              *)
(***************************************************************************)
EXTENDS VerifyArchive

CONSTANTS txt, doc, jpg, alone, mp3, old

MCLepton  == File \cap {jpg, alone}
MCPrecomp == File \cap {mp3}
MCCopied  == File \cap {mp3}
MCOlder   == File \cap {old}
MCFolder  == [f \in File |-> IF f = alone THEN "photos" ELSE "home"]
=============================================================================
