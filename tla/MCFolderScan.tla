---------------------------- MODULE MCFolderScan ----------------------------
(***************************************************************************)
(* FolderScan for TLC: the directories a, with the directory a\a (back) in *)
(* it that may not be read, and a\ (tail), each with a file.  The user     *)
(* also has the name \ (slash) to give.                                    *)
(***************************************************************************)
EXTENDS FolderScan

CONSTANTS a, back, tail, slash

MCTree == (<<a>> :> "dir") @@ (<<a, a>> :> "file")
          @@ (<<a, back>> :> "closed") @@ (<<a, back, a>> :> "file")
          @@ (<<tail>> :> "dir") @@ (<<tail, a>> :> "file")

MCParts == [n \in Name |-> CASE n = back -> <<a, a>>
                             [] n = tail -> <<a, Nothing>>
                             [] n = slash -> <<Nothing, Nothing>>
                             [] OTHER -> <<n>>]

MCBare == [n \in Name |-> CASE n = tail -> <<a>> [] n = slash -> << >> [] OTHER -> <<n>>]
=============================================================================
