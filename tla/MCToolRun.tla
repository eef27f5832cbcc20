------------------------------ MODULE MCToolRun -----------------------------
(***************************************************************************)
(* ToolRun for TLC: hash is a meowhash, which may be killed and prints no  *)
(* line end, for a path so long that fgets stops at 127 bytes; big is a    *)
(* zpaq that prints as much as a pipe holds, in lines; jpg is a lepton     *)
(* that may fail and prints nothing to stdout; mp3 needs the executable    *)
(* precomnp-cpp, which no build makes.                                     *)
(***************************************************************************)
EXTENDS ToolRun

CONSTANTS hash, big, jpg, mp3

output(o, e) == [out |-> o, err |-> e]

MCPrinted == [j \in Job |->
    CASE j = hash -> output(2, 0)
      [] j = big  -> output(PipeSize, 1)
      [] j = jpg  -> output(0, 1)
      [] OTHER    -> output(0, 0)]

MCCompress == Job \ {hash}
MCMissing  == Job \cap {mp3}
MCFailing  == Job \cap {hash, jpg}
MCLine     == [j \in Job |-> 1]
=============================================================================
