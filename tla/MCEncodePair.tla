----------------------------- MODULE MCEncodePair -----------------------------
(***************************************************************************)
(* Two stages of one and two blocks; the first convolution is narrow, as   *)
(* in the model, and so is the second, so that both routes meet in a       *)
(* graph.  Thread counts around the thresholds 2 and 6, on a host that has *)
(* enough processors for them and on one that has not.                     *)
(***************************************************************************)
EXTENDS EncodePair, TLC
MCDepth == (0 :> 1) @@ (1 :> 2)
==============================================================================
