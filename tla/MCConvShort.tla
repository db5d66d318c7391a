------------------------------ MODULE MCConvShort ------------------------------
(***************************************************************************)
(* One block of int8, strides 1 to 4, and signals that may end before the  *)
(* first window of the direct route does.                                  *)
(***************************************************************************)
EXTENDS ConvGemm

MCShapes ==
  {[kw |-> 4, ic |-> 1, oc |-> 1, frames |-> f, stride |-> s] : f \in 1..5, s \in 1..4}
================================================================================
