------------------------------- MODULE MCTernary -------------------------------
(***************************************************************************)
(* The rows of the language model's matrices, 1536 weights (12 blocks) and *)
(* 8960 (70 blocks), as every instruction set multiplies them.             *)
(***************************************************************************)
EXTENDS DotKernels

MCCalls ==
  [family : {"i2"}, entry : {"dispatch"}, isa : {"avx2", "vnni", "neon", "dotprod"}, forced : {FALSE},
   n : {12 * 4 * Vec, 70 * 4 * Vec}, nrc : {1, 4}]
==============================================================================
