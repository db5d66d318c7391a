------------------------------- MODULE Frames -------------------------------
(***************************************************************************)
(* How many feature frames an encoder makes of n samples, and how many the *)
(* rest of the program expects.  The encoder is a chain of seven causal    *)
(* convolutions (src/src/vae.cpp, strides 1, 2, 2, 4, 5, 5, 8); each pads  *)
(* KW - stride zeros on the left and none on the right.                    *)
(***************************************************************************)
EXTENDS Integers

CONSTANTS
  Strides,  \* 1..7 -> stride of each convolution
  Ratio     \* params.compress_ratio

ASSUME FramesAssumption ==
  /\ Strides \in [1..7 -> Nat \ {0}]
  /\ Ratio = Strides[1] * Strides[2] * Strides[3] * Strides[4]
               * Strides[5] * Strides[6] * Strides[7]

\* Integer division of C: truncates towards zero.
CDiv(a, b) == IF a >= 0 THEN a \div b ELSE -((-a) \div b)

\* Variant: the left padding is KW instead of KW - stride.
ConvOutWide(t, s) == CDiv(t, s) + 1

\* Frames a causal convolution of stride s makes of t: (t + (KW - s) - KW) / s + 1.
ConvOut(t, s) == CDiv(t - s, s) + 1

EncoderFrames(n) ==
  LET T1 == ConvOut(n, Strides[1])
      T2 == ConvOut(T1, Strides[2])
      T3 == ConvOut(T2, Strides[3])
      T4 == ConvOut(T3, Strides[4])
      T5 == ConvOut(T4, Strides[5])
      T6 == ConvOut(T5, Strides[6])
  IN  ConvOut(T6, Strides[7])

\* expected_frames of the callers and vae_tok_len of build_prompt: a ceiling.
ExpectedFrames(n) == (n + Ratio - 1) \div Ratio
=============================================================================
