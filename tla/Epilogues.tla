------------------------------- MODULE Epilogues -------------------------------
(***************************************************************************)
(* The epilogues of the fused int8 nodes (ggml-vae-i8_s-mad.cpp): the      *)
(* dequantisation, the quantisation, the scaled addition, the residual and *)
(* the causal depthwise convolution, each called on spans of a tensor of   *)
(* Channels columns.  The number an element gets is modelled by what       *)
(* decides it: the instruction path and the operands that meet.            *)
(***************************************************************************)
EXTENDS Integers, FiniteSets, FiniteSetsExt

CONSTANTS
  Lanes,      \* 16: floats of a 512-bit register
  MaxTaps,    \* 16: taps dwconv_avx512 has registers for
  Tensors     \* records [op, channels, frames, taps, wide]; wide: AVX-512 is in use

ASSUME EpilogueAssumption ==
  /\ Lanes \in Nat \ {0} /\ MaxTaps \in Nat
  /\ Tensors \subseteq [op : {"dequant", "quant", "add_scaled", "resid", "dwconv"}, channels : Nat \ {0},
                        frames : Nat \ {0}, taps : Nat \ {0}, wide : BOOLEAN]

VARIABLES
  tensor,  \* the tensor and the operation
  cuts,    \* where the callers end their spans, in elements
  done,    \* elements that are through
  elems,   \* element |-> how it was computed
  peak     \* elements the returned absolute maxima have seen

epilogueVars == <<tensor, cuts, done, elems, peak>>

Size(t) == t.channels * t.frames
ColumnOf(t, i) == i % t.channels
Blank == <<>>

\* Variant: the tail that does not fill a register is left to a scalar loop.
PathScalarTail(t, i, first, n) ==
  IF t.wide /\ i - first < (n \div Lanes) * Lanes THEN "wide" ELSE "scalar"

\* The path of every element of a 512-bit loop, its masked tail included.
Path(t, i, first, n) == IF t.wide THEN "wide" ELSE "scalar"

\* add_scaled_avx512 loads gamma for segments of at most a register that end with the row.
GammaOf(t, first, i) ==
  LET row == Max({first, i - ColumnOf(t, i)})
      seg == row + ((i - row) \div Lanes) * Lanes
  IN  IF t.wide THEN ColumnOf(t, seg) + (i - seg) ELSE ColumnOf(t, i)

\* Tap j of a channel meets frame t + j - (k - 1), unless that is before the signal.
TapsOf(t, i) ==
  {<<ColumnOf(t, i) * t.taps + j, ((i \div t.channels) + j - (t.taps - 1)) * t.channels + ColumnOf(t, i)>> :
     j \in {j \in 0..(t.taps - 1) : (i \div t.channels) + j - (t.taps - 1) >= 0}}

\* Channels of a block of 2 * Lanes, the low half and, under the same mask, the high.
Blocks(t) ==
  {c \in 0..(t.channels - 1) :
     LET c0 == (c \div (2 * Lanes)) * 2 * Lanes
         cw == Min({2 * Lanes, t.channels - c0})
         lo == c0..(c0 + Min({cw, Lanes}) - 1)
         hi == (c0 + Lanes)..(c0 + cw - 1)
     IN  c \in lo \cup hi}

EpilogueInit ==
  /\ tensor \in Tensors
  /\ \E a, b \in {x \in 0..(Size(tensor) - 1) : tensor.op \in {"dwconv", "resid"} => ColumnOf(tensor, x) = 0} :
       cuts = {a, b} \ {0}
  /\ done = 0
  /\ elems = [i \in 0..(Size(tensor) - 1) |-> Blank]
  /\ peak = {}

\* The next span, up to a cut or to the end.
SpanLength == Min({c \in cuts : c > done} \cup {Size(tensor)}) - done

\* The instructions an element of the span meets.
Way(i) == Path(tensor, i, done, SpanLength)

\* The span's elements get what how says of them.
Apply(op, how, written) ==
  /\ tensor.op = op /\ done < Size(tensor)
  /\ LET n == SpanLength
         span == {i \in done..(done + n - 1) : i \in written}
     IN  /\ elems' = [i \in DOMAIN elems |-> IF i \in span THEN how[i] ELSE elems[i]]
         /\ peak' = IF op = "quant" THEN peak ELSE peak \cup span
         /\ done' = done + n
  /\ UNCHANGED <<tensor, cuts>>

\* The caller passes the bias of its own row or columns.
DequantAbsmax ==
  Apply("dequant", [i \in DOMAIN elems |-> <<Way(i), ColumnOf(tensor, i)>>], DOMAIN elems)

QuantI8 == Apply("quant", [i \in DOMAIN elems |-> <<Way(i), i>>], DOMAIN elems)

AddScaledAbsmax ==
  Apply("add_scaled", [i \in DOMAIN elems |-> <<Way(i), GammaOf(tensor, done, i)>>], DOMAIN elems)

\* The column is counted from the start of the span, which is the start of a row.
ResidApply ==
  Apply("resid", [i \in DOMAIN elems |-> <<Way(i), GammaOf(tensor, 0, i - done)>>], DOMAIN elems)

\* Whole frames; the wide kernel only when its registers hold the taps.
DwconvAbsmax ==
  LET wide == tensor.wide /\ tensor.taps <= MaxTaps
      t == [tensor EXCEPT !.wide = wide]
  IN  Apply("dwconv", [i \in DOMAIN elems |-> <<Path(t, i, done, SpanLength), TapsOf(t, i)>>],
            IF wide THEN {i \in DOMAIN elems : ColumnOf(t, i) \in Blocks(t)} ELSE DOMAIN elems)

EpilogueNext == DequantAbsmax \/ QuantI8 \/ AddScaledAbsmax \/ ResidApply \/ DwconvAbsmax
EpilogueSpec == EpilogueInit /\ [][EpilogueNext]_epilogueVars
------------------------------------------------------------------------------
\* The convolution of check_dwconv in kernel_bench, element by element.
CheckDwconv(t, i) ==
  {wx \in (0..(t.channels * t.taps - 1)) \X (0..(Size(t) - 1)) :
     \E j \in 0..(t.taps - 1) :
       wx = <<ColumnOf(t, i) * t.taps + j, i + (j - (t.taps - 1)) * t.channels>>}

Operands(t, i) ==
  CASE t.op = "quant" -> i
    [] t.op = "dwconv" -> CheckDwconv(t, i)
    [] OTHER -> ColumnOf(t, i)

(***************************************************************************)
(* "With every element on the identical instruction path, the result is    *)
(* independent of how callers chunk the range" (dequant_absmax_avx512),    *)
(* which once made transcripts depend on -t: wherever the spans are cut,   *)
(* every element is computed on one path from its own operands, and every  *)
(* absolute maximum has seen it.                                           *)
(***************************************************************************)
CutsDoNotShow ==
  done = Size(tensor) =>
    /\ \A i, j \in DOMAIN elems : elems[i][1] = elems[j][1]
    /\ \A i \in DOMAIN elems : elems[i][2] = Operands(tensor, i)
    /\ tensor.op # "quant" => peak = DOMAIN elems
==============================================================================
