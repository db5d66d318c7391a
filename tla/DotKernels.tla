------------------------------ MODULE DotKernels ------------------------------
(***************************************************************************)
(* The dot products of ggml-lm-mad.cpp (ternary weights) and of            *)
(* ggml-vae-i8_s-mad.cpp (bytes), for every instruction set they are       *)
(* written for.  A kernel is modelled by its terms                         *)
(*   <<group, lane, weight, activation>>:                                  *)
(* the positions it multiplies and the 16-bit lane that adds the product   *)
(* up until the end of the group of steps; a lane of group Wide has 32     *)
(* bits, and names the load.  Registers are Vec bytes instead of 32, and   *)
(* everything that is a fraction or a multiple of one is scaled with it;   *)
(* the 32 steps of a group and the 16 bits are those of the code.          *)
(***************************************************************************)
EXTENDS Integers, FiniteSets, FiniteSetsExt

CONSTANTS
  Vec,          \* 32: bytes of a 256-bit register, QK_I8_S on x86
  Flush,        \* 32: steps between two widenings of the 16-bit lanes
  ParallelSize, \* 4: PARALLEL_SIZE, VAE_PARALLEL_SIZE
  I2ColBlock,   \* 4: I2S_COL_BLOCK
  Calls         \* calls, records like call

VARIABLES
  call,   \* the call: family, entry, isa, forced, n, nrc
  at,     \* the next row or column
  out     \* history: output |-> the writes to it, <<step, <<row, column>>>>

dotVars == <<call, at, out>>

Wide == -1
Zmm == 2 * Vec
Word == Vec \div 4        \* a quadword of eight bytes
Half == Vec \div 2        \* a 128-bit register

\* Variant: four rows share a byte, as the layout without ACT_PARALLEL has it.
FieldRows(i) == <<i, 0>>

\* The 2-bit field of a weight: quantize_i2_s stores weight i of a row there.
Field(i) == <<(i \div (4 * Vec)) * Vec + (i % Vec), (i % (4 * Vec)) \div Vec>>
------------------------------------------------------------------------------
(***************************************************************************)
(* Bytes.  x86 multiplies whole blocks of Vec bytes and adds two products  *)
(* per lane; NEON multiplies a quarter register, a product per lane, or    *)
(* widens at once when it has the dot product instruction.                 *)
(***************************************************************************)
\* Variant: the 16-bit lanes are only widened at the end.
I8Avx2Late(n) ==
  {<<0, k \div 2, b * Vec + k, b * Vec + k>> : b \in 0..(n \div Vec - 1), k \in 0..(Vec - 1)}

I8Avx2(n) ==
  {<<b \div Flush, k \div 2, b * Vec + k, b * Vec + k>> : b \in 0..(n \div Vec - 1), k \in 0..(Vec - 1)}

I8Neon(n, dotprod) ==
  {<<IF dotprod THEN Wide ELSE b \div Flush, k, b * Word + k, b * Word + k>> :
     b \in 0..(n \div Word - 1), k \in 0..(Word - 1)}

Loads(lane, starts, len) == {<<Wide, lane, i + k, i + k>> : i \in starts, k \in 0..(len - 1)}

\* Two registers at a time, then one, then what is left under a mask.
I8Vnni(n) ==
  LET bytes == (n \div Vec) * Vec
      twice == {i \in 0..bytes : i % (2 * Zmm) = 0 /\ i + 2 * Zmm <= bytes}
      after == Cardinality(twice) * 2 * Zmm
      once  == {i \in after..bytes : (i - after) % Zmm = 0 /\ i + Zmm <= bytes}
      last  == after + Cardinality(once) * Zmm
  IN  Loads(0, twice, Zmm) \cup Loads(1, {i + Zmm : i \in twice}, Zmm) \cup Loads(2, once, Zmm)
      \cup Loads(3, {last}, bytes - last)

\* Several rows against a shared vector: one register at a time.
I8VnniShared(n) ==
  LET bytes == (n \div Vec) * Vec
      once  == {i \in 0..bytes : i % Zmm = 0 /\ i + Zmm <= bytes}
      last  == Cardinality(once) * Zmm
  IN  Loads(0, once, Zmm) \cup Loads(1, {last}, bytes - last)

I8Scalar(n) == {<<Wide, 0, k, k>> : k \in 0..(n - 1)}
------------------------------------------------------------------------------
(***************************************************************************)
(* Ternary weights.  A step of AVX2 reads Vec bytes, unpacks the four      *)
(* groups of a block, and adds eight products per lane.                    *)
(***************************************************************************)
I2Step(group, lane, b) ==
  {<<group, lane[k], <<b * Vec + k, g>>, b * 4 * Vec + g * Vec + k>> : k \in 0..(Vec - 1), g \in 0..3}

I2Avx2(n) ==
  UNION {I2Step(b \div Flush, [k \in 0..(Vec - 1) |-> k \div 2], b) : b \in 0..(n \div (4 * Vec) - 1)}

\* I2S_Y_BASE: a step is half a block, its activations Vec apart.
NeonBase(u) == (u \div 2) * 4 * Vec + (u % 2) * Half

I2Neon(n, dotprod) ==
  {<<IF dotprod THEN Wide ELSE u \div Flush, k % (Half \div 2),
     <<u * Half + k, g>>, NeonBase(u) + g * Vec + k>> :
     u \in 0..(n \div (2 * Vec) - 1), k \in 0..(Half - 1), g \in 0..3}

\* vibeasr_perm_lo, vibeasr_perm_hi and vpermi2q.
PermLo == [i \in 0..7 |-> IF i < 4 THEN i ELSE i + 4]
PermHi == [i \in 0..7 |-> PermLo[i] + 4]
Permute(a, index, b) == [i \in 0..7 |-> IF index[i] < 8 THEN a[index[i]] ELSE b[index[i] - 8]]

\* i2s_load_acts: the words of the activations, brought into the order of the weights.
ActWords(b) ==
  LET Y(r) == [i \in 0..7 |-> 16 * b + 8 * r + i]
  IN  [g \in 0..3 |-> Permute(Y(g \div 2), IF g % 2 = 0 THEN PermLo ELSE PermHi, Y(g \div 2 + 2))]

\* i2s_weights_in_act_order: <<word, group>> for each word of four plain loads.
WeightWords(b) ==
  LET G(g) == [i \in 0..7 |-> <<4 * b + i, g>>]
  IN  [r \in 0..3 |-> Permute(G(2 * (r % 2)), IF r < 2 THEN PermLo ELSE PermHi, G(2 * (r % 2) + 1))]

\* Blocks two at a time; an odd last one as i2s_step256 does it.
I2Pairs(n) == {b \in 0..(n \div (4 * Vec)) : b % 2 = 0 /\ b + 2 <= n \div (4 * Vec)}
I2Odd(n) ==
  LET nb == n \div (4 * Vec)
  IN  IF nb % 2 = 1 THEN I2Step(Wide, [k \in 0..(Vec - 1) |-> 4], nb - 1) ELSE {}

I2VnniRows(n) ==
  I2Odd(n) \cup
  {<<Wide, g, <<(4 * b + i) * Word + t, g>>, ActWords(b)[g][i] * Word + t>> :
     b \in I2Pairs(n), g \in 0..3, i \in 0..7, t \in 0..(Word - 1)}

I2VnniCols(n) ==
  I2Odd(n) \cup
  {<<Wide, r, <<WeightWords(b)[r][i][1] * Word + t, WeightWords(b)[r][i][2]>>,
     (16 * b + 8 * r + i) * Word + t>> :
     b \in I2Pairs(n), r \in 0..3, i \in 0..7, t \in 0..(Word - 1)}

\* I2S_Y_BASE once per group of steps, then 16 and 112 bytes in turn.
NeonColBase(u) ==
  LET j == u % Flush
  IN  NeonBase(u - j) + ((j + 1) \div 2) * Half + (j \div 2) * (4 * Vec - Half)

I2NeonCols(n, dotprod) ==
  {<<IF dotprod THEN Wide ELSE u \div Flush, k % (Half \div 2),
     <<u * Half + k, g>>, NeonColBase(u) + g * Vec + k>> :
     u \in 0..(n \div (2 * Vec) - 1), k \in 0..(Half - 1), g \in 0..3}

I8Terms(shape, isa, n) ==
  CASE isa = "avx2"                -> I8Avx2(n)
    [] isa = "vnni"                -> IF shape = "1x1" THEN I8Vnni(n) ELSE I8VnniShared(n)
    [] isa \in {"neon", "dotprod"} -> I8Neon(n, isa = "dotprod")
    [] isa = "scalar"              -> I8Scalar(n)

I2Terms(shape, isa, n) ==
  CASE isa = "avx2"                -> I2Avx2(n)
    [] isa = "vnni"                -> IF shape = "Nx1" THEN I2VnniCols(n) ELSE I2VnniRows(n)
    [] isa \in {"neon", "dotprod"} -> IF shape = "Nx1" THEN I2NeonCols(n, isa = "dotprod")
                                      ELSE I2Neon(n, isa = "dotprod")

Terms(f, shape, isa, n) == IF f = "i8" THEN I8Terms(shape, isa, n) ELSE I2Terms(shape, isa, n)
------------------------------------------------------------------------------
(***************************************************************************)
(* The entries.  ggml_vec_dot_i8_i8 and ggml_vec_dot_i2_i8_s send whole    *)
(* parallels to the kernel of many columns and other calls to the kernel   *)
(* of single rows; kernel_bench calls every kernel by its name.            *)
(***************************************************************************)
DispatchI8(nrc) == IF nrc % ParallelSize = 0 THEN "Nx1" ELSE "1x1"
DispatchI2(nrc) == IF nrc % ParallelSize = 0 THEN "Nx1" ELSE "1x1"

Shape(c) ==
  IF c.entry # "dispatch" THEN c.entry
  ELSE IF c.family = "i8" THEN DispatchI8(c.nrc) ELSE DispatchI2(c.nrc)

\* The ternary kernel of many columns stays with AVX2 unless it is told otherwise.
IsaOf(c) ==
  IF c.isa = "vnni" /\ c.family = "i2" /\ Shape(c) = "Nx1" /\ ~c.forced THEN "avx2" ELSE c.isa

\* The kernels of many rows or columns that look at what is left of nrc.
TakesRest(c) == IsaOf(c) = "scalar" \/ (c.family = "i2" /\ IsaOf(c) = "vnni" /\ Shape(c) = "Nx1")

\* Rows of ternary weights are whole blocks and have no scalar code; who names a
\* kernel of many rows or columns passes whole parallels where it needs them.  A
\* group of 256 steps could wrap 16 bits even with operands of 8.
ASSUME DotAssumption ==
  /\ Vec \in Nat \ {0} /\ Vec % 4 = 0
  /\ Flush \in Nat \ {0} /\ Flush % 2 = 0 /\ Flush < 256
  /\ ParallelSize \in Nat \ {0} /\ I2ColBlock \in Nat \ {0}
  /\ \A c \in Calls :
       /\ c \in [family : {"i8", "i2"}, entry : {"dispatch", "1x1", "1xN", "Nx1"},
                isa : {"avx2", "vnni", "neon", "dotprod", "scalar"}, forced : BOOLEAN, n : Nat, nrc : Nat]
       /\ c.family = "i2" => c.isa # "scalar" /\ c.n % (4 * Vec) = 0
       /\ c.entry \in {"1xN", "Nx1"} => TakesRest(c) \/ c.nrc % ParallelSize = 0

DotInit ==
  /\ call \in Calls
  /\ at = 0
  /\ out = [o \in 0..(call.nrc + ParallelSize - 1) |-> {}]

Running(f, shape) == call.family = f /\ Shape(call) = shape /\ at < call.nrc
OwnRow == [o \in DOMAIN out |-> <<o, 0>>]
OwnColumn == [o \in DOMAIN out |-> <<0, o>>]

\* The next step outputs, each written from its own operands.
Write(step, own) ==
  /\ out' = [o \in DOMAIN out |-> IF o \in at..(at + step - 1) THEN out[o] \cup {<<at, own[o]>>} ELSE out[o]]
  /\ at' = at + step
  /\ UNCHANGED call

\* One row of weights after the other, against the same activations.
I8Rows1x1 == Running("i8", "1x1") /\ Write(1, OwnRow)
I2Rows1x1 == Running("i2", "1x1") /\ Write(1, OwnRow)

\* Parallel rows at a time; the scalar code takes them one by one.
I8Rows1xN == Running("i8", "1xN") /\ Write(IF IsaOf(call) = "scalar" THEN 1 ELSE ParallelSize, OwnRow)
I2Rows1xN == Running("i2", "1xN") /\ Write(ParallelSize, OwnRow)

\* Parallel columns of activations at a time, against one row of weights.
I8ColsNx1 == Running("i8", "Nx1") /\ Write(IF IsaOf(call) = "scalar" THEN 1 ELSE ParallelSize, OwnColumn)

\* Only the VNNI kernel looks at the columns that are left.
I2ColsNx1 ==
  /\ Running("i2", "Nx1")
  /\ Write(IF IsaOf(call) = "vnni" THEN Min({I2ColBlock, call.nrc - at}) ELSE ParallelSize, OwnColumn)

DotNext == I8Rows1x1 \/ I2Rows1x1 \/ I8Rows1xN \/ I2Rows1xN \/ I8ColsNx1 \/ I2ColsNx1
DotSpec == DotInit /\ [][DotNext]_dotVars
------------------------------------------------------------------------------
(***************************************************************************)
(* The references of kernel_bench: ref_i8 over the whole blocks of the     *)
(* build, ref_i2 over the fields of the block layout.                      *)
(***************************************************************************)
Unit(f, isa) ==
  IF f = "i2" THEN 4 * Vec
  ELSE CASE isa \in {"avx2", "vnni"} -> Vec [] isa \in {"neon", "dotprod"} -> Word [] isa = "scalar" -> 1
Reference(f, isa, n) ==
  {<<IF f = "i2" THEN Field(k) ELSE k, k>> : k \in 0..((n \div Unit(f, isa)) * Unit(f, isa) - 1)}

Wrap16(v) == ((v + 32768) % 65536) - 32768
KernelTerms == Terms(call.family, Shape(call), IsaOf(call), call.n)

\* The result for weights that are all w and activations that are all y.
Value(terms, w, y) ==
  LET narrow == {t \in terms : t[1] # Wide}
      lanes  == {<<t[1], t[2]>> : t \in narrow}
      Lane(l) == Wrap16(Cardinality({t \in narrow : <<t[1], t[2]>> = l}) * w * y)
  IN  MapThenSumSet(Lane, lanes) + Cardinality(terms \ narrow) * w * y

\* quantize_i2_s stores 0, 1 and 2; quantize_i8_s and the bench stay within amp.
Weights(f, amp) == IF f = "i2" THEN {1, 2} ELSE {-amp, amp}
Exact(amp) ==
  \A w \in Weights(call.family, amp), y \in {-amp, amp} :
    Value(KernelTerms, w, y) = Cardinality(KernelTerms) * w * y

Returned == at >= call.nrc

(***************************************************************************)
(* Whatever the instruction set, the permutations, the odd block and the   *)
(* ragged end, a kernel multiplies every weight of a whole block by its    *)
(* own activation, and adds that product up once.                          *)
(***************************************************************************)
EveryPairOnce ==
  Returned =>
    /\ {<<t[3], t[4]>> : t \in KernelTerms} = Reference(call.family, IsaOf(call), call.n)
    /\ Cardinality(KernelTerms) = Cardinality(Reference(call.family, IsaOf(call), call.n))

(***************************************************************************)
(* Every output of a call is written once, from the row or the column that *)
(* is its own, and nothing is written past the last one, although the      *)
(* kernels of many rows or columns never look at what is left of nrc.      *)
(***************************************************************************)
OutputsOwn ==
  Returned =>
    /\ \A o \in 0..(call.nrc - 1) :
         \E s \in 0..o : out[o] = {<<s, IF Shape(call) = "Nx1" THEN <<0, o>> ELSE <<o, 0>> >>}
    /\ \A o \in DOMAIN out : o >= call.nrc => out[o] = {}

(***************************************************************************)
(* Both together: what a call returns is, output by output, the sum that   *)
(* was asked for.                                                          *)
(***************************************************************************)
OutputsWhole == EveryPairOnce /\ OutputsOwn

(***************************************************************************)
(* "narrow keeps operands small enough that the AVX2 kernels' int16        *)
(* accumulator cannot overflow" and "the AVX-512 VNNI paths accumulate in  *)
(* int32 throughout and cannot" (kernel_bench.cpp): the operands within 8  *)
(* never wrap, those within 127 not where a VNNI kernel was asked for.     *)
(***************************************************************************)
NarrowIsExact ==
  Returned =>
    /\ Exact(8)
    /\ call.isa = "vnni" /\ (call.family = "i8" \/ call.forced \/ Shape(call) # "Nx1") => Exact(127)

(***************************************************************************)
(* "the AVX2 I2_S path is numerically exact here: ternary weights keep the *)
(* int16 partial sums small enough not to wrap" (ggml-lm-mad.cpp:1140).    *)
(***************************************************************************)
TernaryIsExact == Returned /\ call.family = "i2" => Exact(127)
==============================================================================
