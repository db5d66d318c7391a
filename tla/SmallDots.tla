------------------------------- MODULE SmallDots -------------------------------
(***************************************************************************)
(* The kernels of ggml-vae-i8_s-mad.cpp for rows of 2 to 16 bytes, where a *)
(* 256-bit register holds several weight columns, and the depthwise kernel *)
(* that takes four windows of 8 bytes at a time.  As in DotKernels a sum   *)
(* is the set of the pairs it multiplies; registers keep their real size.  *)
(***************************************************************************)
EXTENDS Integers, FiniteSets

CONSTANTS Kernels, Isas, RowCounts  \* names, "avx2", "neon" or "scalar", numbers of rows

ASSUME SmallAssumption ==
  /\ Kernels \subseteq {"n4_col8", "n8_col4", "n16_col2", "n2_col16", "n4_col2", "n2_col4", "batch_n8"}
  /\ Isas \subseteq {"avx2", "neon", "scalar"} /\ RowCounts \subseteq Nat

VARIABLES
  kern, isa, \* the kernel and the build
  rows,      \* nrc, ne11 for the depthwise kernel
  nextRow,   \* the next row
  cells      \* <<row, column>> |-> bag of pairs <<weight, activation>>, as a set of <<pair, time>>

smallVars == <<kern, isa, rows, nextRow, cells>>

Bytes(k) == CASE k = "n4_col8" -> 4 [] k = "n8_col4" -> 8 [] k = "n16_col2" -> 16 [] k = "n2_col16" -> 2
              [] k = "n4_col2" -> 4 [] k = "n2_col4" -> 2 [] k = "batch_n8" -> 8
Columns(k) == CASE k = "n4_col8" -> 8 [] k = "n8_col4" -> 4 [] k = "n16_col2" -> 2 [] k = "n2_col16" -> 16
                [] k = "n4_col2" -> 2 [] k = "n2_col4" -> 4 [] k = "batch_n8" -> 1

SmallInit ==
  /\ kern \in Kernels /\ isa \in Isas /\ rows \in RowCounts
  /\ nextRow = 0
  /\ cells = [c \in (0..(rows - 1)) \X (0..(Columns(kern) - 1)) |-> {}]

\* vpmaddubsw and vpmaddwd over positions: lane i of 32 bits adds four bytes.
Dwords == [i \in 0..7 |-> (4 * i)..(4 * i + 3)]
\* vphaddd of a register with itself: the sums of neighbours, within each half.
HAdd(v) == [i \in 0..7 |-> LET h == 4 * (i \div 4) + 2 * (i % 2) IN v[h] \cup v[h + 1]]

\* The lane a column is read from, and the positions of the register it sums.
N4Col8 == [c \in 0..7 |-> Dwords[c]]
\* Variant: the second pair of columns is read from the lanes that repeat the first.
N8Col4Straight == [c \in 0..3 |-> HAdd(Dwords)[c]]
N8Col4 == [c \in 0..3 |-> HAdd(Dwords)[<<0, 1, 4, 5>>[c + 1]]]
N16Col2 == [c \in 0..1 |-> HAdd(HAdd(Dwords))[<<0, 4>>[c + 1]]]
N2Col16 == [c \in 0..15 |-> {2 * c, 2 * c + 1}]
\* NEON: eight bytes, a dot product or a widening sum for each half or each pair.
N4Col2 == [c \in 0..1 |-> (4 * c)..(4 * c + 3)]
N2Col4 == [c \in 0..3 |-> {2 * c, 2 * c + 1}]
LanesOf(k) == CASE k = "n4_col8" -> N4Col8 [] k = "n8_col4" -> N8Col4 [] k = "n16_col2" -> N16Col2
              [] k = "n2_col16" -> N2Col16 [] k = "n4_col2" -> N4Col2 [] k = "n2_col4" -> N2Col4

\* The register of the activations repeats the row from end to end.
VectorRow ==
  /\ nextRow < rows /\ kern # "batch_n8"
  /\ isa = (IF kern \in {"n4_col2", "n2_col4"} THEN "neon" ELSE "avx2")
  /\ LET n == Bytes(kern) IN
     cells' = [c \in DOMAIN cells |->
                 IF c[1] = nextRow
                 THEN cells[c] \cup {<<<<p, nextRow * n + (p % n)>>, nextRow>> : p \in LanesOf(kern)[c[2]]}
                 ELSE cells[c]]
  /\ nextRow' = nextRow + 1 /\ UNCHANGED <<kern, isa, rows>>

ScalarRow ==
  /\ nextRow < rows /\ kern # "batch_n8"
  /\ isa # (IF kern \in {"n4_col2", "n2_col4"} THEN "neon" ELSE "avx2")
  /\ LET n == Bytes(kern) IN
     cells' = [c \in DOMAIN cells |->
                 IF c[1] = nextRow THEN cells[c] \cup {<<<<c[2] * n + k, nextRow * n + k>>, nextRow>> : k \in 0..(n - 1)}
                 ELSE cells[c]]
  /\ nextRow' = nextRow + 1 /\ UNCHANGED <<kern, isa, rows>>

\* Four windows at a time, each in a quarter of the register.
BatchFour ==
  /\ kern = "batch_n8" /\ isa # "scalar" /\ nextRow + 3 < rows
  /\ cells' = [c \in DOMAIN cells |->
                 IF c[1] \in nextRow..(nextRow + 3)
                 THEN cells[c] \cup {<<<<p % 8, nextRow * 8 + p>>, nextRow>> :
                                       p \in IF isa = "avx2" THEN N8Col4[c[1] - nextRow]
                                             ELSE (8 * (c[1] - nextRow))..(8 * (c[1] - nextRow) + 7)}
                 ELSE cells[c]]
  /\ nextRow' = nextRow + 4 /\ UNCHANGED <<kern, isa, rows>>

BatchOne ==
  /\ kern = "batch_n8" /\ nextRow < rows
  /\ isa = "scalar" \/ nextRow + 3 >= rows
  /\ cells' = [cells EXCEPT ![<<nextRow, 0>>] = @ \cup {<<<<k, nextRow * 8 + k>>, nextRow>> : k \in 0..7}]
  /\ nextRow' = nextRow + 1 /\ UNCHANGED <<kern, isa, rows>>

SmallNext == VectorRow \/ ScalarRow \/ BatchFour \/ BatchOne
SmallSpec == SmallInit /\ [][SmallNext]_smallVars

(***************************************************************************)
(* The columns share a register without sharing a product: each cell sums  *)
(* exactly the products of its column and its row, each once, for every    *)
(* number of rows, also where the rows are taken four at a time.           *)
(***************************************************************************)
SmallSumsOwn ==
  nextRow = rows =>
    \A c \in DOMAIN cells :
      LET n == Bytes(kern) IN
      /\ {x[1] : x \in cells[c]} = {<<c[2] * n + k, c[1] * n + k>> : k \in 0..(n - 1)}
      /\ Cardinality(cells[c]) = n
==============================================================================
