------------------------------- MODULE ConvGemm -------------------------------
(***************************************************************************)
(* The int8 convolution of an encoder as a matrix product: the 0xC1 node   *)
(* of the ggml patch, which reads windows straight from the activations,   *)
(* and the im2col route, with the kernels of ggml-vae-i8_s-mad.cpp behind  *)
(* them.  A sum of products is modelled as the set of the pairs of bytes   *)
(* it multiplies, <<index in the weights, index in the activations>>: the  *)
(* numbers are left out, and so are the flip of the weights to unsigned    *)
(* bytes and its correction, which cancel.  What is kept is which bytes    *)
(* meet, in which layout, and which cells of the result each block of a    *)
(* kernel writes.                                                          *)
(***************************************************************************)
EXTENDS Integers, FiniteSets

CONSTANTS
  Shapes,    \* records [kw, ic, oc, frames, stride]
  Threads,   \* numbers of threads of a pool
  Panel,     \* 16: weight columns of a panel of the pack
  Quad,      \* 4: bytes of a column in one lane
  RowTile,   \* 4: activation rows of a tile, in both VNNI kernels
  ColTile,   \* 4: weight columns of a tile (I8_TILE_N)
  RowBlock, ColBlock, Parallel, \* VAE_ROW_BLOCK_SIZE, _COL_BLOCK_SIZE, _PARALLEL_SIZE
  Block      \* 32: QK_I8_S

ASSUME GemmAssumption ==
  /\ Threads \subseteq Nat \ {0}
  /\ {Panel, Quad, RowTile, ColTile, RowBlock, ColBlock, Parallel, Block} \subseteq Nat \ {0}
  /\ Block % Quad = 0
  /\ \A s \in Shapes :
       /\ s \in [kw : Nat \ {0}, ic : Nat \ {0}, oc : Nat \ {0}, frames : Nat \ {0}, stride : Nat \ {0}]
       /\ s.stride <= s.kw /\ (s.kw * s.ic) % Block = 0

VARIABLES
  shape,   \* the convolution
  route,   \* "conv", or the kernel behind im2col: "packed", "tile", "blocks"
  nth,     \* threads
  pack,    \* i8_pack.data: position |-> index of a weight, or Hole
  ith,     \* the thread that works, nth when all are through
  row,     \* its next output frame
  sums,    \* cell <<frame, channel>> |-> the pairs summed in it
  writes   \* history: how often each cell was written

gemmVars == <<shape, route, nth, pack, ith, row, sums, writes>>

Zero == -1   \* an activation that is a padding zero
Hole == -1   \* a lane of the pack without a column
WindowSize(s) == s.kw * s.ic
Lead(s) == s.kw - s.stride    \* lp0
\* (frames + lp0 - kw) / stride + 1 in C: 1 for less than a stride of frames.
Rows(s) == IF s.frames < s.stride THEN 1 ELSE (s.frames - s.stride) \div s.stride + 1
Cells(s) == (0..(Rows(s) - 1)) \X (0..(s.oc - 1))
UpDiv(a, b) == (a + b - 1) \div b
Starts(n, step) == {step * i : i \in 0..(UpDiv(n, step) - 1)}
Smaller(a, b) == IF a < b THEN a ELSE b
------------------------------------------------------------------------------
(***************************************************************************)
(* The pack: where get_pack puts weight t of column c, in natural order or *)
(* in the order of the frames of a window.                                 *)
(***************************************************************************)
Vector == Panel * Quad
\* Variant: the columns of a convolution keep their natural order.
SourceNatural(s, t) == t

Source(s, t) == IF route = "conv" THEN (t % s.ic) * s.kw + t \div s.ic ELSE t

Put(s, panel, c, t) ==
  panel * (WindowSize(s) \div Quad) * Vector + (t \div Quad) * Vector + c * Quad + (t % Quad)

Filled(s) ==
  {x \in (0..(UpDiv(s.oc, Panel) - 1)) \X (0..(Panel - 1)) \X (0..(WindowSize(s) - 1)) :
     x[1] * Panel + x[2] < s.oc}

PackOf(s) ==
  [q \in 0..(UpDiv(s.oc, Panel) * (WindowSize(s) \div Quad) * Vector - 1) |->
     IF \E x \in Filled(s) : Put(s, x[1], x[2], x[3]) = q
     THEN LET x == CHOOSE y \in Filled(s) : Put(s, y[1], y[2], y[3]) = q
          IN  (x[1] * Panel + x[2]) * WindowSize(s) + Source(s, x[3])
     ELSE Hole]

\* Byte k of the activations a kernel takes for output frame r.
PadBuf(s, r) ==
  [k \in 0..(WindowSize(s) - 1) |->
     IF k < (Lead(s) - r * s.stride) * s.ic THEN Zero
     ELSE k - (Lead(s) - r * s.stride) * s.ic]
Window(s, r) == [k \in 0..(WindowSize(s) - 1) |-> (r * s.stride - Lead(s)) * s.ic + k]
ImToCol(s, r) ==
  [k \in 0..(WindowSize(s) - 1) |->
     LET frame == r * s.stride + (k % s.kw) - Lead(s)
     IN  IF frame \in 0..(s.frames - 1) THEN frame * s.ic + k \div s.kw ELSE Zero]
------------------------------------------------------------------------------
(***************************************************************************)
(* What a cell sums, and the rectangles of cells each kernel writes in a   *)
(* call with nr rows and nc columns.                                       *)
(***************************************************************************)
PackedSum(s, acts, c) ==
  LET quads == WindowSize(s) \div Quad
  IN  {<<pack[(c \div Panel) * quads * Vector + t * Vector + (c % Panel) * Quad + b],
         acts[t * Quad + b]>> : t \in 0..(quads - 1), b \in 0..(Quad - 1)}

\* vec_dot and the tile: whole blocks, both operands in natural order.
DotSum(s, acts, c) ==
  {<<c * WindowSize(s) + k, acts[k]>> : k \in 0..((WindowSize(s) \div Block) * Block - 1)}

Rect(r0, rn, c0, cn) == (r0..(r0 + rn - 1)) \X (c0..(c0 + cn - 1))

PackedRects(nr, nc) ==
  {Rect(r0, Smaller(nr - r0, RowTile), c0, Smaller(nc - c0, Panel)) :
     r0 \in Starts(nr, RowTile), c0 \in Starts(nc, Panel)}

\* Variant: the columns beside the whole tiles are forgotten.
TileRectsWhole(nr, nc) ==
  LET rows == nr - (nr % RowTile)
      cols == nc - (nc % ColTile)
  IN  {Rect(r0, RowTile, c0, ColTile) : r0 \in Starts(rows, RowTile), c0 \in Starts(cols, ColTile)}
      \cup {Rect(r, 1, c, 1) : r \in rows..(nr - 1), c \in 0..(nc - 1)}

\* Whole tiles, the columns left of each row of tiles, the rows left.
TileRects(nr, nc) ==
  LET rows == nr - (nr % RowTile)
      cols == nc - (nc % ColTile)
  IN  {Rect(r0, RowTile, c0, ColTile) : r0 \in Starts(rows, RowTile), c0 \in Starts(cols, ColTile)}
      \cup {Rect(r0 + r, 1, c, 1) : r0 \in Starts(rows, RowTile), r \in 0..(RowTile - 1), c \in cols..(nc - 1)}
      \cup {Rect(r, 1, c, 1) : r \in rows..(nr - 1), c \in 0..(nc - 1)}

\* Nx1 kernel for a block whose rows come in whole parallels, else row by row.
BlockAt(nr, nc, r0, c0) ==
  LET rows == Smaller(RowBlock, nr - r0)
      step == IF rows % Parallel = 0 THEN Parallel ELSE 1
  IN  {Rect(r0 + r, step, c0 + c, 1) :
         r \in Starts(rows, step), c \in 0..(Smaller(ColBlock, nc - c0) - 1)}

BlockRects(nr, nc) ==
  UNION {BlockAt(nr, nc, r0, c0) : r0 \in Starts(nr, RowBlock), c0 \in Starts(nc, ColBlock)}

\* ggml_gemv_i8_i8 for a single row; the tile wants two blocks at a time.
Rects(nr, nc) ==
  IF route \in {"conv", "packed"} THEN PackedRects(nr, nc)
  ELSE IF nr = 1 THEN {Rect(0, 1, c, 1) : c \in 0..(nc - 1)}
  ELSE IF route = "tile" /\ WindowSize(shape) % (2 * Block) = 0 THEN TileRects(nr, nc)
  ELSE BlockRects(nr, nc)

\* A call of vibeasr_gemm_i8_f32(_strided) for the frames from..upto - 1.
Gemm(from, upto, acts) ==
  LET rects == Rects(upto - from, shape.oc)
      Hits(cell) == Cardinality({rect \in rects : <<cell[1] - from, cell[2]>> \in rect})
      Sum(cell) == IF route \in {"conv", "packed"}
                   THEN PackedSum(shape, acts[cell[1]], cell[2])
                   ELSE DotSum(shape, acts[cell[1]], cell[2])
  IN  /\ sums' = [cell \in Cells(shape) |-> IF Hits(cell) > 0 THEN Sum(cell) ELSE sums[cell]]
      /\ writes' = [cell \in Cells(shape) |-> writes[cell] + Hits(cell)]
------------------------------------------------------------------------------
First(i) == UpDiv(Rows(shape), nth) * i
Upto(i) == Smaller(First(i) + UpDiv(Rows(shape), nth), Rows(shape))

GemmInit ==
  /\ shape \in Shapes /\ nth \in Threads
  /\ route \in {"conv", "packed", "tile", "blocks"}
  /\ pack = <<>> /\ ith = -1 /\ row = 0
  /\ sums = [cell \in Cells(shape) |-> {}]
  /\ writes = [cell \in Cells(shape) |-> 0]

\* At load, or when the first thread asks for it; the other kernels need none.
GetPack ==
  /\ ith = -1 /\ ith' = 0 /\ row' = First(0)
  /\ pack' = IF route \in {"conv", "packed"} THEN PackOf(shape) ELSE <<>>
  /\ UNCHANGED <<shape, route, nth, sums, writes>>

Working == ith \in 0..(nth - 1) /\ row < Upto(ith)

\* A leading frame whose window starts before the signal.
PadRow ==
  /\ Working /\ route = "conv" /\ row * shape.stride < Lead(shape)
  /\ Gemm(row, row + 1, [r \in {row} |-> PadBuf(shape, r)])
  /\ row' = row + 1
  /\ UNCHANGED <<shape, route, nth, pack, ith>>

DirectRows ==
  /\ Working /\ route = "conv" /\ row * shape.stride >= Lead(shape)
  /\ Gemm(row, Upto(ith), [r \in row..(Upto(ith) - 1) |-> Window(shape, r)])
  /\ row' = Upto(ith)
  /\ UNCHANGED <<shape, route, nth, pack, ith>>

LinearRows ==
  /\ Working /\ route # "conv"
  /\ Gemm(row, Upto(ith), [r \in row..(Upto(ith) - 1) |-> ImToCol(shape, r)])
  /\ row' = Upto(ith)
  /\ UNCHANGED <<shape, route, nth, pack, ith>>

NextThread ==
  /\ ith \in 0..(nth - 1) /\ ~Working
  /\ ith' = ith + 1
  /\ row' = IF ith + 1 < nth THEN First(ith + 1) ELSE row
  /\ UNCHANGED <<shape, route, nth, pack, sums, writes>>

GemmNext == GetPack \/ PadRow \/ DirectRows \/ LinearRows \/ NextThread
GemmSpec == GemmInit /\ [][GemmNext]_gemmVars
------------------------------------------------------------------------------
\* The pairs a causal convolution with lp0 leading zeros multiplies.
Convolution(s, r, o) ==
  {<<o * WindowSize(s) + x[1] * s.kw + x[2], (r * s.stride + x[2] - Lead(s)) * s.ic + x[1]>> :
     x \in {y \in (0..(s.ic - 1)) \X (0..(s.kw - 1)) :
              r * s.stride + y[2] - Lead(s) \in 0..(s.frames - 1)}}

Products(cell) == {pair \in sums[cell] : pair[2] # Zero}

Agrees == ith = nth => \A cell \in Cells(shape) : Products(cell) = Convolution(shape, cell[1], cell[2])

(***************************************************************************)
(* Whatever the route, the kernel, the ragged edges and the threads, every *)
(* cell is the convolution: each weight of its channel met, once, the byte *)
(* of the signal that belongs to it.  A signal shorter than the stride is  *)
(* not claimed.                                                            *)
(***************************************************************************)
SumsAreConvolution == shape.frames >= shape.stride => Agrees

(***************************************************************************)
(* No cell is written twice, by a tile or by a thread, and none is left.   *)
(***************************************************************************)
EveryCellOnce ==
  \A cell \in Cells(shape) : writes[cell] <= 1 /\ (ith = nth => writes[cell] = 1)

(***************************************************************************)
(* "integer dots are order-invariant: bit-identical to the im2col route"   *)
(* (the comment on ggml_mul_mat_add_conv1d in the patch), for any signal.  *)
(***************************************************************************)
RoutesAgree == Agrees
==============================================================================
