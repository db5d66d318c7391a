------------------------------- MODULE MCKernels -------------------------------
(***************************************************************************)
(* The numeric kernels and what surrounds them, one part in each           *)
(* behaviour: the pool of threads in the fused nodes, the convolution as a *)
(* matrix product, the dot products, the small rows, the epilogues, the    *)
(* threads that choose and count kernels, and the tool that makes a        *)
(* model's output head.  Registers, panels and tiles are scaled down; the  *)
(* sizes lie below, at and above each of them.                             *)
(***************************************************************************)
EXTENDS FusedNode, KernelStats, Requant, Epilogues, ConvGemm, SmallDots, DotKernels

(***************************************************************************)
(* Fused nodes: two layers of a causal two-tap convolution whose output    *)
(* magnitude also depends on the scale of its input, quantised to four     *)
(* levels: an output computed from a half-written input or by a partial    *)
(* maximum differs.                                                        *)
(***************************************************************************)
MCLevels == 0..3
MCMagnitudes == 0..13
MCKernel(k, x, s, c) == x[c] + (IF c > 0 THEN 2 * x[c - 1] ELSE 0) + (s % 3) + k
MCQuant(v, m) == IF m = 0 THEN 0 ELSE IF v >= m THEN 3 ELSE (v * 3) \div m
MCInput == [c \in Column |-> (3 * c + 1) % 4]

\* Windows of one and of two blocks, in channels and in frames.
MCShapes ==
  {[kw |-> k[1], ic |-> k[2], oc |-> o, frames |-> f, stride |-> s] :
     k \in {<<4, 1>>, <<2, 2>>, <<4, 2>>}, o \in {1, 3, 4}, f \in {1, 2, 5, 9, 12}, s \in {1, 2}}

\* Rows with and without ragged ends, longer than a group of steps, and so long
\* that narrow operands would wrap 16 bits without the groups.
LongRow == 257 * Vec
I8Sizes == {Vec, 3 * Vec + 3, 7 * Vec, 33 * Vec, LongRow}
I2Sizes == {4 * Vec * blocks : blocks \in {1, 2, 3, 33}}
MCCalls ==
  {c \in [family : {"i8", "i2"}, entry : {"dispatch", "1x1", "1xN", "Nx1"},
          isa : {"avx2", "vnni", "neon", "dotprod", "scalar"}, forced : BOOLEAN,
          n : I8Sizes \cup I2Sizes, nrc : {1, 3, 4, 8}] :
     /\ c.family = "i8" => c.n \in I8Sizes /\ ~c.forced
     /\ c.family = "i2" => c.n \in I2Sizes /\ c.isa # "scalar" /\ (c.forced => c.isa = "vnni")
     /\ c.n = LongRow => c.entry # "dispatch" /\ c.nrc \in {1, 4}
     /\ c.entry \in {"1xN", "Nx1"} => TakesRest(c) \/ c.nrc % ParallelSize = 0}

MCKernelNames == {"n4_col8", "n8_col4", "n16_col2", "n2_col16", "n4_col2", "n2_col4", "batch_n8"}
MCIsas == {"avx2", "neon", "scalar"}

MCTensors ==
  {t \in [op : {"dequant", "quant", "add_scaled", "resid", "dwconv"}, channels : {5, 11},
          frames : {3}, taps : {1, 3, 5}, wide : BOOLEAN] : t.op # "dwconv" => t.taps = 1}

\* Machines from one without AVX to one that grants the tiles.
NoCpu == [leaf |-> 7, osxsave |-> TRUE, avx |-> FALSE, fma |-> FALSE, ymm |-> FALSE, zmm |-> FALSE,
          avx2 |-> FALSE, avx512 |-> FALSE, vnni |-> FALSE, amx |-> FALSE, grant |-> FALSE, tiles |-> FALSE]
Avx2Cpu == [NoCpu EXCEPT !.avx = TRUE, !.fma = TRUE, !.ymm = TRUE, !.avx2 = TRUE]
VnniCpu == [Avx2Cpu EXCEPT !.zmm = TRUE, !.avx512 = TRUE, !.vnni = TRUE]
AmxCpu == [VnniCpu EXCEPT !.amx = TRUE]
MCCpus ==
  {NoCpu, [NoCpu EXCEPT !.leaf = 0, !.osxsave = FALSE], [NoCpu EXCEPT !.avx = TRUE, !.ymm = TRUE], Avx2Cpu,
   [VnniCpu EXCEPT !.zmm = FALSE], [VnniCpu EXCEPT !.vnni = FALSE], VnniCpu, AmxCpu,
   [AmxCpu EXCEPT !.grant = TRUE], [AmxCpu EXCEPT !.grant = TRUE, !.tiles = TRUE]}
MCOverrides == {-1, 0, 2, 4}

\* The head is the first, the only or the last tensor; reads fail, types do not suit.
Tensor(name, height) == [name |-> name, rows |-> height, whole |-> TRUE, fits |-> TRUE, known |-> TRUE]
MCFiles ==
  {<<Tensor("head", 5), Tensor("norm", 1)>>, <<Tensor("head", 1)>>,
   <<Tensor("embd", 2), Tensor("norm", 1), Tensor("head", 7)>>, <<Tensor("embd", 2)>>,
   <<[Tensor("embd", 2) EXCEPT !.whole = FALSE], Tensor("head", 5)>>,
   <<[Tensor("head", 5) EXCEPT !.fits = FALSE]>>, <<[Tensor("head", 5) EXCEPT !.known = FALSE]>>}
MCJobs == [target : {"head"}, drop : BOOLEAN, threads : {0, 1, 3, 8}]

VARIABLE part

\* Variables of the parts that do not run.
NoFused ==
  /\ step = [t \in Thread |-> 0] /\ arrived = [t \in Thread |-> FALSE]
  /\ buf = [c \in Column |-> 0] /\ tmax = [t \in Thread |-> 0]
  /\ act = [k \in 0..Nodes |-> Input] /\ scale = [k \in 0..Nodes |-> 0]
NoGemm ==
  /\ shape = (CHOOSE s \in Shapes : TRUE) /\ nth = (CHOOSE n \in Threads : TRUE) /\ route = "conv"
  /\ pack = <<>> /\ ith = -1 /\ row = 0
  /\ sums = [cell \in Cells(shape) |-> {}] /\ writes = [cell \in Cells(shape) |-> 0]
NoDots == call = (CHOOSE c \in Calls : TRUE) /\ at = 0 /\ out = <<>>
NoSmall ==
  /\ kern = (CHOOSE k \in Kernels : TRUE) /\ isa = (CHOOSE i \in Isas : TRUE)
  /\ rows = (CHOOSE n \in RowCounts : TRUE) /\ nextRow = 0
  /\ cells = [c \in (0..(rows - 1)) \X (0..(Columns(kern) - 1)) |-> {}]
NoEpilogue ==
  tensor = (CHOOSE t \in Tensors : TRUE) /\ cuts = {} /\ done = 0 /\ elems = <<>> /\ peak = {}
NoStats ==
  /\ cpu = 0 /\ forced = -1 /\ statsOn = 0 /\ cached = -1 /\ pc = 0 /\ next = 0
  /\ answer = [w \in Workers |-> -1] /\ slot = [w \in Workers |-> -1]
  /\ read = 0 /\ calls = 0 /\ left = 0 /\ dumped = -1
NoRequant == stage = 0 /\ file = 0 /\ job = 0 /\ blobs = 0 /\ qdata = 0 /\ pool = 0 /\ written = {} /\ rc = -1

KernelsInit ==
  /\ part \in {"fused", "gemm", "dots", "small", "epilogue", "stats", "requant"}
  /\ IF part = "fused" THEN Init ELSE NoFused
  /\ IF part = "gemm" THEN GemmInit ELSE NoGemm
  /\ IF part = "dots" THEN DotInit ELSE NoDots
  /\ IF part = "small" THEN SmallInit ELSE NoSmall
  /\ IF part = "epilogue" THEN EpilogueInit ELSE NoEpilogue
  /\ IF part = "stats" THEN StatsInit ELSE NoStats
  /\ IF part = "requant" THEN ToolInit ELSE NoRequant

KernelsNext ==
  \/ part = "fused" /\ Next /\ UNCHANGED <<part, gemmVars, dotVars, smallVars, epilogueVars, statsVars, toolVars>>
  \/ part = "gemm" /\ GemmNext /\ UNCHANGED <<part, vars, dotVars, smallVars, epilogueVars, statsVars, toolVars>>
  \/ part = "dots" /\ DotNext /\ UNCHANGED <<part, vars, gemmVars, smallVars, epilogueVars, statsVars, toolVars>>
  \/ part = "small" /\ SmallNext /\ UNCHANGED <<part, vars, gemmVars, dotVars, epilogueVars, statsVars, toolVars>>
  \/ part = "epilogue" /\ EpilogueNext /\ UNCHANGED <<part, vars, gemmVars, dotVars, smallVars, statsVars, toolVars>>
  \/ part = "stats" /\ StatsNext /\ UNCHANGED <<part, vars, gemmVars, dotVars, smallVars, epilogueVars, toolVars>>
  \/ part = "requant" /\ ToolNext /\ UNCHANGED <<part, vars, gemmVars, dotVars, smallVars, epilogueVars, statsVars>>

all == <<part, vars, gemmVars, dotVars, smallVars, epilogueVars, statsVars, toolVars>>

\* Every thread of the pool is scheduled.
KernelsSpec ==
  /\ KernelsInit /\ [][KernelsNext]_all
  /\ \A t \in Thread : WF_vars(part = "fused" /\ ThreadStep(t) /\
                             UNCHANGED <<part, gemmVars, dotVars, smallVars, epilogueVars, statsVars, toolVars>>)
--------------------------------------------------------------------------------
(***************************************************************************)
(* No barrier is left waiting: every thread reaches the end of the graph   *)
(* (FusedNode!EveryThreadFinishes).                                        *)
(***************************************************************************)
PoolFinishes == part = "fused" => EveryThreadFinishes
==============================================================================
