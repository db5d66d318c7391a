----------------------------- MODULE EncoderGraph -----------------------------
(***************************************************************************)
(* The graphs src/src/vae.cpp builds for an encoder, one for every setting *)
(* of its switches, and the packs of weights it prepares for them.  A node *)
(* says which layout it reads and leaves ("CT": the channels of a frame    *)
(* are contiguous, "TC": the frames of a channel are), what it computes    *)
(* and in which order it wants its weight packed.  Values are left out.    *)
(***************************************************************************)
EXTENDS Integers, SequencesExt

CONSTANTS
  LastStage,   \* stages are 0..LastStage and convolution LastStage + 1 is the head
  Depth,  \* blocks of each stage
  Wide    \* the convolutions whose kernel times channels is a multiple of 32

ASSUME GraphAssumption ==
  /\ LastStage \in Nat /\ Depth \in [0..LastStage -> Nat \ {0}]
  /\ Wide \subseteq 1..(LastStage + 1)  \* one input channel makes the first narrow

Types == {"i8", "float"}
\* A configuration: the type of the weights, the host, the switches
\* VIBEASR_CONV_GEMM, _GEMM_PACKED, _DWCONV, _RES_FUSE and _STAGE6_PROJ.
Confs ==
  {c \in [type : Types, vnni : BOOLEAN, conv : BOOLEAN, packed : BOOLEAN,
          dw : BOOLEAN, res : BOOLEAN, keep : 0..(Depth[LastStage] + 1)] :
     c.type = "float" => c.keep = 0}  \* the projection is int8

Conv(k) == <<"conv", k>>
Fc1(i, j) == <<"fc1", i, j>>
Fc2(i, j) == <<"fc2", i, j>>
Proj == <<"proj">>
ConnectorFc1 == <<"connector1">>
ConnectorFc2 == <<"connector2">>

Node(op, reads, leaves, does) ==
  [op |-> op, reads |-> reads, leaves |-> leaves, does |-> does, order |-> "none"]

\* vibeasr_gemm_i8_f32 looks for a pack in natural order, or does without.
Gemm(c, op, reads, does, wide) ==
  [Node(op, reads, "CT", does) EXCEPT
     !.order = IF c.type = "i8" /\ c.packed /\ c.vnni /\ wide THEN "natural" ELSE "none"]

Linear(c, does) == <<Gemm(c, "linear", "CT", does, TRUE)>>
Transpose(from, to) == <<Node("cont_permute", from, to, <<>>)>>
------------------------------------------------------------------------------
ConvGemmOn(c) == c.vnni /\ c.conv
Eligible(c, k) == ConvGemmOn(c) /\ k \in Wide

\* A convolution: straight from CT, or through im2col.
ConvNodes(c, k, ct) ==
  IF ct THEN <<[Node("conv1d", "CT", "CT", <<Conv(k)>>) EXCEPT !.order = "frames"]>>
  ELSE IF c.type = "i8"
       THEN <<Node("im2col", "TC", "windows", <<>>),
              Gemm(c, "mul_mat_add", "windows", <<Conv(k)>>, k \in Wide)>>
       ELSE <<Node("conv_1d", "TC", "CT", <<Conv(k)>>)>>

(***************************************************************************)
(* ConvNeXtBlock::forward, its two halves.                                 *)
(***************************************************************************)
Mixer(c, i, j) ==
  <<Node("rms_norm", "CT", "CT", <<<<"norm1", i, j>>>>)>>
  \o (IF c.type = "i8" /\ c.dw /\ c.res
      THEN <<Node("dw_res", "CT", "CT", <<<<"dw", i, j>>, <<"res1", i, j>>>>)>>
      ELSE IF c.type = "i8" /\ c.dw
      THEN <<Node("dw_direct", "CT", "CT", <<<<"dw", i, j>>>>)>>
      ELSE Transpose("CT", "TC")
           \o (IF c.type = "i8"
               THEN <<Node("im2col_dw", "TC", "TC", <<<<"dw", i, j>>>>)>> \o Transpose("TC", "CT")
               ELSE <<Node("conv_1d_dw", "TC", "CT", <<<<"dw", i, j>>>>)>>))
  \o (IF c.type = "float" \/ ~(c.dw /\ c.res)
      THEN <<Node("add_scaled", "CT", "CT", <<<<"res1", i, j>>>>)>> ELSE <<>>)

Ffn(c, i, j) ==
  <<Node("rms_norm", "CT", "CT", <<<<"norm2", i, j>>>>)>>
  \o (IF c.type = "i8" THEN Linear(c, <<Fc1(i, j), <<"relu", i, j>>>>)
      ELSE Linear(c, <<Fc1(i, j)>>) \o <<Node("gelu", "CT", "CT", <<<<"gelu", i, j>>>>)>>)
  \o (IF c.type = "i8" /\ c.res THEN Linear(c, <<Fc2(i, j), <<"res2", i, j>>>>)
      ELSE Linear(c, <<Fc2(i, j)>>) \o <<Node("add_scaled", "CT", "CT", <<<<"res2", i, j>>>>)>>)

Blocks(c, i, n) == FlattenSeq([j \in 1..n |-> Mixer(c, i, j) \o Ffn(c, i, j)])

Kept(c, i) == IF i = LastStage /\ c.keep > 0 /\ c.keep < Depth[i] THEN c.keep ELSE Depth[i]

\* Variant: the transpose is left out whenever the path is on.
StageSwitch(c, i, ct) ==
  ConvNodes(c, i, ct)
  \o Blocks(c, i, Kept(c, i))
  \o (IF Kept(c, i) < Depth[i] THEN Linear(c, <<Proj>>) ELSE <<>>)
  \o (IF ConvGemmOn(c) THEN <<>> ELSE Transpose("CT", "TC"))

\* One turn of the loop of AudioVAEEncoder::forward.
Stage(c, i, ct) ==
  ConvNodes(c, i, ct)
  \o Blocks(c, i, Kept(c, i))
  \o (IF Kept(c, i) < Depth[i] THEN Linear(c, <<Proj>>) ELSE <<>>)
  \o (IF Eligible(c, i + 1) THEN <<>> ELSE Transpose("CT", "TC"))

\* AudioVAEEncoder::forward: stages, head, connector.
Graph(c) ==
  FlattenSeq([k \in 1..(LastStage + 1) |-> Stage(c, k - 1, k > 1 /\ Eligible(c, k - 1))])
  \o ConvNodes(c, LastStage + 1, Eligible(c, LastStage + 1))
  \o Linear(c, <<ConnectorFc1>>)
  \o <<Node("rms_norm", "CT", "CT", <<<<"norm">>>>)>>
  \o Linear(c, <<ConnectorFc2>>)

\* ggml_mul_mat_add_conv1d asserts that its operands are int8.
Refused(c) == c.type = "float" /\ \E n \in DOMAIN Graph(c) : Graph(c)[n].op = "conv1d"

\* The nodes that go to the pack cache, with the weight they ask for.
Lookups(c) ==
  LET g == Graph(c)
  IN  FlattenSeq([n \in DOMAIN g |-> IF g[n].order = "none" THEN <<>> ELSE <<g[n]>>])
Weight(node) == node.does[1]
Weights ==
  {Conv(k) : k \in 0..(LastStage + 1)} \cup {Proj, ConnectorFc1, ConnectorFc2}
  \cup UNION {UNION {{Fc1(i, j), Fc2(i, j)} : j \in 1..Depth[i]} : i \in 0..LastStage}

\* Variant: convolutions are packed for every host with the instruction.
PrepackAlways(c) ==
  [w \in Weights |->
     IF c.type # "i8" \/ ~c.vnni \/ w = Proj THEN "none"
     ELSE IF w[1] # "conv" THEN "natural"
     ELSE IF w[2] \in Wide THEN "frames" ELSE "none"]

\* What vae_load_model_from_file packs; the projection is loaded later.
Prepack(c) ==
  [w \in Weights |->
     IF c.type # "i8" \/ ~c.vnni \/ w = Proj THEN "none"
     ELSE IF w[1] # "conv" THEN "natural"
     ELSE IF Eligible(c, w[2]) THEN "frames" ELSE "none"]
------------------------------------------------------------------------------
\* What the encoder is trained to compute, step by step; a model of int8 weights
\* is one of ReLU.
Activation(c) == IF c.type = "i8" THEN "relu" ELSE "gelu"
TrainedBlock(c, i, j) ==
  << <<"norm1", i, j>>, <<"dw", i, j>>, <<"res1", i, j>>, <<"norm2", i, j>>,
     Fc1(i, j), <<Activation(c), i, j>>, Fc2(i, j), <<"res2", i, j>> >>
TrainedBlocks(c, i, n) == FlattenSeq([j \in 1..n |-> TrainedBlock(c, i, j)])
TrainedStage(c, i) ==
  <<Conv(i)>> \o (IF i = LastStage /\ c.keep \in 1..(Depth[i] - 1)
                  THEN TrainedBlocks(c, i, c.keep) \o <<Proj>> ELSE TrainedBlocks(c, i, Depth[i]))
Trained(c) ==
  FlattenSeq([k \in 1..(LastStage + 1) |-> TrainedStage(c, k - 1)])
  \o <<Conv(LastStage + 1), ConnectorFc1, <<"norm">>, ConnectorFc2>>

Computed(graph) == FlattenSeq([n \in DOMAIN graph |-> graph[n].does])

(***************************************************************************)
(* Every node reads the layout that the one before it left: the audio is   *)
(* one channel of frames, and the features come out frame by frame.        *)
(***************************************************************************)
LayoutsChain(c) ==
  LET g == Graph(c)
  IN  /\ g[1].reads = "TC" /\ g[Len(g)].leaves = "CT"
      /\ \A n \in 2..Len(g) : g[n].reads = g[n - 1].leaves

(***************************************************************************)
(* Whatever is fused, replaced or switched off, the nodes compute the      *)
(* trained steps in order, every residual and layer scale once.            *)
(***************************************************************************)
ComputesEncoder(c) == Computed(Graph(c)) = Trained(c)
==============================================================================
