-------------------------- MODULE EncodePair_proofs --------------------------
(***************************************************************************)
(* Proofs about EncodePair: for any number of threads and processors the   *)
(* two encoders own their cores while they run at once, and whatever fails *)
(* and whenever, the cores and threads are given back.                     *)
(***************************************************************************)
EXTENDS EncodePair, DataInduction

(***************************************************************************)
(* The invariant: who has which cores at each place of main, and what a    *)
(* number of frames says of the encoder that returned it.                  *)
(***************************************************************************)
Shapes ==
  /\ nThreads \in Nat \ {0} /\ cpus \in Nat \ {0}
  /\ main \in {"load", "ready", "pin", "acoustic", "join", "semantic",
               "check", "prompt", "failed", "aborted"}
  /\ mask \in [main : SUBSET Int, se : SUBSET Int]
  /\ poolOf \in [vae_ctx : Nat, vae_ctx2 : Nat]
  /\ DOMAIN todo = Encoders
  /\ frames \in [Encoders -> {-1, 1}]

Whole ==
  /\ se = "none" /\ mask.main = AllCpus
  /\ poolOf = [vae_ctx |-> nThreads, vae_ctx2 |-> 0]

Paired ==
  /\ InParallel /\ se \in {"new", "running", "done"}
  /\ poolOf = [vae_ctx |-> TAc, vae_ctx2 |-> TSe]
  /\ mask.se = IF se = "new" THEN AllCpus ELSE Pinned(AllCpus, TAc, TAc + TSe)

PairedAndPinned == Paired /\ mask.main = Pinned(AllCpus, 0, TAc)

Places ==
  /\ main = "load" => se = "none" /\ mask.main = AllCpus /\ poolOf = [vae_ctx |-> 0, vae_ctx2 |-> 0]
  /\ main \in {"ready", "semantic", "check", "prompt", "failed"} => Whole
  /\ main = "pin" => Paired /\ mask.main = AllCpus
  /\ main = "acoustic" => Whole \/ PairedAndPinned
  /\ main = "join" => PairedAndPinned
  /\ main = "aborted" => se = "none"

Through ==
  /\ \A e \in Encoders : frames[e] > 0 => e \in built /\ todo[e] = <<>>
  /\ main = "prompt" => \A e \in Encoders : frames[e] > 0

PairInv == Shapes /\ Places /\ Through

LEMMA HalvesOfThreads ==
  ASSUME nThreads \in Nat
  PROVE  /\ TAc \in Nat /\ TSe \in Nat /\ TAc + TSe = nThreads
         /\ InParallel => TAc > 0 /\ TSe > 0
BY DEF TAc, TSe, InParallel

LEMMA PinnedType ==
  ASSUME NEW old \in SUBSET Int, NEW lo \in Int, NEW hi \in Int
  PROVE  Pinned(old, lo, hi) \in SUBSET Int
BY DEF Pinned

LEMMA PairInit == Init => PairInv
<1> SUFFICES ASSUME Init PROVE PairInv
  OBVIOUS
<1>1. Shapes
  BY PairAssumption DEF Init, Shapes, AllCpus
<1> QED BY <1>1 DEF Init, PairInv, Places, Through, Encoders

\* What only depends on these stays with them.
LEMMA PlacesKept ==
  ASSUME UNCHANGED <<nThreads, parEnc, cpus, se, mask, poolOf>>
  PROVE  /\ Whole' = Whole /\ Paired' = Paired /\ PairedAndPinned' = PairedAndPinned
         /\ AllCpus' = AllCpus
BY DEF Whole, Paired, PairedAndPinned, AllCpus, Pinned, InParallel, TAc, TSe

\* Steps of main before and after encoding.
LEMMA MainKeeps == PairInv /\ MainStep => PairInv'
<1> SUFFICES ASSUME PairInv, MainStep PROVE PairInv'
  OBVIOUS
<1>1. Shapes /\ Places /\ Through
  BY DEF PairInv
<1>2. UNCHANGED <<nThreads, parEnc, cpus, built, todo, frames>>
  BY DEF MainStep, Load, StartPair, StartFails, PinMain, StartOneByOne, Join, Check
<1>3. AllCpus' = AllCpus /\ AllCpus \in SUBSET Int
  BY <1>2 DEF AllCpus
<1>4. TAc' = TAc /\ TSe' = TSe /\ InParallel' = InParallel
  BY <1>2 DEF TAc, TSe, InParallel
<1>5. TAc \in Nat /\ TSe \in Nat
  BY <1>1, HalvesOfThreads DEF Shapes
<1>6. \A o, lo, hi : Pinned(o, lo, hi)' = Pinned(o, lo, hi)
  BY <1>2 DEF Pinned, AllCpus
<1>7. Shapes' /\ Places'
  <2>1. CASE Load
    <3>1. /\ main = "load" /\ main' = "ready" /\ se' = se /\ mask' = mask
          /\ poolOf' = [vae_ctx |-> nThreads, vae_ctx2 |-> 0]
      BY <1>1, <2>1 DEF Load, Places
    <3> QED BY <1>1, <1>2, <1>3, <3>1 DEF Shapes, Places, Whole
  <2>2. CASE StartPair
    <3>1. /\ main = "ready" /\ InParallel /\ se' = "new" /\ main' = "pin"
          /\ mask' = [mask EXCEPT !.se = mask.main]
          /\ poolOf' = [vae_ctx |-> TAc, vae_ctx2 |-> TSe]
      BY <2>2 DEF StartPair
    <3>2. mask.main = AllCpus
      BY <1>1, <3>1 DEF Places, Whole
    <3>3. mask' = [main |-> AllCpus, se |-> AllCpus]
      BY <1>1, <3>1, <3>2 DEF Shapes
    <3>4. Paired' /\ mask'.main = AllCpus'
      BY <1>3, <1>4, <3>1, <3>3 DEF Paired
    <3> QED BY <1>1, <1>2, <1>3, <1>5, <3>1, <3>3, <3>4 DEF Shapes, Places
  <2>3. CASE StartFails \/ StartOneByOne \/ Check
    <3>1. /\ main \in {"ready", "check"} /\ main' \in {"failed", "acoustic", "prompt"}
          /\ UNCHANGED <<se, mask, poolOf>>
      BY <2>3 DEF StartFails, StartOneByOne, Check
    <3>2. Whole'
      BY <1>1, <1>2, <3>1, PlacesKept DEF Places
    <3> QED BY <1>1, <1>2, <3>1, <3>2 DEF Shapes, Places
  <2>4. CASE PinMain
    <3>1. /\ main = "pin" /\ main' = "acoustic" /\ UNCHANGED <<se, poolOf>>
          /\ mask' = [mask EXCEPT !.main = Pinned(mask.main, 0, TAc)]
      BY <2>4 DEF PinMain
    <3>2. Paired /\ mask.main = AllCpus
      BY <1>1, <3>1 DEF Places
    <3>3. Pinned(AllCpus, 0, TAc) \in SUBSET Int
      BY <1>3, <1>5, PinnedType
    <3>4. mask' = [main |-> Pinned(AllCpus, 0, TAc), se |-> mask.se]
      BY <1>1, <3>1, <3>2 DEF Shapes
    <3>5. Pinned(AllCpus, 0, TAc)' = Pinned(AllCpus, 0, TAc)
      BY <1>3, <1>4 DEF Pinned
    <3>6. Pinned(AllCpus, TAc, TAc + TSe)' = Pinned(AllCpus, TAc, TAc + TSe)
      BY <1>3, <1>4 DEF Pinned
    <3>7. PairedAndPinned'
      BY <1>3, <1>4, <3>1, <3>2, <3>4, <3>5, <3>6 DEF Paired, PairedAndPinned
    <3> QED BY <1>1, <1>2, <3>1, <3>3, <3>4, <3>7 DEF Shapes, Places
  <2>5. CASE Join
    <3>1. /\ main = "join" /\ main' = "check" /\ se' = "none"
          /\ mask' = [mask EXCEPT !.main = AllCpus]
          /\ poolOf' = [vae_ctx |-> nThreads, vae_ctx2 |-> 0]
      BY <2>5 DEF Join
    <3>2. mask' = [main |-> AllCpus, se |-> mask.se]
      BY <1>1, <3>1 DEF Shapes
    <3> QED BY <1>1, <1>2, <1>3, <3>1, <3>2 DEF Shapes, Places, Whole
  <2> QED BY <2>1, <2>2, <2>3, <2>4, <2>5 DEF MainStep
<1>8. Through'
  <2>1. main' = "prompt" => Check
    BY DEF MainStep, Load, StartPair, StartFails, PinMain, StartOneByOne, Join
  <2>2. Check /\ main' = "prompt" => \A e \in Encoders : frames[e] > 0
    BY <1>1 DEF Check, Shapes
  <2> QED BY <1>1, <1>2, <2>1, <2>2 DEF Through
<1> QED BY <1>7, <1>8 DEF PairInv

\* Steps of the encoders.
LEMMA EncoderKeeps ==
  ASSUME PairInv, NEW e \in Encoders, Build(e) \/ GetPack(e)
  PROVE  PairInv'
<1>1. Shapes /\ Places /\ Through
  BY DEF PairInv
<1>2. UNCHANGED <<nThreads, parEnc, cpus, poolOf, mask, frames>>
  BY DEF Build, GetPack
<1>3. \/ main' = "aborted" /\ se' = "none"
      \/ main' = main /\ se' = se
  BY DEF Build, GetPack
<1>4. DOMAIN todo' = Encoders
  BY <1>1 DEF Build, GetPack, Shapes
<1>5. Places'
  <2>1. CASE main' = "aborted" /\ se' = "none"
    BY <2>1 DEF Places
  <2>2. CASE main' = main /\ se' = se
    BY <1>1, <1>2, <2>2, PlacesKept DEF Places
  <2> QED BY <1>3, <2>1, <2>2
<1>6. Through'
  <2>1. \A x \in Encoders : frames[x] > 0 =>
          x # e /\ built \subseteq built' /\ todo'[x] = todo[x]
    BY <1>1 DEF Build, GetPack, Through, Shapes
  <2>2. main' = "prompt" => main = "prompt"
    BY <1>3
  <2> QED BY <1>1, <1>2, <2>1, <2>2 DEF Through
<1>7. Shapes'
  BY <1>1, <1>2, <1>3, <1>4 DEF Shapes
<1> QED BY <1>5, <1>6, <1>7 DEF PairInv

LEMMA ReturnKeeps ==
  ASSUME PairInv, NEW n \in {-1, 1}, ReturnAcoustic(n) \/ ReturnSemantic(n)
  PROVE  PairInv'
<1>1. Shapes /\ Places /\ Through
  BY DEF PairInv
<1>2. UNCHANGED <<nThreads, parEnc, cpus, poolOf, mask, built, todo>>
  BY DEF ReturnAcoustic, ReturnSemantic
<1>3. PICK e \in Encoders : Return(e, n)
  BY DEF ReturnAcoustic, ReturnSemantic, Encoders
<1>4. /\ frames' = [frames EXCEPT ![e] = n] /\ frames' \in [Encoders -> {-1, 1}]
      /\ n = 1 => (e \in built /\ todo[e] = <<>>)
  BY <1>1, <1>3 DEF Return, Shapes
<1>5. main' # "prompt"
  BY <1>1 DEF ReturnAcoustic, ReturnSemantic, Return, Encoding, Places, Whole
<1>6. Through'
  <2>1. \A x \in Encoders : frames'[x] > 0 => x \in built /\ todo[x] = <<>>
    BY <1>1, <1>4 DEF Through, Shapes
  <2> QED BY <1>2, <1>5, <2>1 DEF Through
<1>7. Places' /\ main' \in {"join", "semantic", "check", "pin", "acoustic", "aborted"}
  <2>1. CASE ReturnAcoustic(n)
    <3>1. /\ main = "acoustic" /\ se' = se
          /\ \/ se # "none" /\ main' = "join"
             \/ se = "none" /\ main' \in {"check", "semantic"}
      BY <2>1 DEF ReturnAcoustic, Return, Encoding
    <3>2. Whole' = Whole /\ PairedAndPinned' = PairedAndPinned
      BY <1>2, <3>1, PlacesKept
    <3>3. (se = "none" => Whole) /\ (se # "none" => PairedAndPinned)
      BY <1>1, <3>1 DEF Places, Whole, Paired, PairedAndPinned
    <3> QED BY <3>1, <3>2, <3>3 DEF Places
  <2>2. CASE ReturnSemantic(n) /\ main = "semantic"
    <3>1. main' = "check" /\ se' = se
      BY <2>2 DEF ReturnSemantic
    <3>2. Whole'
      BY <1>1, <1>2, <2>2, <3>1, PlacesKept DEF Places
    <3> QED BY <3>1, <3>2 DEF Places
  <2>3. CASE ReturnSemantic(n) /\ main # "semantic"
    <3>1. se = "running" /\ se' = "done" /\ main' = main
      BY <2>3 DEF ReturnSemantic, Return, Encoding
    <3>2. Paired => Paired'
      BY <1>2, <3>1 DEF Paired, InParallel, TAc, TSe, Pinned, AllCpus
    <3>3. PairedAndPinned => PairedAndPinned'
      BY <1>2, <3>2 DEF PairedAndPinned, TAc, Pinned, AllCpus
    <3>4. main \in {"pin", "acoustic", "join"} /\ AllCpus' = AllCpus
      BY <1>1, <1>2, <3>1 DEF Places, Whole, Shapes, AllCpus
    <3> QED BY <1>1, <1>2, <3>1, <3>2, <3>3, <3>4 DEF Places, Whole
  <2> QED BY <2>1, <2>2, <2>3
<1>8. Shapes'
  BY <1>1, <1>2, <1>4, <1>7 DEF Shapes
<1> QED BY <1>6, <1>7, <1>8 DEF PairInv

LEMMA PinSemanticKeeps == PairInv /\ PinSemantic => PairInv'
<1> SUFFICES ASSUME PairInv, PinSemantic PROVE PairInv'
  OBVIOUS
<1>1. Shapes /\ Places /\ Through
  BY DEF PairInv
<1>2. /\ se = "new" /\ se' = "running"
      /\ mask' = [mask EXCEPT !.se = Pinned(mask.se, TAc, TAc + TSe)]
      /\ UNCHANGED <<nThreads, parEnc, cpus, main, poolOf, built, todo, frames>>
  BY DEF PinSemantic
<1>3. main \in {"pin", "acoustic", "join"} /\ Paired
  BY <1>1, <1>2 DEF Places, Whole, PairedAndPinned, Shapes
<1>4. /\ TAc \in Nat /\ TSe \in Nat /\ AllCpus \in SUBSET Int /\ mask.se = AllCpus
  BY <1>1, <1>2, <1>3, HalvesOfThreads DEF Shapes, Paired, AllCpus
<1>5. Pinned(AllCpus, TAc, TAc + TSe) \in SUBSET Int
  BY <1>4, PinnedType
<1>6. mask' = [main |-> mask.main, se |-> Pinned(AllCpus, TAc, TAc + TSe)]
  BY <1>1, <1>2, <1>4 DEF Shapes
<1>7. AllCpus' = AllCpus /\ TAc' = TAc /\ TSe' = TSe /\ InParallel' = InParallel
  BY <1>2 DEF AllCpus, TAc, TSe, InParallel
<1>8. /\ Pinned(AllCpus, TAc, TAc + TSe)' = Pinned(AllCpus, TAc, TAc + TSe)
      /\ Pinned(AllCpus, 0, TAc)' = Pinned(AllCpus, 0, TAc)
  BY <1>7 DEF Pinned
<1>9. Paired' /\ mask'.main = mask.main
  BY <1>2, <1>3, <1>6, <1>7, <1>8 DEF Paired
<1>10. Places'
  BY <1>1, <1>2, <1>3, <1>7, <1>8, <1>9 DEF Places, Whole, PairedAndPinned
<1>11. Shapes'
  BY <1>1, <1>2, <1>5, <1>6 DEF Shapes
<1>12. Through'
  BY <1>1, <1>2 DEF Through
<1> QED BY <1>10, <1>11, <1>12 DEF PairInv

LEMMA PairStep == PairInv /\ [Next]_vars => PairInv'
<1> SUFFICES ASSUME PairInv, [Next]_vars PROVE PairInv'
  OBVIOUS
<1>1. CASE MainStep
  BY <1>1, MainKeeps
<1>2. CASE PinSemantic
  BY <1>2, PinSemanticKeeps
<1>3. ASSUME NEW n \in {-1, 1}, ReturnAcoustic(n) \/ ReturnSemantic(n) PROVE PairInv'
  BY <1>3, ReturnKeeps
<1>4. ASSUME NEW e \in Encoders, Build(e) \/ GetPack(e) PROVE PairInv'
  BY <1>4, EncoderKeeps
<1>5. CASE UNCHANGED vars
  <2>1. UNCHANGED <<nThreads, parEnc, cpus, main, se, mask, poolOf, built, todo, frames>>
    BY <1>5 DEF vars
  <2> QED BY <2>1, PlacesKept DEF PairInv, Shapes, Places, Through
<1> QED BY <1>1, <1>2, <1>3, <1>4, <1>5 DEF Next

(***************************************************************************)
(* The parts of the processors.                                            *)
(***************************************************************************)
LEMMA PinnedPart ==
  ASSUME NEW lo \in Nat, NEW n \in Nat \ {0}, cpus \in Nat, lo + n <= cpus
  PROVE  /\ Pinned(AllCpus, lo, lo + n) = lo..(lo + n - 1)
         /\ Cardinality(Pinned(AllCpus, lo, lo + n)) = n
<1>1. (lo..((lo + n) - 1)) \cap AllCpus = lo..(lo + n - 1) /\ lo \in lo..(lo + n - 1)
  BY DEF AllCpus
<1>2. Pinned(AllCpus, lo, lo + n) = lo..(lo + n - 1)
  <2>1. lo..(lo + n - 1) # {}
    BY <1>1
  <2> QED BY <1>1, <2>1, Zenon DEF Pinned
<1>3. lo \in Int /\ lo + n - 1 \in Int /\ ~ (lo > lo + n - 1) /\ (lo + n - 1) - lo + 1 = n
  OBVIOUS
<1> QED BY <1>2, <1>3, FS_Interval

(***************************************************************************)
(* On any host with as many processors as threads, the pools of the two    *)
(* encoders share no core while both are encoding, and each has a core for *)
(* every thread (the affinity masks of steps 4 and 5 of asr_infer).        *)
(***************************************************************************)
THEOREM CoresAlwaysOwned == Spec => []CoresOwned
<1>1. PairInv => CoresOwned
  <2> SUFFICES ASSUME PairInv, main \in {"acoustic", "join"}, se \in {"running", "done"},
                      nThreads <= cpus
               PROVE  /\ mask.main \cap mask.se = {}
                      /\ Cardinality(mask.main) = poolOf.vae_ctx /\ poolOf.vae_ctx > 0
                      /\ Cardinality(mask.se) = poolOf.vae_ctx2 /\ poolOf.vae_ctx2 > 0
    BY DEF CoresOwned
  <2>1. PairedAndPinned /\ nThreads \in Nat /\ cpus \in Nat
    BY DEF PairInv, Shapes, Places, Whole
  <2>2. /\ poolOf.vae_ctx = TAc /\ poolOf.vae_ctx2 = TSe
        /\ mask.main = Pinned(AllCpus, 0, TAc) /\ mask.se = Pinned(AllCpus, TAc, TAc + TSe)
        /\ InParallel
    BY <2>1 DEF PairedAndPinned, Paired
  <2>3. TAc \in Nat \ {0} /\ TSe \in Nat \ {0} /\ TAc + TSe <= cpus
    BY <2>1, <2>2, HalvesOfThreads
  <2>4. Pinned(AllCpus, 0, 0 + TAc) = 0..(0 + TAc - 1) /\ Cardinality(Pinned(AllCpus, 0, 0 + TAc)) = TAc
    <3>1. 0 + TAc <= cpus
      BY <2>1, <2>3
    <3> QED BY <2>1, <2>3, <3>1, PinnedPart
  <2>5. /\ Pinned(AllCpus, TAc, TAc + TSe) = TAc..(TAc + TSe - 1)
        /\ Cardinality(Pinned(AllCpus, TAc, TAc + TSe)) = TSe
    BY <2>1, <2>3, PinnedPart
  <2>6. 0 + TAc = TAc
    BY <2>3
  <2>7. (0..(TAc - 1)) \cap (TAc..(TAc + TSe - 1)) = {}
    BY <2>3
  <2> QED BY <2>2, <2>3, <2>4, <2>5, <2>6, <2>7
<1> QED BY <1>1, PairInit, PairStep, PTL DEF Spec

(***************************************************************************)
(* Whichever encoder fails and at whatever point, the rest of the program  *)
(* has all cores and threads again and nobody else is encoding; a prompt   *)
(* is built only from two encoders that went through all their nodes.      *)
(***************************************************************************)
THEOREM AlwaysWholeAgain == Spec => []WholeAgain
<1>1. PairInv => WholeAgain
  BY DEF PairInv, Places, Through, Whole, WholeAgain
<1> QED BY <1>1, PairInit, PairStep, PTL DEF Spec

------------------------------------------------------------------------------
(***************************************************************************)
(* The graph.  Its parts are segments: sequences of nodes that read one    *)
(* layout and leave another, compute certain steps and ask for a weight in *)
(* one order only.  Segments joined are segments.                          *)
(***************************************************************************)
Layouts == {"TC", "CT", "windows"}
Ops ==
  {"linear", "cont_permute", "conv1d", "im2col", "mul_mat_add", "conv_1d", "rms_norm", "dw_res",
   "dw_direct", "im2col_dw", "conv_1d_dw", "add_scaled", "gelu"}
StepNames == {"conv", "norm1", "dw", "res1", "norm2", "fc1", "relu", "gelu", "fc2", "res2"}
Steps ==
  (StepNames \X Nat \X Nat) \cup (StepNames \X Nat)
  \cup {Proj, ConnectorFc1, ConnectorFc2, <<"norm">>}

OrderOf(c, w) == IF w[1] = "conv" /\ Eligible(c, w[2]) THEN "frames" ELSE "natural"

Nodes(c) ==
  {n \in [op : Ops, reads : Layouts, leaves : Layouts, does : Seq(Steps),
          order : {"none", "natural", "frames"}] :
     n.order # "none" => Weight(n) \in Weights /\ n.order = OrderOf(c, Weight(n))}

Runs(g, from, to) ==
  \/ g = <<>> /\ from = to
  \/ /\ g # <<>> /\ g[1].reads = from /\ g[Len(g)].leaves = to
     /\ \A n \in 2..Len(g) : g[n].reads = g[n - 1].leaves

Segment(c, g, from, to, steps) ==
  g \in Seq(Nodes(c)) /\ Runs(g, from, to) /\ Computed(g) = steps

Does(g) == [n \in DOMAIN g |-> g[n].does]

LEMMA DoesOf ==
  ASSUME NEW c, NEW g \in Seq(Nodes(c))
  PROVE  /\ Does(g) \in Seq(Seq(Steps)) /\ Len(Does(g)) = Len(g)
         /\ \A n \in 1..Len(g) : Does(g)[n] = g[n].does
         /\ Computed(g) = FlattenSeq(Does(g)) /\ Computed(g) \in Seq(Steps)
<1>1. \A n \in 1..Len(g) : g[n].does \in Seq(Steps)
  BY DEF Nodes
<1>2. DOMAIN g = 1..Len(g) /\ Len(g) \in Nat
  OBVIOUS
<1> HIDE DEF Steps
<1>3. /\ Does(g) \in Seq(Seq(Steps)) /\ Len(Does(g)) = Len(g)
      /\ \A n \in 1..Len(g) : Does(g)[n] = g[n].does
  BY <1>1, <1>2 DEF Does
<1>4. Computed(g) = FlattenSeq(Does(g))
  BY DEF Computed, Does
<1> QED BY <1>3, <1>4, FlattenType

LEMMA DoesJoined ==
  ASSUME NEW c, NEW g \in Seq(Nodes(c)), NEW h \in Seq(Nodes(c))
  PROVE  Does(g \o h) = Does(g) \o Does(h)
<1> DEFINE T == Seq(Steps)
           N == Nodes(c)
           gh == g \o h
           x == Len(g)
           y == Len(h)
<1> HIDE DEF T, N
<1>1. /\ x \in Nat /\ y \in Nat /\ gh \in Seq(N) /\ Len(gh) = x + y
      /\ \A i \in 1..x : gh[i] = g[i]
      /\ \A i \in 1..y : gh[x + i] = h[i]
  BY ConcatParts DEF N
<1>2. /\ Does(g) \in Seq(T) /\ Len(Does(g)) = x /\ \A i \in 1..x : Does(g)[i] = g[i].does
      /\ Does(h) \in Seq(T) /\ Len(Does(h)) = y /\ \A i \in 1..y : Does(h)[i] = h[i].does
  BY DoesOf DEF T
<1> HIDE DEF gh
<1>3. /\ Does(gh) \in Seq(T) /\ Len(Does(gh)) = x + y
      /\ \A i \in 1..(x + y) : Does(gh)[i] = gh[i].does
  BY <1>1, DoesOf DEF T, N
<1> DEFINE K == Does(g) \o Does(h)
<1> HIDE DEF K
<1>9. \A s, t \in Seq(T) :
        /\ s \o t \in Seq(T) /\ Len(s \o t) = Len(s) + Len(t)
        /\ \A i \in 1..Len(s) : (s \o t)[i] = s[i]
        /\ \A i \in 1..Len(t) : (s \o t)[Len(s) + i] = t[i]
  BY ConcatParts
<1>4. /\ K \in Seq(T) /\ Len(K) = Len(Does(g)) + Len(Does(h))
      /\ \A i \in 1..Len(Does(g)) : K[i] = Does(g)[i]
      /\ \A i \in 1..Len(Does(h)) : K[Len(Does(g)) + i] = Does(h)[i]
  BY <1>2, <1>9, Zenon DEF K
<1> HIDE DEF x, y
<1>5. /\ Len(K) = x + y
      /\ \A i \in 1..x : K[i] = g[i].does
      /\ \A i \in 1..y : K[x + i] = h[i].does
  BY <1>2, <1>4
<1>6. ASSUME NEW i \in 1..(x + y) PROVE Does(gh)[i] = K[i]
  <2>1. CASE i <= x
    <3>1. i \in 1..x
      BY <1>1, <2>1
    <3>2. Does(gh)[i] = gh[i].does /\ gh[i] = g[i] /\ K[i] = g[i].does
      BY <1>1, <1>3, <1>5, <3>1
    <3> QED BY <3>2
  <2>2. CASE i > x
    <3>1. i - x \in 1..y /\ x + (i - x) = i
      BY <1>1, <2>2
    <3>2. gh[i] = h[i - x] /\ K[i] = h[i - x].does /\ Does(gh)[i] = gh[i].does
      BY <1>1, <1>3, <1>5, <3>1
    <3> QED BY <3>2
  <2> QED BY <1>1, <2>1, <2>2
<1>7. Does(gh) = K
  BY <1>1, <1>3, <1>4, <1>5, <1>6, SameSequence
<1> QED BY <1>7 DEF gh, K

LEMMA NoNodes == \A c, l : Segment(c, <<>>, l, l, <<>>)
<1>1. [n \in DOMAIN <<>> |-> <<>>[n].does] = <<>>
  OBVIOUS
<1>2. Computed(<<>>) = <<>>
  BY <1>1, FlattenEmpty DEF Computed
<1> QED BY <1>2 DEF Segment, Runs

LEMMA OneNode ==
  ASSUME NEW c, NEW n \in Nodes(c)
  PROVE  Segment(c, <<n>>, n.reads, n.leaves, n.does)
<1>1. <<n>> \in Seq(Nodes(c)) /\ Runs(<<n>>, n.reads, n.leaves)
  BY DEF Runs
<1>2. [k \in DOMAIN <<n>> |-> <<n>>[k].does] = <<n.does>>
  OBVIOUS
<1>3. n.does \in Seq(Steps)
  BY DEF Nodes
<1>4. Computed(<<n>>) = n.does
  BY <1>2, <1>3, FlattenOne DEF Computed
<1> QED BY <1>1, <1>4 DEF Segment

LEMMA Joined ==
  ASSUME NEW c, NEW g, NEW h, NEW k, NEW l, NEW m, NEW s, NEW t,
         Segment(c, g, k, l, s), Segment(c, h, l, m, t)
  PROVE  Segment(c, g \o h, k, m, s \o t)
<1>1. /\ g \in Seq(Nodes(c)) /\ Runs(g, k, l) /\ Computed(g) = s
      /\ h \in Seq(Nodes(c)) /\ Runs(h, l, m) /\ Computed(h) = t
  BY DEF Segment
<1>2. /\ g \o h \in Seq(Nodes(c)) /\ Len(g \o h) = Len(g) + Len(h)
      /\ Len(g) \in Nat /\ Len(h) \in Nat
      /\ \A i \in 1..Len(g) : (g \o h)[i] = g[i]
      /\ \A i \in 1..Len(h) : (g \o h)[Len(g) + i] = h[i]
  BY <1>1
<1>3. Runs(g \o h, k, m)
  <2>1. CASE g = <<>>
    <3>1. g \o h = h /\ k = l
      BY <1>1, <2>1 DEF Runs
    <3> QED BY <1>1, <3>1
  <2>2. CASE h = <<>>
    <3>1. g \o h = g /\ l = m
      BY <1>1, <2>2 DEF Runs
    <3> QED BY <1>1, <3>1
  <2>3. CASE g # <<>> /\ h # <<>>
    <3> DEFINE x == Len(g)
               y == Len(h)
    <3>1. x \in Nat \ {0} /\ y \in Nat \ {0}
      BY <1>1, <2>3
    <3>2. /\ g[1].reads = k /\ g[x].leaves = l /\ \A n \in 2..x : g[n].reads = g[n - 1].leaves
          /\ h[1].reads = l /\ h[y].leaves = m /\ \A n \in 2..y : h[n].reads = h[n - 1].leaves
      BY <1>1, <2>3 DEF Runs
    <3>3. /\ Len(g \o h) = x + y
          /\ \A i \in 1..x : (g \o h)[i] = g[i]
          /\ \A i \in 1..y : (g \o h)[x + i] = h[i]
      BY <1>2
    <3> HIDE DEF x, y
    <3> DEFINE gh == g \o h
    <3>4. gh[1].reads = k /\ gh[x + y].leaves = m
      BY <3>1, <3>2, <3>3
    <3>5. ASSUME NEW n \in 2..(x + y) PROVE gh[n].reads = gh[n - 1].leaves
      <4>1. CASE n <= x
        <5>1. n \in 2..x /\ n \in 1..x /\ n - 1 \in 1..x
          BY <3>1, <4>1
        <5> QED BY <3>2, <3>3, <5>1
      <4>2. CASE n = x + 1
        <5>1. n - 1 = x /\ x \in 1..x /\ 1 \in 1..y
          BY <3>1, <4>2
        <5> QED BY <3>2, <3>3, <4>2, <5>1
      <4>3. CASE n > x + 1
        <5>1. /\ n - x \in 2..y /\ n - x \in 1..y /\ (n - x) - 1 \in 1..y
              /\ x + (n - x) = n /\ x + ((n - x) - 1) = n - 1
          BY <3>1, <4>3
        <5>2. h[n - x].reads = h[(n - x) - 1].leaves
          BY <3>2, <5>1
        <5>3. gh[n] = h[n - x] /\ gh[n - 1] = h[(n - x) - 1]
          BY <3>3, <5>1
        <5> QED BY <5>2, <5>3
      <4>4. n <= x \/ n = x + 1 \/ n > x + 1
        BY <3>1
      <4> QED BY <4>1, <4>2, <4>3, <4>4
    <3>6. gh # <<>> /\ Len(gh) = x + y
      BY <3>1, <3>3
    <3> QED BY <3>4, <3>5, <3>6 DEF Runs
  <2> QED BY <2>1, <2>2, <2>3
<1>4. Computed(g \o h) = s \o t
  <2>1. /\ Does(g) \in Seq(Seq(Steps)) /\ Does(h) \in Seq(Seq(Steps))
        /\ Computed(g) = FlattenSeq(Does(g)) /\ Computed(h) = FlattenSeq(Does(h))
    BY <1>1, DoesOf
  <2>2. Computed(g \o h) = FlattenSeq(Does(g) \o Does(h))
    BY <1>1, <1>2, DoesOf, DoesJoined
  <2>3. FlattenSeq(Does(g) \o Does(h)) = FlattenSeq(Does(g)) \o FlattenSeq(Does(h))
    BY <2>1, FlattenConcat
  <2> QED BY <1>1, <2>1, <2>2, <2>3
<1> QED BY <1>2, <1>3, <1>4 DEF Segment

(***************************************************************************)
(* So is a row of segments that fit.                                       *)
(***************************************************************************)
LEMMA Row ==
  ASSUME NEW c, NEW n \in Nat, NEW lay, NEW parts \in Seq(Seq(Nodes(c))), Len(parts) = n,
         NEW steps \in Seq(Seq(Steps)), Len(steps) = n,
         \A i \in 1..n : Segment(c, parts[i], lay[i - 1], lay[i], steps[i])
  PROVE  Segment(c, FlattenSeq(parts), lay[0], lay[n], FlattenSeq(steps))
<1>1. PICK f : Joins(f, Nodes(c), parts)
  BY FlattenParts
<1>2. PICK g : Joins(g, Steps, steps)
  BY FlattenParts
<1> DEFINE S == {i \in 0..n : Segment(c, f[i], lay[0], lay[i], g[i])}
<1>3. 0 \in S
  <2>1. f[0] = <<>> /\ g[0] = <<>>
    BY <1>1, <1>2 DEF Joins
  <2> QED BY <2>1, NoNodes
<1>4. ASSUME NEW i \in 0..(n - 1), i \in S PROVE i + 1 \in S
  <2>1. i + 1 \in 1..n /\ (i + 1) - 1 = i /\ i + 1 \in 0..n
    OBVIOUS
  <2>2. f[i + 1] = f[i] \o parts[i + 1] /\ g[i + 1] = g[i] \o steps[i + 1]
    BY <1>1, <1>2, <2>1 DEF Joins
  <2>3. Segment(c, parts[i + 1], lay[i], lay[i + 1], steps[i + 1])
    BY <2>1
  <2>4. Segment(c, f[i], lay[0], lay[i], g[i])
    BY <1>4
  <2>5. Segment(c, f[i] \o parts[i + 1], lay[0], lay[i + 1], g[i] \o steps[i + 1])
    BY <2>3, <2>4, Joined
  <2> QED BY <2>1, <2>2, <2>5
<1> HIDE DEF S
<1>5. \A i \in 0..n : i \in S
  BY <1>3, <1>4, IntervalInduction
<1>6. n \in 0..n
  OBVIOUS
<1>7. Segment(c, f[n], lay[0], lay[n], g[n])
  BY <1>5, <1>6 DEF S
<1> QED BY <1>1, <1>2, <1>7 DEF Joins

(***************************************************************************)
(* The parts of the graph.                                                 *)
(***************************************************************************)
LEMMA StepOf == \A s \in StepNames : \A i, j \in Nat : <<s, i, j>> \in Steps /\ <<s, i>> \in Steps
BY DEF Steps

LEMMA PlainNode ==
  ASSUME NEW c, NEW op \in Ops, NEW from \in Layouts, NEW to \in Layouts,
         NEW does \in Seq(Steps)
  PROVE  Segment(c, <<Node(op, from, to, does)>>, from, to, does)
<1> DEFINE n == Node(op, from, to, does)
<1> HIDE DEF Steps, Layouts
<1>1. n \in Nodes(c) /\ n.reads = from /\ n.leaves = to /\ n.does = does
  BY DEF Nodes, Node
<1> HIDE DEF n
<1>2. Segment(c, <<n>>, n.reads, n.leaves, n.does)
  BY <1>1, OneNode
<1> QED BY <1>1, <1>2 DEF n

LEMMA GemmNode ==
  ASSUME NEW c \in Confs, NEW op \in Ops, NEW from \in Layouts,
         NEW does \in Seq(Steps), NEW wide \in BOOLEAN,
         does[1] \in Weights, OrderOf(c, does[1]) = "natural"
  PROVE  Segment(c, <<Gemm(c, op, from, does, wide)>>, from, "CT", does)
<1> DEFINE n == Gemm(c, op, from, does, wide)
<1>0. "CT" \in Layouts
  BY DEF Layouts
<1> HIDE DEF Steps, Layouts, Weights, OrderOf
<1>1. n \in Nodes(c) /\ n.reads = from /\ n.leaves = "CT" /\ n.does = does
  BY <1>0 DEF Nodes, Node, Gemm, Weight
<1> HIDE DEF n
<1>2. Segment(c, <<n>>, n.reads, n.leaves, n.does)
  BY <1>1, OneNode
<1> QED BY <1>1, <1>2 DEF n

LEMMA WeightsOf ==
  /\ \A k \in 0..(LastStage + 1) : Conv(k) \in Weights
  /\ Proj \in Weights /\ ConnectorFc1 \in Weights /\ ConnectorFc2 \in Weights
  /\ \A i \in 0..LastStage : \A j \in 1..Depth[i] : Fc1(i, j) \in Weights /\ Fc2(i, j) \in Weights
BY DEF Weights

LEMMA LinearSegment ==
  ASSUME NEW c \in Confs, NEW does \in Seq(Steps), does[1] \in Weights, does[1][1] # "conv"
  PROVE  Segment(c, Linear(c, does), "CT", "CT", does)
<1>1. "linear" \in Ops /\ "CT" \in Layouts /\ TRUE \in BOOLEAN
  BY DEF Ops, Layouts
<1>2. OrderOf(c, does[1]) = "natural"
  BY DEF OrderOf
<1> QED BY <1>1, <1>2, GemmNode DEF Linear

LEMMA ConvSegment ==
  ASSUME NEW c \in Confs, NEW k \in 0..(LastStage + 1), NEW ct, ct = Eligible(c, k)
  PROVE  Segment(c, ConvNodes(c, k, ct), IF ct THEN "CT" ELSE "TC", "CT", <<Conv(k)>>)
<1>1. LastStage \in Nat /\ k \in Nat /\ ct \in BOOLEAN
  BY GraphAssumption DEF Eligible, ConvGemmOn, Confs
<1>2. Conv(k) \in Steps /\ Conv(k) \in Weights /\ Conv(k)[1] = "conv" /\ Conv(k)[2] = k
  <2>1. "conv" \in StepNames
    BY DEF StepNames
  <2> QED BY <1>1, <2>1, StepOf, WeightsOf DEF Conv
<1>3. <<Conv(k)>> \in Seq(Steps) /\ <<Conv(k)>>[1] = Conv(k) /\ <<>> \in Seq(Steps)
  BY <1>2
<1>4. /\ "TC" \in Layouts /\ "CT" \in Layouts /\ "windows" \in Layouts
      /\ "conv1d" \in Ops /\ "im2col" \in Ops /\ "mul_mat_add" \in Ops /\ "conv_1d" \in Ops
  BY DEF Layouts, Ops
<1>5. CASE ct
  <2> DEFINE n == [Node("conv1d", "CT", "CT", <<Conv(k)>>) EXCEPT !.order = "frames"]
  <2>1. n \in Nodes(c) /\ n.reads = "CT" /\ n.leaves = "CT" /\ n.does = <<Conv(k)>>
    <3> HIDE DEF Steps, Layouts, Weights
    <3>1. OrderOf(c, Conv(k)) = "frames"
      BY <1>2, <1>5 DEF OrderOf
    <3> HIDE DEF OrderOf
    <3> QED BY <1>2, <1>3, <1>4, <3>1 DEF Nodes, Node, Weight
  <2> HIDE DEF n
  <2>2. Segment(c, <<n>>, n.reads, n.leaves, n.does)
    BY <2>1, OneNode
  <2> QED BY <1>5, <2>1, <2>2 DEF ConvNodes, n
<1>6. CASE ~ct /\ c.type = "i8"
  <2> DEFINE m == Node("im2col", "TC", "windows", <<>>)
             n == Gemm(c, "mul_mat_add", "windows", <<Conv(k)>>, k \in Wide)
  <2>1. Segment(c, <<m>>, "TC", "windows", <<>>)
    BY <1>3, <1>4, PlainNode
  <2>2. OrderOf(c, Conv(k)) = "natural"
    BY <1>2, <1>6 DEF OrderOf
  <2>3. Segment(c, <<n>>, "windows", "CT", <<Conv(k)>>)
    <3>1. (k \in Wide) \in BOOLEAN
      OBVIOUS
    <3> DEFINE wide == k \in Wide
               does == <<Conv(k)>>
    <3>2. does[1] \in Weights /\ OrderOf(c, does[1]) = "natural" /\ does \in Seq(Steps)
      BY <1>2, <1>3, <2>2
    <3> HIDE DEF wide, does
    <3>3. wide \in BOOLEAN
      BY <3>1 DEF wide
    <3>4. Segment(c, <<Gemm(c, "mul_mat_add", "windows", does, wide)>>, "windows", "CT", does)
      BY <1>4, <3>2, <3>3, GemmNode
    <3> QED BY <3>4 DEF wide, does
  <2> HIDE DEF m, n
  <2>4. Segment(c, <<m>> \o <<n>>, "TC", "CT", <<>> \o <<Conv(k)>>)
    BY <2>1, <2>3, Joined
  <2>5. <<m>> \o <<n>> = <<m, n>> /\ <<>> \o <<Conv(k)>> = <<Conv(k)>>
    <3> DEFINE T == {m, n}
    <3>1. m \in T /\ n \in T
      OBVIOUS
    <3> HIDE DEF T
    <3> QED BY <1>3, <3>1, OneAndOne
  <2> QED BY <1>6, <2>4, <2>5 DEF ConvNodes, m, n
<1>7. CASE ~ct /\ c.type # "i8"
  <2>1. Segment(c, <<Node("conv_1d", "TC", "CT", <<Conv(k)>>)>>, "TC", "CT", <<Conv(k)>>)
    BY <1>3, <1>4, PlainNode
  <2> QED BY <1>7, <2>1 DEF ConvNodes
<1> QED BY <1>1, <1>5, <1>6, <1>7
LEMMA BlockSteps ==
  \A i, j \in Nat :
    /\ <<"norm1", i, j>> \in Steps /\ <<"dw", i, j>> \in Steps /\ <<"res1", i, j>> \in Steps
    /\ <<"norm2", i, j>> \in Steps /\ <<"res2", i, j>> \in Steps
    /\ <<"relu", i, j>> \in Steps /\ <<"gelu", i, j>> \in Steps
    /\ Fc1(i, j) \in Steps /\ Fc2(i, j) \in Steps
<1>1. /\ "norm1" \in StepNames /\ "dw" \in StepNames /\ "res1" \in StepNames
      /\ "norm2" \in StepNames /\ "relu" \in StepNames /\ "gelu" \in StepNames /\ "res2" \in StepNames
      /\ "fc1" \in StepNames /\ "fc2" \in StepNames
  BY DEF StepNames
<1> QED BY <1>1, StepOf DEF Fc1, Fc2

LEMMA NoMore == ASSUME NEW T PROVE \A s \in Seq(T) : s \o <<>> = s /\ <<>> \o s = s
OBVIOUS

LEMMA MixerSegment ==
  ASSUME NEW c \in Confs, NEW i \in Nat, NEW j \in Nat
  PROVE  Segment(c, Mixer(c, i, j), "CT", "CT",
                 << <<"norm1", i, j>>, <<"dw", i, j>>, <<"res1", i, j>> >>)
<1> DEFINE norm == <<"norm1", i, j>>
           dw == <<"dw", i, j>>
           res == <<"res1", i, j>>
<1>1. /\ norm \in Steps /\ dw \in Steps /\ res \in Steps
  BY BlockSteps
<1>2. /\ "CT" \in Layouts /\ "TC" \in Layouts /\ "rms_norm" \in Ops /\ "dw_res" \in Ops
      /\ "dw_direct" \in Ops /\ "im2col_dw" \in Ops /\ "conv_1d_dw" \in Ops
      /\ "add_scaled" \in Ops /\ "cont_permute" \in Ops
  BY DEF Layouts, Ops
<1> HIDE DEF norm, dw, res
<1>3. /\ <<>> \in Seq(Steps) /\ <<norm>> \in Seq(Steps) /\ <<dw>> \in Seq(Steps)
      /\ <<res>> \in Seq(Steps) /\ <<dw, res>> \in Seq(Steps)
  BY <1>1
<1> DEFINE A == <<Node("rms_norm", "CT", "CT", <<norm>>)>>
           FusedDw == c.type = "i8" /\ c.dw
           B == IF c.type = "i8" /\ c.dw /\ c.res
                THEN <<Node("dw_res", "CT", "CT", <<dw, res>>)>>
                ELSE IF c.type = "i8" /\ c.dw
                THEN <<Node("dw_direct", "CT", "CT", <<dw>>)>>
                ELSE Transpose("CT", "TC")
                     \o (IF c.type = "i8"
                         THEN <<Node("im2col_dw", "TC", "TC", <<dw>>)>> \o Transpose("TC", "CT")
                         ELSE <<Node("conv_1d_dw", "TC", "CT", <<dw>>)>>)
           C == IF c.type = "float" \/ ~(c.dw /\ c.res)
                THEN <<Node("add_scaled", "CT", "CT", <<res>>)>> ELSE <<>>
           All == c.type = "i8" /\ c.dw /\ c.res
<1>4. Segment(c, A, "CT", "CT", <<norm>>)
  BY <1>2, <1>3, PlainNode
<1>5. \A k, l \in {"CT", "TC"} : Segment(c, Transpose(k, l), k, l, <<>>)
  BY <1>2, <1>3, PlainNode DEF Transpose
<1>6. Segment(c, B, "CT", "CT", IF All THEN <<dw, res>> ELSE <<dw>>)
  <2>1. CASE All
    <3>1. Segment(c, <<Node("dw_res", "CT", "CT", <<dw, res>>)>>, "CT", "CT", <<dw, res>>)
      BY <1>2, <1>3, PlainNode
    <3> QED BY <2>1, <3>1
  <2>2. CASE c.type = "i8" /\ c.dw /\ ~c.res
    <3>1. Segment(c, <<Node("dw_direct", "CT", "CT", <<dw>>)>>, "CT", "CT", <<dw>>)
      BY <1>2, <1>3, PlainNode
    <3> QED BY <2>2, <3>1
  <2>3. CASE ~(c.type = "i8" /\ c.dw)
    <3> DEFINE D == IF c.type = "i8"
                    THEN <<Node("im2col_dw", "TC", "TC", <<dw>>)>> \o Transpose("TC", "CT")
                    ELSE <<Node("conv_1d_dw", "TC", "CT", <<dw>>)>>
    <3>1. Segment(c, D, "TC", "CT", <<dw>>)
      <4>1. CASE c.type = "i8"
        <5>1. Segment(c, <<Node("im2col_dw", "TC", "TC", <<dw>>)>>, "TC", "TC", <<dw>>)
          BY <1>2, <1>3, PlainNode
        <5>2. Segment(c, Transpose("TC", "CT"), "TC", "CT", <<>>)
          BY <1>5
        <5>3. Segment(c, <<Node("im2col_dw", "TC", "TC", <<dw>>)>> \o Transpose("TC", "CT"),
                      "TC", "CT", <<dw>> \o <<>>)
          BY <5>1, <5>2, Joined
        <5>4. <<dw>> \o <<>> = <<dw>>
          BY <1>3, NoMore
        <5> QED BY <4>1, <5>3, <5>4
      <4>2. CASE c.type # "i8"
        <5>1. Segment(c, <<Node("conv_1d_dw", "TC", "CT", <<dw>>)>>, "TC", "CT", <<dw>>)
          BY <1>2, <1>3, PlainNode
        <5> QED BY <4>2, <5>1
      <4> QED BY <4>1, <4>2
    <3>2. Segment(c, Transpose("CT", "TC"), "CT", "TC", <<>>)
      BY <1>5
    <3> HIDE DEF D
    <3>3. Segment(c, Transpose("CT", "TC") \o D, "CT", "CT", <<>> \o <<dw>>)
      BY <3>1, <3>2, Joined
    <3>4. <<>> \o <<dw>> = <<dw>>
      BY <1>3, NoMore
    <3>5. B = Transpose("CT", "TC") \o D
      BY <2>3 DEF D
    <3> HIDE DEF B
    <3> QED BY <2>3, <3>3, <3>4, <3>5
  <2> QED BY <2>1, <2>2, <2>3
<1>7. Segment(c, C, "CT", "CT", IF All THEN <<>> ELSE <<res>>)
  <2>0. c.type = "i8" \/ c.type = "float"
    BY DEF Confs, Types
  <2>1. CASE All
    <3>1. C = <<>>
      BY <2>1
    <3> QED BY <2>1, <3>1, NoNodes
  <2>2. CASE ~All
    <3>1. C = <<Node("add_scaled", "CT", "CT", <<res>>)>>
      BY <2>0, <2>2
    <3>2. Segment(c, <<Node("add_scaled", "CT", "CT", <<res>>)>>, "CT", "CT", <<res>>)
      BY <1>2, <1>3, PlainNode
    <3> QED BY <2>2, <3>1, <3>2
  <2> QED BY <2>1, <2>2
<1>8. Mixer(c, i, j) = (A \o B) \o C
  BY DEF Mixer, norm, dw, res
<1> HIDE DEF A, B, C
<1>9. Segment(c, A \o B, "CT", "CT", <<norm>> \o (IF All THEN <<dw, res>> ELSE <<dw>>))
  BY <1>4, <1>6, Joined
<1>10. Segment(c, (A \o B) \o C, "CT", "CT",
               (<<norm>> \o (IF All THEN <<dw, res>> ELSE <<dw>>)) \o (IF All THEN <<>> ELSE <<res>>))
  BY <1>7, <1>9, Joined
<1>11. (<<norm>> \o (IF All THEN <<dw, res>> ELSE <<dw>>)) \o (IF All THEN <<>> ELSE <<res>>)
         = <<norm, dw, res>>
  <2>1. <<norm>> \o <<dw, res>> = <<norm, dw, res>> /\ <<norm>> \o <<dw>> = <<norm, dw>>
    BY <1>1, OneAndOne, OneAndTwo
  <2>2. <<norm, dw, res>> \o <<>> = <<norm, dw, res>> /\ <<norm, dw>> \o <<res>> = <<norm, dw, res>>
    <3>1. <<norm, dw, res>> \in Seq(Steps)
      BY <1>1
    <3> QED BY <1>1, <3>1, TwoAndOne, NoMore
  <2> QED BY <2>1, <2>2
<1> QED BY <1>8, <1>10, <1>11 DEF norm, dw, res


LEMMA FfnSegment ==
  ASSUME NEW c \in Confs, NEW i \in 0..LastStage, NEW j \in 1..Depth[i]
  PROVE  Segment(c, Ffn(c, i, j), "CT", "CT",
                 << <<"norm2", i, j>>, Fc1(i, j), <<Activation(c), i, j>>, Fc2(i, j), <<"res2", i, j>> >>)
<1> DEFINE norm == <<"norm2", i, j>>
           act == <<Activation(c), i, j>>
           res == <<"res2", i, j>>
           f1 == Fc1(i, j)
           f2 == Fc2(i, j)
<1>0. i \in Nat /\ j \in Nat
  BY GraphAssumption
<1>1. /\ norm \in Steps /\ act \in Steps /\ res \in Steps /\ f1 \in Steps /\ f2 \in Steps
  BY <1>0, BlockSteps DEF Activation
<1>2. f1 \in Weights /\ f2 \in Weights /\ f1[1] # "conv" /\ f2[1] # "conv"
  BY WeightsOf DEF Fc1, Fc2
<1>3. /\ "CT" \in Layouts /\ "rms_norm" \in Ops /\ "gelu" \in Ops /\ "add_scaled" \in Ops
  BY DEF Layouts, Ops
<1> HIDE DEF norm, act, res, f1, f2
<1>4. /\ <<norm>> \in Seq(Steps) /\ <<act>> \in Seq(Steps) /\ <<res>> \in Seq(Steps)
      /\ <<f1>> \in Seq(Steps) /\ <<f1>>[1] = f1 /\ <<f2>> \in Seq(Steps) /\ <<f2>>[1] = f2
      /\ <<f1, act>> \in Seq(Steps) /\ <<f1, act>>[1] = f1
      /\ <<f2, res>> \in Seq(Steps) /\ <<f2, res>>[1] = f2
  BY <1>1
<1> DEFINE A == <<Node("rms_norm", "CT", "CT", <<norm>>)>>
           B == IF c.type = "i8" THEN Linear(c, <<f1, act>>)
                ELSE Linear(c, <<f1>>) \o <<Node("gelu", "CT", "CT", <<act>>)>>
           C == IF c.type = "i8" /\ c.res THEN Linear(c, <<f2, res>>)
                ELSE Linear(c, <<f2>>) \o <<Node("add_scaled", "CT", "CT", <<res>>)>>
<1>5. Segment(c, A, "CT", "CT", <<norm>>)
  BY <1>3, <1>4, PlainNode
<1>6. Segment(c, B, "CT", "CT", <<f1, act>>)
  <2>1. CASE c.type = "i8"
    <3>1. Segment(c, Linear(c, <<f1, act>>), "CT", "CT", <<f1, act>>)
      BY <1>2, <1>4, LinearSegment
    <3> QED BY <2>1, <3>1
  <2>2. CASE c.type # "i8"
    <3>1. Segment(c, Linear(c, <<f1>>), "CT", "CT", <<f1>>)
      BY <1>2, <1>4, LinearSegment
    <3>2. Segment(c, <<Node("gelu", "CT", "CT", <<act>>)>>, "CT", "CT", <<act>>)
      BY <1>3, <1>4, PlainNode
    <3>3. Segment(c, Linear(c, <<f1>>) \o <<Node("gelu", "CT", "CT", <<act>>)>>, "CT", "CT",
                  <<f1>> \o <<act>>)
      BY <3>1, <3>2, Joined
    <3>4. <<f1>> \o <<act>> = <<f1, act>>
      BY <1>1, OneAndOne
    <3> QED BY <2>2, <3>3, <3>4
  <2> QED BY <2>1, <2>2
<1>7. Segment(c, C, "CT", "CT", <<f2, res>>)
  <2>1. CASE c.type = "i8" /\ c.res
    <3>1. Segment(c, Linear(c, <<f2, res>>), "CT", "CT", <<f2, res>>)
      BY <1>2, <1>4, LinearSegment
    <3> QED BY <2>1, <3>1
  <2>2. CASE ~(c.type = "i8" /\ c.res)
    <3>1. Segment(c, Linear(c, <<f2>>), "CT", "CT", <<f2>>)
      BY <1>2, <1>4, LinearSegment
    <3>2. Segment(c, <<Node("add_scaled", "CT", "CT", <<res>>)>>, "CT", "CT", <<res>>)
      BY <1>3, <1>4, PlainNode
    <3>3. Segment(c, Linear(c, <<f2>>) \o <<Node("add_scaled", "CT", "CT", <<res>>)>>, "CT", "CT",
                  <<f2>> \o <<res>>)
      BY <3>1, <3>2, Joined
    <3>4. <<f2>> \o <<res>> = <<f2, res>>
      BY <1>1, OneAndOne
    <3> QED BY <2>2, <3>3, <3>4
  <2> QED BY <2>1, <2>2
<1>8. Ffn(c, i, j) = (A \o B) \o C
  <2>1. CASE c.type = "i8"
    <3>1. act = <<"relu", i, j>>
      BY <2>1 DEF act, Activation
    <3> QED BY <2>1, <3>1 DEF Ffn, norm, res, f1, f2
  <2>2. CASE c.type # "i8"
    <3>1. act = <<"gelu", i, j>>
      BY <2>2 DEF act, Activation
    <3> QED BY <2>2, <3>1 DEF Ffn, norm, res, f1, f2
  <2> QED BY <2>1, <2>2
<1> HIDE DEF A, B, C
<1>9. Segment(c, (A \o B) \o C, "CT", "CT", (<<norm>> \o <<f1, act>>) \o <<f2, res>>)
  <2>1. Segment(c, A \o B, "CT", "CT", <<norm>> \o <<f1, act>>)
    BY <1>5, <1>6, Joined
  <2> QED BY <1>7, <2>1, Joined
<1>10. (<<norm>> \o <<f1, act>>) \o <<f2, res>> = <<norm, f1, act, f2, res>>
  <2>1. <<norm>> \o <<f1, act>> = <<norm, f1, act>>
    BY <1>1, OneAndTwo
  <2> DEFINE x == <<norm, f1, act>>
             y == <<f2, res>>
             s == <<norm, f1, act, f2, res>>
  <2>2. /\ x \in Seq(Steps) /\ Len(x) = 3 /\ y \in Seq(Steps) /\ Len(y) = 2
        /\ s \in Seq(Steps) /\ Len(s) = 3 + 2
    BY <1>1
  <2>3. s[1] = x[1] /\ s[2] = x[2] /\ s[3] = x[3] /\ s[3 + 1] = y[1] /\ s[3 + 2] = y[2]
    OBVIOUS
  <2> HIDE DEF x, y, s
  <2>4. /\ \A n \in 1..Len(x) : s[n] = x[n]
        /\ \A n \in 1..Len(y) : s[Len(x) + n] = y[n]
        /\ Len(s) = Len(x) + Len(y)
    BY <2>2, <2>3
  <2>5. x \o y = s
    BY <2>2, <2>4, JoinIs
  <2> QED BY <2>1, <2>5 DEF x, y, s
<1> QED BY <1>8, <1>9, <1>10 DEF norm, act, res, f1, f2

LEMMA BlockSegment ==
  ASSUME NEW c \in Confs, NEW i \in 0..LastStage, NEW j \in 1..Depth[i]
  PROVE  Segment(c, Mixer(c, i, j) \o Ffn(c, i, j), "CT", "CT", TrainedBlock(c, i, j))
<1>0. i \in Nat /\ j \in Nat
  BY GraphAssumption
<1> DEFINE s == << <<"norm1", i, j>>, <<"dw", i, j>>, <<"res1", i, j>> >>
           t == << <<"norm2", i, j>>, Fc1(i, j), <<Activation(c), i, j>>, Fc2(i, j), <<"res2", i, j>> >>
<1>1. s \o t = TrainedBlock(c, i, j)
  <2> DEFINE u == TrainedBlock(c, i, j)
  <2>1. /\ <<"norm1", i, j>> \in Steps /\ <<"dw", i, j>> \in Steps /\ <<"res1", i, j>> \in Steps
        /\ <<"norm2", i, j>> \in Steps /\ <<Activation(c), i, j>> \in Steps /\ <<"res2", i, j>> \in Steps
        /\ Fc1(i, j) \in Steps /\ Fc2(i, j) \in Steps
    BY <1>0, BlockSteps DEF Activation
  <2>2. /\ s \in Seq(Steps) /\ Len(s) = 3 /\ t \in Seq(Steps) /\ Len(t) = 5
        /\ u \in Seq(Steps) /\ Len(u) = 3 + 5
    BY <2>1 DEF TrainedBlock
  <2>3. /\ u[1] = s[1] /\ u[2] = s[2] /\ u[3] = s[3] /\ u[3 + 1] = t[1] /\ u[3 + 2] = t[2]
        /\ u[3 + 3] = t[3] /\ u[3 + 4] = t[4] /\ u[3 + 5] = t[5]
    BY DEF TrainedBlock
  <2> HIDE DEF s, t, u
  <2>4. /\ \A n \in 1..Len(s) : u[n] = s[n]
        /\ \A n \in 1..Len(t) : u[Len(s) + n] = t[n]
        /\ Len(u) = Len(s) + Len(t)
    BY <2>2, <2>3
  <2>5. s \o t = u
    BY <2>2, <2>4, JoinIs
  <2> QED BY <2>5 DEF u
<1>2. Segment(c, Mixer(c, i, j), "CT", "CT", s) /\ Segment(c, Ffn(c, i, j), "CT", "CT", t)
  BY <1>0, MixerSegment, FfnSegment
<1> HIDE DEF s, t
<1> QED BY <1>1, <1>2, Joined

LEMMA SegmentType ==
  ASSUME NEW c, NEW g, NEW k, NEW l, NEW s, Segment(c, g, k, l, s)
  PROVE  g \in Seq(Nodes(c)) /\ s \in Seq(Steps)
BY DoesOf DEF Segment

LEMMA BlocksSegment ==
  ASSUME NEW c \in Confs, NEW i \in 0..LastStage, NEW n \in 0..Depth[i]
  PROVE  Segment(c, Blocks(c, i, n), "CT", "CT", TrainedBlocks(c, i, n))
<1> DEFINE parts == [j \in 1..n |-> Mixer(c, i, j) \o Ffn(c, i, j)]
           steps == [j \in 1..n |-> TrainedBlock(c, i, j)]
           lay == [j \in 0..n |-> "CT"]
<1>0. n \in Nat /\ \A j \in 1..n : j \in 1..Depth[i]
  BY GraphAssumption
<1>1. ASSUME NEW j \in 1..n
      PROVE  /\ Segment(c, parts[j], lay[j - 1], lay[j], steps[j])
             /\ parts[j] \in Seq(Nodes(c)) /\ steps[j] \in Seq(Steps)
  <2>1. Segment(c, Mixer(c, i, j) \o Ffn(c, i, j), "CT", "CT", TrainedBlock(c, i, j))
    BY <1>0, BlockSegment
  <2>2. lay[j - 1] = "CT" /\ lay[j] = "CT"
    BY <1>0
  <2>3. parts[j] = Mixer(c, i, j) \o Ffn(c, i, j) /\ steps[j] = TrainedBlock(c, i, j)
    OBVIOUS
  <2> HIDE DEF parts, steps, lay
  <2>4. Segment(c, parts[j], lay[j - 1], lay[j], steps[j])
    BY <2>1, <2>2, <2>3
  <2> QED BY <2>4, SegmentType
<1>2. lay[0] = "CT" /\ lay[n] = "CT"
  BY <1>0
<1>3. parts \in Seq(Seq(Nodes(c))) /\ Len(parts) = n /\ steps \in Seq(Seq(Steps)) /\ Len(steps) = n
  <2> DEFINE T == Seq(Nodes(c))
             U == Seq(Steps)
  <2>1. \A j \in 1..n : Mixer(c, i, j) \o Ffn(c, i, j) \in T /\ TrainedBlock(c, i, j) \in U
    BY <1>1
  <2> HIDE DEF T, U
  <2>2. parts \in Seq(T) /\ Len(parts) = n /\ steps \in Seq(U) /\ Len(steps) = n
    BY <1>0, <2>1
  <2> QED BY <2>2 DEF T, U
<1>4. Blocks(c, i, n) = FlattenSeq(parts) /\ TrainedBlocks(c, i, n) = FlattenSeq(steps)
  BY DEF Blocks, TrainedBlocks
<1> HIDE DEF parts, steps, lay
<1>5. Segment(c, FlattenSeq(parts), lay[0], lay[n], FlattenSeq(steps))
  BY <1>0, <1>1, <1>3, Row
<1> QED BY <1>2, <1>4, <1>5


Layout(c, k) == IF Eligible(c, k) THEN "CT" ELSE "TC"

LEMMA StageSegment ==
  ASSUME NEW c \in Confs, NEW i \in 0..LastStage, NEW ct, ct = Eligible(c, i)
  PROVE  Segment(c, Stage(c, i, ct), Layout(c, i), Layout(c, i + 1), TrainedStage(c, i))
<1> DEFINE n == Kept(c, i)
           A == ConvNodes(c, i, ct)
           B == Blocks(c, i, n)
           P == IF n < Depth[i] THEN Linear(c, <<Proj>>) ELSE <<>>
           Q == IF Eligible(c, i + 1) THEN <<>> ELSE Transpose("CT", "TC")
           tb == TrainedBlocks(c, i, n)
           proj == IF n < Depth[i] THEN <<Proj>> ELSE <<>>
           cv == <<Conv(i)>>
<1>1. n \in 0..Depth[i] /\ n \in Nat
  BY GraphAssumption DEF Kept, Confs
<1>2. Segment(c, A, Layout(c, i), "CT", cv)
  <2>1. i \in 0..(LastStage + 1)
    BY GraphAssumption
  <2> QED BY <2>1, ConvSegment DEF Layout
<1>3. Segment(c, B, "CT", "CT", tb)
  BY <1>1, BlocksSegment
<1>4. Proj \in Weights /\ Proj \in Steps /\ Proj[1] # "conv"
  BY WeightsOf DEF Steps, Proj
<1>5. Segment(c, P, "CT", "CT", proj)
  <2>1. <<Proj>> \in Seq(Steps) /\ <<Proj>>[1] = Proj
    BY <1>4
  <2>2. Segment(c, Linear(c, <<Proj>>), "CT", "CT", <<Proj>>)
    BY <1>4, <2>1, LinearSegment
  <2>3. Segment(c, <<>>, "CT", "CT", <<>>)
    BY NoNodes
  <2> QED BY <2>2, <2>3
<1>6. Segment(c, Q, "CT", Layout(c, i + 1), <<>>)
  <2>1. Segment(c, Transpose("CT", "TC"), "CT", "TC", <<>>)
    <3>1. "CT" \in Layouts /\ "TC" \in Layouts /\ "cont_permute" \in Ops /\ <<>> \in Seq(Steps)
      BY DEF Layouts, Ops
    <3> QED BY <3>1, PlainNode DEF Transpose
  <2>2. Segment(c, <<>>, "CT", "CT", <<>>)
    BY NoNodes
  <2> QED BY <2>1, <2>2 DEF Layout
<1>7. Stage(c, i, ct) = ((A \o B) \o P) \o Q
  BY DEF Stage
<1>8. cv \in Seq(Steps) /\ tb \in Seq(Steps) /\ proj \in Seq(Steps)
  BY <1>2, <1>3, <1>5, SegmentType
<1>9. TrainedStage(c, i) = cv \o (tb \o proj)
  <2>1. CASE i = LastStage /\ c.keep \in 1..(Depth[i] - 1)
    <3>1. n = c.keep /\ n < Depth[i]
      BY <2>1, GraphAssumption DEF Kept, Confs
    <3> QED BY <2>1, <3>1 DEF TrainedStage
  <2>2. CASE ~(i = LastStage /\ c.keep \in 1..(Depth[i] - 1))
    <3>1. n = Depth[i] /\ ~(n < Depth[i])
      BY <2>2, GraphAssumption DEF Kept, Confs
    <3>2. tb \o proj = tb
      <4>1. proj = <<>>
        BY <3>1
      <4> HIDE DEF tb, proj
      <4> QED BY <1>8, <4>1, NoMore
    <3>3. TrainedStage(c, i) = cv \o TrainedBlocks(c, i, Depth[i])
      BY <2>2 DEF TrainedStage
    <3> HIDE DEF proj
    <3> QED BY <3>1, <3>2, <3>3
  <2> QED BY <2>1, <2>2
<1> HIDE DEF n, A, B, P, Q, tb, proj, cv
<1>10. Segment(c, ((A \o B) \o P) \o Q, Layout(c, i), Layout(c, i + 1), ((cv \o tb) \o proj) \o <<>>)
  <2>1. Segment(c, A \o B, Layout(c, i), "CT", cv \o tb)
    BY <1>2, <1>3, Joined
  <2>2. Segment(c, (A \o B) \o P, Layout(c, i), "CT", (cv \o tb) \o proj)
    BY <1>5, <2>1, Joined
  <2> QED BY <1>6, <2>2, Joined
<1>11. ((cv \o tb) \o proj) \o <<>> = cv \o (tb \o proj)
  <2>1. (cv \o tb) \o proj \in Seq(Steps)
    BY <1>8
  <2>2. ((cv \o tb) \o proj) \o <<>> = (cv \o tb) \o proj
    BY <2>1, NoMore
  <2> QED BY <1>8, <2>2, ConcatAssociates
<1> QED BY <1>7, <1>9, <1>10, <1>11

(***************************************************************************)
(* The graph of AudioVAEEncoder::forward, for any number of stages and     *)
(* blocks and every setting of the switches, reads audio, leaves features  *)
(* frame by frame, and does the trained steps.                             *)
(***************************************************************************)
LEMMA GraphSegment ==
  ASSUME NEW c \in Confs
  PROVE  Segment(c, Graph(c), "TC", "CT", Trained(c))
<1> DEFINE n == LastStage + 1
           parts == [k \in 1..n |-> Stage(c, k - 1, k > 1 /\ Eligible(c, k - 1))]
           steps == [k \in 1..n |-> TrainedStage(c, k - 1)]
           lay == [k \in 0..n |-> Layout(c, k)]
           T == Seq(Nodes(c))
           U == Seq(Steps)
<1>0. n \in Nat /\ n > 0 /\ LastStage \in Nat /\ 0 \notin Wide
  BY GraphAssumption
<1>1. ASSUME NEW k \in 1..n
      PROVE  /\ Segment(c, parts[k], lay[k - 1], lay[k], steps[k])
             /\ parts[k] \in T /\ steps[k] \in U
  <2> DEFINE ct == k > 1 /\ Eligible(c, k - 1)
  <2>1. k - 1 \in 0..LastStage /\ (k - 1) + 1 = k
    BY <1>0
  <2>2. ct = Eligible(c, k - 1)
    <3>1. CASE k = 1
      <4>1. k - 1 = 0 /\ ~(k > 1)
        BY <3>1
      <4> QED BY <1>0, <4>1 DEF Eligible
    <3>2. CASE k # 1
      <4>1. k > 1
        BY <1>0, <3>2
      <4>2. Eligible(c, k - 1) \in BOOLEAN
        BY DEF Eligible, ConvGemmOn
      <4> QED BY <4>1, <4>2
    <3> QED BY <3>1, <3>2
  <2>3. parts[k] = Stage(c, k - 1, ct) /\ steps[k] = TrainedStage(c, k - 1)
    OBVIOUS
  <2>4. lay[k - 1] = Layout(c, k - 1) /\ lay[k] = Layout(c, k)
    BY <1>0
  <2> HIDE DEF ct, parts, steps, lay
  <2>5. Segment(c, Stage(c, k - 1, ct), Layout(c, k - 1), Layout(c, (k - 1) + 1), TrainedStage(c, k - 1))
    BY <2>1, <2>2, StageSegment
  <2>6. Segment(c, parts[k], lay[k - 1], lay[k], steps[k])
    BY <2>1, <2>3, <2>4, <2>5
  <2> QED BY <2>6, SegmentType
<1>2. parts \in Seq(T) /\ Len(parts) = n /\ steps \in Seq(U) /\ Len(steps) = n
  <2>1. \A k \in 1..n : /\ Stage(c, k - 1, k > 1 /\ Eligible(c, k - 1)) \in T
                        /\ TrainedStage(c, k - 1) \in U
    BY <1>1
  <2> HIDE DEF T, U, n
  <2> QED BY <1>0, <2>1
<1>3. lay[0] = "TC" /\ lay[n] = Layout(c, n)
  BY <1>0 DEF Layout, Eligible
<1> DEFINE F == FlattenSeq(parts)
           f == FlattenSeq(steps)
           conv == ConvNodes(c, LastStage + 1, Eligible(c, LastStage + 1))
           norm == <<Node("rms_norm", "CT", "CT", <<<<"norm">>>>)>>
<1>4. Segment(c, F, "TC", Layout(c, n), f)
  <2> HIDE DEF parts, steps, lay, n
  <2>1. Segment(c, F, lay[0], lay[n], f)
    BY <1>0, <1>1, <1>2, Row
  <2> QED BY <1>3, <2>1
<1>5. Segment(c, conv, Layout(c, n), "CT", <<Conv(n)>>)
  <2>1. LastStage + 1 \in 0..(LastStage + 1)
    BY <1>0
  <2> QED BY <2>1, ConvSegment DEF Layout
<1>6. /\ ConnectorFc1 \in Steps /\ ConnectorFc1 \in Weights /\ ConnectorFc1[1] # "conv"
      /\ ConnectorFc2 \in Steps /\ ConnectorFc2 \in Weights /\ ConnectorFc2[1] # "conv"
      /\ <<"norm">> \in Steps
  BY WeightsOf DEF Steps, ConnectorFc1, ConnectorFc2
<1>7. \A w \in {ConnectorFc1, ConnectorFc2} : Segment(c, Linear(c, <<w>>), "CT", "CT", <<w>>)
  <2> TAKE w \in {ConnectorFc1, ConnectorFc2}
  <2>1. w \in Weights /\ w \in Steps /\ w[1] # "conv"
    BY <1>6
  <2>2. <<w>> \in Seq(Steps) /\ <<w>>[1] = w
    BY <2>1
  <2> QED BY <2>1, <2>2, LinearSegment
<1>8. Segment(c, norm, "CT", "CT", <<<<"norm">>>>)
  <2>1. <<<<"norm">>>> \in Seq(Steps) /\ "CT" \in Layouts /\ "rms_norm" \in Ops
    BY <1>6 DEF Layouts, Ops
  <2> QED BY <2>1, PlainNode
<1> DEFINE l1 == Linear(c, <<ConnectorFc1>>)
           l2 == Linear(c, <<ConnectorFc2>>)
           s1 == <<Conv(n)>>
           s2 == <<ConnectorFc1>>
           s3 == <<<<"norm">>>>
           s4 == <<ConnectorFc2>>
           tail == <<Conv(n), ConnectorFc1, <<"norm">>, ConnectorFc2>>
<1>9. Graph(c) = (((F \o conv) \o l1) \o norm) \o l2 /\ Trained(c) = f \o tail
  BY DEF Graph, Trained
<1>10. /\ Segment(c, l1, "CT", "CT", s2) /\ Segment(c, norm, "CT", "CT", s3)
       /\ Segment(c, l2, "CT", "CT", s4) /\ Segment(c, conv, Layout(c, n), "CT", s1)
  BY <1>5, <1>7, <1>8
<1>11. f \in Seq(Steps) /\ s1 \in Seq(Steps) /\ s2 \in Seq(Steps) /\ s3 \in Seq(Steps)
       /\ s4 \in Seq(Steps)
  BY <1>4, <1>10, SegmentType
<1>12. ((s1 \o s2) \o s3) \o s4 = tail
  <2> DEFINE a == Conv(n)
             b == ConnectorFc1
             d == <<"norm">>
             e == ConnectorFc2
  <2>1. a \in Steps /\ b \in Steps /\ d \in Steps /\ e \in Steps
    BY <1>6, <1>11
  <2> HIDE DEF a, b, d, e
  <2>2. <<a>> \o <<b>> = <<a, b>>
    BY <2>1, OneAndOne
  <2>3. <<a, b>> \o <<d>> = <<a, b, d>>
    BY <2>1, TwoAndOne
  <2>4. <<a, b, d>> \o <<e>> = <<a, b, d, e>>
    BY <2>1, ThreeAndOne
  <2>5. ((<<a>> \o <<b>>) \o <<d>>) \o <<e>> = <<a, b, d, e>>
    BY <2>2, <2>3, <2>4
  <2> QED BY <2>5 DEF a, b, d, e
<1> HIDE DEF F, f, conv, norm, l1, l2, s1, s2, s3, s4, tail, n
<1>13. Segment(c, (((F \o conv) \o l1) \o norm) \o l2, "TC", "CT", (((f \o s1) \o s2) \o s3) \o s4)
  <2>1. Segment(c, F \o conv, "TC", "CT", f \o s1)
    BY <1>4, <1>10, Joined
  <2>2. Segment(c, (F \o conv) \o l1, "TC", "CT", (f \o s1) \o s2)
    BY <1>10, <2>1, Joined
  <2>3. Segment(c, ((F \o conv) \o l1) \o norm, "TC", "CT", ((f \o s1) \o s2) \o s3)
    BY <1>10, <2>2, Joined
  <2> QED BY <1>10, <2>3, Joined
<1>14. (((f \o s1) \o s2) \o s3) \o s4 = f \o (((s1 \o s2) \o s3) \o s4)
  <2>1. Cat(Cat(Cat(Cat(f, s1), s2), s3), s4) = Cat(f, Cat(Cat(Cat(s1, s2), s3), s4))
    BY <1>11, FiveJoined
  <2> QED BY <2>1 DEF Cat
<1> QED BY <1>9, <1>12, <1>13, <1>14

LEMMA GraphComputesEncoder ==
  ASSUME NEW c \in Confs
  PROVE  LayoutsChain(c) /\ ComputesEncoder(c) /\ Graph(c) \in Seq(Nodes(c))
<1>1. Segment(c, Graph(c), "TC", "CT", Trained(c))
  BY GraphSegment
<1>2. Graph(c) \in Seq(Nodes(c)) /\ Runs(Graph(c), "TC", "CT") /\ Computed(Graph(c)) = Trained(c)
  BY <1>1 DEF Segment
<1>3. LayoutsChain(c)
  BY <1>2 DEF Runs, LayoutsChain
<1> QED BY <1>2, <1>3 DEF ComputesEncoder

(***************************************************************************)
(* The nodes that still have to look for a pack ask for the order of their *)
(* weight, the only one it is ever packed in.                              *)
(***************************************************************************)
Askers(c) == {n \in Nodes(c) : n.order # "none"}

PackInv ==
  /\ conf \in Confs
  /\ packs \in [Encoders -> [Weights -> {"none", "natural", "frames"}]]
  /\ \A e \in Encoders : \A w \in Weights : packs[e][w] \in {"none", OrderOf(conf, w)}
  /\ todo \in [Encoders -> Seq(Askers(conf))]

LEMMA PackInit == Init => PackInv
BY DEF Init, PackInv

LEMMA AsksForItsOrder ==
  ASSUME NEW c \in Confs
  PROVE  Lookups(c) \in Seq(Askers(c))
<1> DEFINE g == Graph(c)
           T == Askers(c)
           asks == [n \in DOMAIN g |-> IF g[n].order = "none" THEN <<>> ELSE <<g[n]>>]
<1>1. g \in Seq(Nodes(c))
  BY GraphComputesEncoder
<1> HIDE DEF g
<1>2. \A n \in 1..Len(g) : g[n].order # "none" => g[n] \in T
  BY <1>1 DEF Askers
<1> HIDE DEF T
<1>3. asks \in Seq(Seq(T))
  <2>1. \A n \in 1..Len(g) : (IF g[n].order = "none" THEN <<>> ELSE <<g[n]>>) \in Seq(T)
    BY <1>2
  <2>2. DOMAIN g = 1..Len(g) /\ Len(g) \in Nat
    BY <1>1
  <2> DEFINE U == Seq(T)
             ask(n) == IF g[n].order = "none" THEN <<>> ELSE <<g[n]>>
  <2>3. \A n \in 1..Len(g) : ask(n) \in U
    BY <2>1
  <2> HIDE DEF U, ask
  <2>4. [n \in 1..Len(g) |-> ask(n)] \in Seq(U)
    BY <2>2, <2>3
  <2> QED BY <2>2, <2>4 DEF U, ask
<1> HIDE DEF asks
<1>4. FlattenSeq(asks) \in Seq(T)
  BY <1>3, FlattenType
<1> QED BY <1>4 DEF Lookups, asks, g, T

LEMMA PrepackOrder ==
  ASSUME NEW c \in Confs
  PROVE  /\ Prepack(c) \in [Weights -> {"none", "natural", "frames"}]
         /\ \A w \in Weights : Prepack(c)[w] \in {"none", OrderOf(c, w)}
BY DEF Prepack, OrderOf

LEMMA PackStep == PackInv /\ [Next]_vars => PackInv'
<1> SUFFICES ASSUME PackInv, [Next]_vars PROVE PackInv'
  OBVIOUS
<1>1. CASE UNCHANGED vars
  BY <1>1 DEF vars, PackInv
<1>2. CASE Load
  BY <1>2, PrepackOrder DEF Load, PackInv
<1>3. CASE UNCHANGED <<conf, packs, todo>>
  BY <1>3 DEF PackInv
<1>4. ASSUME NEW e \in Encoders, Build(e) PROVE PackInv'
  BY <1>4, AsksForItsOrder DEF Build, PackInv
<1>5. ASSUME NEW e \in Encoders, GetPack(e) PROVE PackInv'
  <2> DEFINE node == Head(todo[e])
  <2>1. node \in Askers(conf) /\ Tail(todo[e]) \in Seq(Askers(conf))
    BY <1>5 DEF GetPack, PackInv
  <2>2. /\ Weight(node) \in Weights /\ node.order = OrderOf(conf, Weight(node))
        /\ node.order \in {"natural", "frames"}
    BY <2>1 DEF Askers, Nodes
  <2>3. todo' \in [Encoders -> Seq(Askers(conf))] /\ conf' = conf
    BY <1>5, <2>1 DEF GetPack, PackInv
  <2>4. packs' = IF packs[e][Weight(node)] = "none"
                 THEN [packs EXCEPT ![e][Weight(node)] = node.order] ELSE packs
    BY <1>5 DEF GetPack
  <2> HIDE DEF node
  <2>5. /\ packs' \in [Encoders -> [Weights -> {"none", "natural", "frames"}]]
        /\ \A f \in Encoders : \A w \in Weights : packs'[f][w] \in {"none", OrderOf(conf, w)}
    BY <2>2, <2>4 DEF PackInv
  <2> QED BY <2>3, <2>5 DEF PackInv
<1> QED
  BY <1>1, <1>2, <1>3, <1>4, <1>5
     DEF Next, MainStep, StartPair, StartFails, PinMain, StartOneByOne, Join, Check, PinSemantic,
         ReturnAcoustic, ReturnSemantic

(***************************************************************************)
(* Whatever the switches, the host and the depth of the stages, the graph  *)
(* built is the encoder that was trained.                                  *)
(***************************************************************************)
THEOREM GraphAlwaysIsEncoder == Spec => []GraphIsEncoder
<1>1. PackInv => GraphIsEncoder
  BY GraphComputesEncoder DEF PackInv, GraphIsEncoder
<1> QED BY <1>1, PackInit, PackStep, PTL DEF Spec

(***************************************************************************)
(* get_pack never meets a weight packed in another order: what was packed  *)
(* at load, or by a node of either encoder, is what every node to come     *)
(* asks for.                                                               *)
(***************************************************************************)
THEOREM AlwaysPackedAsAsked == Spec => []PackedAsAsked
<1>1. PackInv => PackedAsAsked
  <2> SUFFICES ASSUME PackInv, NEW e \in Encoders, NEW k \in DOMAIN todo[e]
               PROVE  packs[e][Weight(todo[e][k])] \in {"none", todo[e][k].order}
    BY DEF PackedAsAsked
  <2>1. todo[e][k] \in Askers(conf)
    BY DEF PackInv
  <2> QED BY <2>1 DEF PackInv, Askers, Nodes
<1> QED BY <1>1, PackInit, PackStep, PTL DEF Spec

==============================================================================
