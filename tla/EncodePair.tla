------------------------------ MODULE EncodePair ------------------------------
(***************************************************************************)
(* Steps 4 and 5 of src/demo/asr_infer.cpp: the acoustic and the semantic  *)
(* encoder of one model run one after the other, or at once on two parts   *)
(* of the cores, and share the cache of packed weights.  An encoder's pool *)
(* of threads takes one node at a time, and the cache is only used under   *)
(* its mutex, so a lookup is one step.                                     *)
(***************************************************************************)
EXTENDS EncoderGraph, FiniteSets

CONSTANTS
  ThreadCounts,  \* values of --threads
  Cpus           \* numbers of processors of the host

ASSUME PairAssumption ==
  /\ ThreadCounts \subseteq Nat \ {0} /\ Cpus \subseteq Nat \ {0}

VARIABLES
  conf,      \* the model's type, the host and the switches
  nThreads,  \* params.n_threads
  parEnc,    \* VIBEASR_PAR_ENC: "unset", "0" or another text
  cpus,      \* processors of the host, and the mask main starts with
  packs,     \* pack_map: the order each weight of each encoder is packed in
  main,      \* "load", "ready", "pin", "acoustic", "join", "semantic",
             \* "check", "prompt", "failed", "aborted"
  se,        \* the semantic thread: "none", "new", "running", "done"
  poolOf,    \* threads of vae_ctx and of vae_ctx2, 0 when there is no context
  mask,      \* processors of the main thread and of the semantic one
  built,     \* encoders whose graph is built
  todo,      \* the nodes of each graph that still have to look for a pack
  frames     \* -1 or a number of frames, for each encoder

vars == <<conf, nThreads, parEnc, cpus, packs, main, se, poolOf, mask, built, todo, frames>>

Encoders == {"acoustic", "semantic"}
AllCpus == 0..(cpus - 1)
TAc == (nThreads + 1) \div 2
TSe == nThreads \div 2

Init ==
  /\ conf \in Confs /\ nThreads \in ThreadCounts /\ cpus \in Cpus
  /\ parEnc \in {"unset", "0", "1"}
  /\ packs = [e \in Encoders |-> [w \in Weights |-> "none"]]
  /\ main = "load" /\ se = "none"
  /\ poolOf = [vae_ctx |-> 0, vae_ctx2 |-> 0]
  /\ mask = [main |-> AllCpus, se |-> AllCpus]
  /\ built = {} /\ todo = [e \in Encoders |-> <<>>] /\ frames = [e \in Encoders |-> -1]

Load ==
  /\ main = "load" /\ main' = "ready"
  /\ packs' = [e \in Encoders |-> Prepack(conf)]
  /\ poolOf' = [poolOf EXCEPT !.vae_ctx = nThreads]
  /\ UNCHANGED <<conf, nThreads, parEnc, cpus, se, mask, built, todo, frames>>

InParallel == IF parEnc = "unset" THEN nThreads >= 6 ELSE parEnc # "0" /\ nThreads >= 2

\* Two contexts, two parts of the threads, and a thread for the semantic one.
StartPair ==
  /\ main = "ready" /\ InParallel
  /\ poolOf' = [vae_ctx |-> TAc, vae_ctx2 |-> TSe]
  /\ se' = "new" /\ mask' = [mask EXCEPT !.se = mask.main]
  /\ main' = "pin"
  /\ UNCHANGED <<conf, nThreads, parEnc, cpus, packs, built, todo, frames>>

\* sched_setaffinity refuses a mask without any processor of the host.
Pinned(old, lo, hi) ==
  IF (lo..(hi - 1)) \cap AllCpus = {} THEN old ELSE (lo..(hi - 1)) \cap AllCpus

\* Variant: both parts are counted from the first core.
PinSemanticFromZero ==
  /\ se = "new" /\ se' = "running"
  /\ mask' = [mask EXCEPT !.se = Pinned(mask.se, 0, TSe)]
  /\ UNCHANGED <<conf, nThreads, parEnc, cpus, packs, main, poolOf, built, todo, frames>>

PinSemantic ==
  /\ se = "new" /\ se' = "running"
  /\ mask' = [mask EXCEPT !.se = Pinned(mask.se, TAc, TAc + TSe)]
  /\ UNCHANGED <<conf, nThreads, parEnc, cpus, packs, main, poolOf, built, todo, frames>>

PinMain ==
  /\ main = "pin" /\ main' = "acoustic"
  /\ mask' = [mask EXCEPT !.main = Pinned(mask.main, 0, TAc)]
  /\ UNCHANGED <<conf, nThreads, parEnc, cpus, packs, se, poolOf, built, todo, frames>>

\* There is no second context.
StartFails ==
  /\ main = "ready" /\ InParallel
  /\ main' = "failed"
  /\ UNCHANGED <<conf, nThreads, parEnc, cpus, packs, se, poolOf, mask, built, todo, frames>>

StartOneByOne ==
  /\ main = "ready" /\ ~InParallel
  /\ main' = "acoustic"
  /\ UNCHANGED <<conf, nThreads, parEnc, cpus, packs, se, poolOf, mask, built, todo, frames>>

------------------------------------------------------------------------------
Encoding(e) ==
  \/ e = "acoustic" /\ main = "acoustic"
  \/ e = "semantic" /\ (main = "semantic" \/ se = "running")

\* vae_encode_impl builds the graph, unless an assertion ends the process.
Build(e) ==
  /\ Encoding(e) /\ e \notin built
  /\ IF Refused(conf)
     THEN main' = "aborted" /\ se' = "none" /\ UNCHANGED <<built, todo>>
     ELSE /\ built' = built \cup {e} /\ todo' = [todo EXCEPT ![e] = Lookups(conf)]
          /\ UNCHANGED <<main, se>>
  /\ UNCHANGED <<conf, nThreads, parEnc, cpus, packs, poolOf, mask, frames>>

\* get_pack: a missing pack is made in the order asked for, an old one must
\* have that order.
GetPack(e) ==
  /\ Encoding(e) /\ todo[e] # <<>>
  /\ LET node == Head(todo[e])
     IN  packs' = IF packs[e][Weight(node)] = "none"
                  THEN [packs EXCEPT ![e][Weight(node)] = node.order] ELSE packs
  /\ todo' = [todo EXCEPT ![e] = Tail(@)]
  /\ UNCHANGED <<conf, nThreads, parEnc, cpus, main, se, poolOf, mask, built, frames>>

\* It returns frames after the last node, or an error at once or on the way.
Return(e, n) ==
  /\ Encoding(e)
  /\ n = 1 => (e \in built /\ todo[e] = <<>>)
  /\ frames' = [frames EXCEPT ![e] = n]

\* Variant: after a failed acoustic encoding the other one is not waited for.
ReturnAcousticHasty(n) ==
  /\ Return("acoustic", n)
  /\ main' = IF n = -1 THEN "check" ELSE IF se # "none" THEN "join" ELSE "semantic"
  /\ UNCHANGED <<conf, nThreads, parEnc, cpus, packs, se, poolOf, mask, built, todo>>

ReturnAcoustic(n) ==
  /\ Return("acoustic", n)
  /\ main' = IF se # "none" THEN "join" ELSE IF n = -1 THEN "check" ELSE "semantic"
  /\ UNCHANGED <<conf, nThreads, parEnc, cpus, packs, se, poolOf, mask, built, todo>>

ReturnSemantic(n) ==
  /\ Return("semantic", n)
  /\ IF main = "semantic" THEN main' = "check" /\ UNCHANGED se
     ELSE se' = "done" /\ UNCHANGED main
  /\ UNCHANGED <<conf, nThreads, parEnc, cpus, packs, poolOf, mask, built, todo>>

\* join, the affinity and the threads of vae_ctx as before, no second context.
Join ==
  /\ main = "join" /\ se = "done"
  /\ main' = "check" /\ se' = "none"
  /\ mask' = [mask EXCEPT !.main = AllCpus]
  /\ poolOf' = [vae_ctx |-> nThreads, vae_ctx2 |-> 0]
  /\ UNCHANGED <<conf, nThreads, parEnc, cpus, packs, built, todo, frames>>

Check ==
  /\ main = "check"
  /\ main' = IF \E e \in Encoders : frames[e] < 0 THEN "failed" ELSE "prompt"
  /\ UNCHANGED <<conf, nThreads, parEnc, cpus, packs, se, poolOf, mask, built, todo, frames>>

MainStep ==
  Load \/ StartPair \/ StartFails \/ PinMain \/ StartOneByOne \/ Join \/ Check

Next ==
  \/ MainStep \/ PinSemantic
  \/ \E n \in {-1, 1} : ReturnAcoustic(n) \/ ReturnSemantic(n)
  \/ \E e \in Encoders : Build(e) \/ GetPack(e)

Spec == Init /\ [][Next]_vars
------------------------------------------------------------------------------
TypeOK ==
  /\ conf \in Confs /\ nThreads \in ThreadCounts /\ cpus \in Cpus
  /\ parEnc \in {"unset", "0", "1"}
  /\ packs \in [Encoders -> [Weights -> {"none", "natural", "frames"}]]
  /\ main \in {"load", "ready", "pin", "acoustic", "join", "semantic",
               "check", "prompt", "failed", "aborted"}
  /\ se \in {"none", "new", "running", "done"}
  /\ poolOf \in [{"vae_ctx", "vae_ctx2"} -> 0..nThreads]
  /\ mask \in [{"main", "se"} -> SUBSET AllCpus]
  /\ built \subseteq Encoders /\ frames \in [Encoders -> {-1, 1}]

(***************************************************************************)
(* For every type of weights, host and setting of the switches, the graph  *)
(* built is the encoder: layouts fit from node to node and the trained     *)
(* steps are all there, once and in order.                                 *)
(***************************************************************************)
GraphIsEncoder == main = "ready" => LayoutsChain(conf) /\ ComputesEncoder(conf)

(***************************************************************************)
(* The assertion of get_pack: whatever packed a weight first, at load or   *)
(* in a node of either encoder, packed it in the order that every node     *)
(* still to come asks for.                                                 *)
(***************************************************************************)
PackedAsAsked ==
  \A e \in Encoders : \A k \in DOMAIN todo[e] :
    packs[e][Weight(todo[e][k])] \in {"none", todo[e][k].order}

(***************************************************************************)
(* Two pools at once own their cores: every thread of both has one that is *)
(* its own, as long as the host has that many.                             *)
(***************************************************************************)
CoresOwned ==
  (main \in {"acoustic", "join"} /\ se \in {"running", "done"} /\ nThreads <= cpus) =>
    /\ mask.main \cap mask.se = {}
    /\ Cardinality(mask.main) = poolOf.vae_ctx /\ poolOf.vae_ctx > 0
    /\ Cardinality(mask.se) = poolOf.vae_ctx2 /\ poolOf.vae_ctx2 > 0

(***************************************************************************)
(* Whichever encoder fails, the rest of the program has all cores and all  *)
(* threads again and nobody else is encoding; and it builds a prompt only  *)
(* from two encoders that went through all their nodes.                    *)
(***************************************************************************)
WholeAgain ==
  main \in {"check", "prompt", "failed"} =>
    /\ se = "none" /\ mask.main = AllCpus
    /\ poolOf = [vae_ctx |-> nThreads, vae_ctx2 |-> 0]
    /\ main = "prompt" => \A e \in Encoders : frames[e] > 0 /\ e \in built /\ todo[e] = <<>>

(***************************************************************************)
(* Every type of weights that the converter writes is encoded.             *)
(***************************************************************************)
EveryTypeEncodes == main # "aborted"
==============================================================================
