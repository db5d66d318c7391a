------------------------------ MODULE FusedNode ------------------------------
(***************************************************************************)
(* The int8 GEMM and convolution nodes of an encoder graph, computed by a  *)
(* ggml thread pool (src/patches/0001-ggml-i8s-fast-paths.patch,           *)
(* ggml_compute_forward_mul_mat_add and ggml_graph_compute_thread).        *)
(*                                                                         *)
(* Every thread walks the same list of nodes.  In a node it computes the   *)
(* float outputs of its own columns into a work buffer all nodes share,    *)
(* records their largest magnitude, and waits; thread 0 reduces the        *)
(* magnitudes in place; everybody waits again, then quantises its own      *)
(* columns by the common magnitude, which thread 0 stores as the scale of  *)
(* the output; a third barrier ends the node.  So a thread's walk is a     *)
(* sequence of steps, three per node, with a barrier after each.           *)
(*                                                                         *)
(* The arithmetic of one output column is the constant Kernel, a function  *)
(* of the whole input of the node and of nothing else: the patch computes  *)
(* every element on one code path wherever the edges of a thread's part    *)
(* fall.  The input of node k is the output of node k - 1.                 *)
(***************************************************************************)
EXTENDS Integers

CONSTANTS
  N,              \* threads of the pool (nth)
  W,              \* output columns of a node (OW)
  Nodes,          \* nodes of the graph
  Magnitudes,     \* float magnitudes an output can have, numbered in their order
  Levels,         \* quantised values
  Input,          \* columns of the graph's input
  Kernel(_,_,_,_),\* node, input columns, input scale, column -> magnitude
  Quant(_,_)      \* magnitude, largest magnitude -> quantised value

Thread == 0..(N - 1)
Column == 0..(W - 1)

ASSUME NodeAssumption ==
  /\ N \in Nat \ {0} /\ W \in Nat \ {0} /\ Nodes \in Nat
  /\ Magnitudes \subseteq Nat /\ 0 \in Magnitudes /\ 0 \in Levels
  /\ Input \in [Column -> Levels]
  /\ \A k \in 1..Nodes, x \in [Column -> Levels], s \in Magnitudes, c \in Column :
       Kernel(k, x, s, c) \in Magnitudes
  /\ \A v \in Magnitudes, m \in Magnitudes : Quant(v, m) \in Levels

VARIABLES
  step,     \* the step each thread is at: 3 (k - 1) + phase in node k
  arrived,  \* it has done the work of its step and waits at the barrier
  buf,      \* float_buf of the shared work buffer
  tmax,     \* thread_max of the shared work buffer
  act,      \* act[k]: quantised output of node k, act[0] the input
  scale     \* scale[k]: largest magnitude stored with it

vars == <<step, arrived, buf, tmax, act, scale>>

NodeOf(t) == step[t] \div 3 + 1
Phase(t)  == step[t] % 3
Finished(t) == step[t] = 3 * Nodes

\* Variant: the part is rounded down.
PartSizeDown == W \div N

(***************************************************************************)
(* The columns of thread t: ceil(W / N) from r0 on, cut at W.              *)
(***************************************************************************)
PartSize == (W + N - 1) \div N
Part(t) == {c \in Column : PartSize * t <= c /\ c < PartSize * (t + 1)}

IsMax(m, S) == m \in S /\ \A x \in S : x <= m

Magnitude(k, c) == Kernel(k, act[k - 1], scale[k - 1], c)

Init ==
  /\ step = [t \in Thread |-> 0]
  /\ arrived = [t \in Thread |-> FALSE]
  /\ \E v \in Magnitudes : buf = [c \in Column |-> v]    \* whatever was left there
  /\ \E v \in Magnitudes : tmax = [t \in Thread |-> v]
  /\ act = [k \in 0..Nodes |-> IF k = 0 THEN Input ELSE [c \in Column |-> 0]]
  /\ scale = [k \in 0..Nodes |-> 0]

Works(t, phase) ==
  /\ ~Finished(t) /\ ~arrived[t] /\ Phase(t) = phase
  /\ arrived' = [arrived EXCEPT ![t] = TRUE]
  /\ UNCHANGED step

Compute(t) ==
  LET k == NodeOf(t) IN
  /\ Works(t, 0)
  /\ buf' = [c \in Column |-> IF c \in Part(t) THEN Magnitude(k, c) ELSE buf[c]]
  /\ \E m \in {0} \cup {Magnitude(k, c) : c \in Part(t)} :
       /\ IsMax(m, {0} \cup {Magnitude(k, c) : c \in Part(t)})
       /\ tmax' = [tmax EXCEPT ![t] = m]
  /\ UNCHANGED <<act, scale>>

Reduce(t) ==
  /\ Works(t, 1)
  /\ IF t = 0
     THEN \E m \in {tmax[u] : u \in Thread} :
            /\ IsMax(m, {tmax[u] : u \in Thread})
            /\ tmax' = [tmax EXCEPT ![0] = m]
     ELSE UNCHANGED tmax
  /\ UNCHANGED <<buf, act, scale>>

Quantise(t) ==
  LET k == NodeOf(t) IN
  /\ Works(t, 2)
  /\ act' = [act EXCEPT ![k] =
               [c \in Column |-> IF c \in Part(t) THEN Quant(buf[c], tmax[0]) ELSE @[c]]]
  /\ scale' = IF t = 0 THEN [scale EXCEPT ![k] = tmax[0]] ELSE scale
  /\ UNCHANGED <<buf, tmax>>

\* Variant: no barrier at the end of a node.
LeaveNodeEarly(t) ==
  /\ arrived[t]
  /\ Phase(t) = 2 \/ \A u \in Thread : step[u] > step[t] \/ (step[u] = step[t] /\ arrived[u])
  /\ step' = [step EXCEPT ![t] = @ + 1]
  /\ arrived' = [arrived EXCEPT ![t] = FALSE]
  /\ UNCHANGED <<buf, tmax, act, scale>>

\* Variant: a barrier without a generation count: who looks late misses the release.
LeaveTogether(t) ==
  /\ arrived[t]
  /\ \A u \in Thread : step[u] = step[t] /\ arrived[u]
  /\ step' = [step EXCEPT ![t] = @ + 1]
  /\ arrived' = [arrived EXCEPT ![t] = FALSE]
  /\ UNCHANGED <<buf, tmax, act, scale>>

(***************************************************************************)
(* ggml_barrier, external: a thread leaves once every thread has arrived   *)
(* at the same barrier; those still inside may see the others gone on.     *)
(***************************************************************************)
Leave(t) ==
  /\ arrived[t]
  /\ \A u \in Thread : step[u] > step[t] \/ (step[u] = step[t] /\ arrived[u])
  /\ step' = [step EXCEPT ![t] = @ + 1]
  /\ arrived' = [arrived EXCEPT ![t] = FALSE]
  /\ UNCHANGED <<buf, tmax, act, scale>>

ThreadStep(t) == Compute(t) \/ Reduce(t) \/ Quantise(t) \/ Leave(t)

Next == \E t \in Thread : ThreadStep(t)

Spec == Init /\ [][Next]_vars

\* Every thread of the pool is scheduled.
FairSpec == Spec /\ \A t \in Thread : WF_vars(ThreadStep(t))
------------------------------------------------------------------------------
TypeOK ==
  /\ step \in [Thread -> 0..(3 * Nodes)]
  /\ arrived \in [Thread -> BOOLEAN]
  /\ buf \in [Column -> Magnitudes]
  /\ tmax \in [Thread -> Magnitudes]
  /\ act \in [0..Nodes -> [Column -> Levels]]
  /\ scale \in [0..Nodes -> Magnitudes]

(***************************************************************************)
(* The output of a node is what one thread alone computes: the scale is    *)
(* the largest magnitude over all columns, and every column is quantised   *)
(* by it.  N and the partition do not occur.                               *)
(***************************************************************************)
NodeCorrect(k) ==
  /\ IsMax(scale[k], {0} \cup {Magnitude(k, c) : c \in Column})
  /\ \A c \in Column : act[k][c] = Quant(Magnitude(k, c), scale[k])

(***************************************************************************)
(* Outputs do not depend on the number of threads nor on how they run ("a  *)
(* determinism property this runtime maintains and hash-verifies",         *)
(* src/demo/asr_infer.cpp): as soon as one thread has left a node, its     *)
(* output is the one of a single thread, and it stays so.                  *)
(***************************************************************************)
ThreadCountInvariant ==
  \A k \in 1..Nodes : (\E t \in Thread : step[t] >= 3 * k) => NodeCorrect(k)

(***************************************************************************)
(* An output is written only while every thread is inside its node: no     *)
(* slow thread still reads what the node overwrites, and nobody is ahead   *)
(* reading what it has not written yet.                                    *)
(***************************************************************************)
WrittenInside ==
  [][\A k \in 1..Nodes : act'[k] # act[k] => \A t \in Thread : NodeOf(t) = k]_vars

\* No barrier is left waiting: every thread reaches the end of the graph.
EveryThreadFinishes == <>(\A t \in Thread : Finished(t))
==============================================================================
