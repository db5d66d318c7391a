---------------------------- MODULE Kernels_proofs ----------------------------
(***************************************************************************)
(* Proofs about the kernels and what surrounds them, for any number of     *)
(* threads.  FusedNode: for any columns, nodes, kernel and quantisation,   *)
(* the output of every node is the one of a single thread, and it is       *)
(* written only while all threads are in it.  KernelStats: the instruction *)
(* set the kernels are told and the calls they count.  Requant: the rows a *)
(* model's output head is quantised in.  Epilogues: the spans they are cut *)
(* into.  ConvGemm: the cells the routes of an int8 convolution write, and *)
(* the bytes that meet in them.  DotKernels: the terms of the dot products *)
(* and the lanes that add them up.  SmallDots: the lanes of the kernels    *)
(* for short rows.                                                         *)
(***************************************************************************)
EXTENDS FusedNode, KernelStats, Requant, Epilogues, ConvGemm, SmallDots, DotKernels, DataInduction

(***************************************************************************)
(* The partition of the columns.                                           *)
(***************************************************************************)
LEMMA PartSizeCovers == PartSize \in Nat \ {0} /\ W <= PartSize * N
<1>1. W \in Nat \ {0} /\ N \in Nat \ {0}
  BY NodeAssumption
<1>2. W + N - 1 < N * PartSize + N /\ PartSize \in Nat
  BY <1>1, DivisionBounds DEF PartSize
<1>3. PartSize # 0
  BY <1>1, <1>2
<1> QED BY <1>1, <1>2, <1>3

LEMMA PartsCover == \A c \in Column : \E t \in Thread : c \in Part(t)
<1> SUFFICES ASSUME NEW c \in Column PROVE \E t \in Thread : c \in Part(t)
  OBVIOUS
<1> DEFINE t == c \div PartSize
<1>1. PartSize \in Nat \ {0} /\ W <= PartSize * N /\ N \in Nat \ {0} /\ W \in Nat
  BY PartSizeCovers, NodeAssumption
<1>2. c \in Nat /\ c < W
  BY <1>1 DEF Column
<1>3. t \in Nat /\ PartSize * t <= c /\ c < PartSize * t + PartSize
  BY <1>1, <1>2, DivisionBounds
<1> HIDE DEF t
<1>4. PartSize * (t + 1) = PartSize * t + PartSize
  BY <1>1, <1>3
<1>5. t < N
  <2> SUFFICES ASSUME N <= t PROVE FALSE
    BY <1>1, <1>3
  <2>1. PartSize * N <= PartSize * t
    BY <1>1, <1>3, ProductMonotone
  <2> QED BY <2>1, <1>1, <1>2, <1>3
<1> QED BY <1>1, <1>2, <1>3, <1>4, <1>5 DEF Thread, Part

LEMMA PartsDisjoint ==
  ASSUME NEW t \in Thread, NEW u \in Thread, NEW c \in Part(t), c \in Part(u)
  PROVE  t = u
<1>1. PartSize \in Nat /\ t \in Nat /\ u \in Nat /\ c \in Nat
  BY PartSizeCovers, NodeAssumption DEF Thread, Part, Column
<1>2. \A a, b \in Nat : c \in Part(a) /\ c \in Part(b) => ~(a < b)
  <2> SUFFICES ASSUME NEW a \in Nat, NEW b \in Nat, c \in Part(a), c \in Part(b), a < b
               PROVE  FALSE
    OBVIOUS
  <2>1. PartSize * (a + 1) <= PartSize * b
    BY <1>1, ProductMonotone
  <2>2. c < PartSize * (a + 1) /\ PartSize * b <= c
    BY DEF Part
  <2>3. PartSize * (a + 1) \in Nat /\ PartSize * b \in Nat
    BY <1>1
  <2> QED BY <1>1, <2>1, <2>2, <2>3
<1> QED BY <1>1, <1>2

LEMMA PartInColumn == \A t : Part(t) \subseteq Column
BY DEF Part

LEMMA MaxIsUnique ==
  ASSUME NEW S \in SUBSET Nat, NEW a, NEW b, IsMax(a, S), IsMax(b, S)
  PROVE  a = b
BY DEF IsMax

------------------------------------------------------------------------------
(***************************************************************************)
(* Types and the barriers.                                                 *)
(***************************************************************************)
GoesOn == \A t \in Thread : arrived[t] => step[t] < 3 * Nodes

LockStep ==
  \A t, u \in Thread : /\ step[t] <= step[u] + 1
                       /\ step[u] < step[t] => arrived[u]

\* Thread t has done the work of step s.
Did(t, s) == step[t] > s \/ (step[t] = s /\ arrived[t])

Walk == TypeOK /\ GoesOn /\ LockStep

LEMMA StepShape ==
  ASSUME TypeOK, NEW t \in Thread, NEW p \in {0, 1, 2}, Works(t, p)
  PROVE  /\ NodeOf(t) \in 1..Nodes
         /\ step[t] = 3 * NodeOf(t) - 3 + p
         /\ ~arrived[t] /\ arrived' = [arrived EXCEPT ![t] = TRUE] /\ step' = step
<1>1. step[t] \in 0..(3 * Nodes) /\ Nodes \in Nat /\ step[t] # 3 * Nodes /\ step[t] % 3 = p
  BY NodeAssumption DEF TypeOK, Works, Finished, Phase
<1>2. step[t] = 3 * (step[t] \div 3) + p /\ step[t] \div 3 \in Nat
  BY <1>1
<1>3. NodeOf(t) = step[t] \div 3 + 1
  BY DEF NodeOf
<1>4. NodeOf(t) \in 1..Nodes /\ step[t] = 3 * NodeOf(t) - 3 + p
  BY <1>1, <1>2, <1>3, SMTT(30)
<1> QED BY <1>4 DEF Works

LEMMA MagnitudeType ==
  ASSUME TypeOK, NEW k \in 1..Nodes, NEW c \in Column
  PROVE  Magnitude(k, c) \in Magnitudes
<1>1. k - 1 \in 0..Nodes
  BY NodeAssumption
<1> QED BY <1>1, NodeAssumption DEF TypeOK, Magnitude

LEMMA WorksGoesOn ==
  ASSUME TypeOK, GoesOn, NEW t \in Thread, NEW p, Works(t, p)
  PROVE  arrived' \in [Thread -> BOOLEAN] /\ GoesOn'
<1>1. arrived' = [arrived EXCEPT ![t] = TRUE] /\ step' = step /\ step[t] # 3 * Nodes
  BY DEF Works, Finished
<1>2. step[t] \in 0..(3 * Nodes) /\ Nodes \in Nat
  BY NodeAssumption DEF TypeOK
<1>3. step[t] < 3 * Nodes
  BY <1>1, <1>2
<1>4. \A u \in Thread : arrived'[u] => u = t \/ arrived[u]
  BY <1>1 DEF TypeOK
<1> QED BY <1>1, <1>3, <1>4 DEF GoesOn, TypeOK

LEMMA InitWalk == Init => Walk
<1> SUFFICES ASSUME Init PROVE Walk
  OBVIOUS
<1>1. TypeOK
  BY NodeAssumption DEF Init, TypeOK
<1> QED BY <1>1 DEF Init, Walk, GoesOn, LockStep

LEMMA TypeStep ==
  ASSUME TypeOK, GoesOn, [Next]_vars
  PROVE  TypeOK' /\ GoesOn'
<1> USE NodeAssumption
<1>1. ASSUME NEW t \in Thread, Compute(t) PROVE TypeOK' /\ GoesOn'
  <2>1. Works(t, 0)
    BY <1>1 DEF Compute
  <2>2. NodeOf(t) \in 1..Nodes /\ step' = step
    BY <2>1, StepShape
  <2>3. buf' \in [Column -> Magnitudes] /\ tmax' \in [Thread -> Magnitudes]
    BY <1>1, <2>2, MagnitudeType, PartInColumn DEF Compute, TypeOK, IsMax
  <2>4. arrived' \in [Thread -> BOOLEAN] /\ GoesOn'
    BY <2>1, WorksGoesOn
  <2> QED BY <1>1, <2>2, <2>3, <2>4 DEF TypeOK, Compute
<1>2. ASSUME NEW t \in Thread, Reduce(t) PROVE TypeOK' /\ GoesOn'
  <2>1. Works(t, 1)
    BY <1>2 DEF Reduce
  <2>2. step' = step
    BY <2>1 DEF Works
  <2>3. tmax' \in [Thread -> Magnitudes]
    BY <1>2 DEF Reduce, TypeOK, IsMax
  <2>4. arrived' \in [Thread -> BOOLEAN] /\ GoesOn'
    BY <2>1, WorksGoesOn
  <2> QED BY <1>2, <2>2, <2>3, <2>4 DEF TypeOK, Reduce
<1>3. ASSUME NEW t \in Thread, Quantise(t) PROVE TypeOK' /\ GoesOn'
  <2>1. Works(t, 2)
    BY <1>3 DEF Quantise
  <2>2. NodeOf(t) \in 1..Nodes /\ step' = step
    BY <2>1, StepShape
  <2>3. NodeOf(t) \in 0..Nodes /\ 0 \in Thread
    BY <2>2 DEF Thread
  <2>4. act' \in [0..Nodes -> [Column -> Levels]]
    <3>1. [c \in Column |-> IF c \in Part(t) THEN Quant(buf[c], tmax[0])
                            ELSE act[NodeOf(t)][c]] \in [Column -> Levels]
      BY <2>3, PartInColumn, ZenonT(40) DEF TypeOK
    <3> QED BY <1>3, <2>3, <3>1 DEF TypeOK, Quantise
  <2>5. scale' \in [0..Nodes -> Magnitudes]
    BY <1>3, <2>3 DEF TypeOK, Quantise
  <2>6. arrived' \in [Thread -> BOOLEAN] /\ GoesOn'
    BY <2>1, WorksGoesOn
  <2> QED BY <1>3, <2>2, <2>4, <2>5, <2>6 DEF TypeOK, Quantise
<1>4. ASSUME NEW t \in Thread, Leave(t) PROVE TypeOK' /\ GoesOn'
  <2>1. step[t] + 1 \in 0..(3 * Nodes)
    BY <1>4 DEF Leave, TypeOK, GoesOn
  <2> QED BY <1>4, <2>1 DEF Leave, TypeOK, GoesOn
<1>5. ASSUME UNCHANGED vars PROVE TypeOK' /\ GoesOn'
  BY <1>5 DEF vars, TypeOK, GoesOn
<1> QED BY <1>1, <1>2, <1>3, <1>4, <1>5 DEF Next, ThreadStep

LEMMA LockStepStep ==
  ASSUME TypeOK, LockStep, [Next]_vars
  PROVE  LockStep'
<1> USE DEF LockStep
<1>1. step \in [Thread -> Nat] /\ arrived \in [Thread -> BOOLEAN]
  BY NodeAssumption DEF TypeOK
<1>2. ASSUME NEW t \in Thread, NEW p, Works(t, p) PROVE LockStep'
  BY <1>1, <1>2 DEF Works
<1>3. ASSUME NEW t \in Thread, Leave(t) PROVE LockStep'
  BY <1>1, <1>3 DEF Leave
<1>4. ASSUME UNCHANGED vars PROVE LockStep'
  BY <1>4 DEF vars
<1> QED BY <1>2, <1>3, <1>4 DEF Next, ThreadStep, Compute, Reduce, Quantise

LEMMA WalkStep == Walk /\ [Next]_vars => Walk'
BY TypeStep, LockStepStep DEF Walk

(***************************************************************************)
(* Type correctness: steps, magnitudes and quantised values stay in their  *)
(* ranges, whatever the partition and the schedule.                        *)
(***************************************************************************)
THEOREM TypeCorrect == Spec => []TypeOK
<1>1. Walk => TypeOK
  BY DEF Walk
<1> QED BY InitWalk, WalkStep, <1>1, PTL DEF Spec

------------------------------------------------------------------------------
(***************************************************************************)
(* The inductive invariant: what the work buffer, the outputs and the      *)
(* scales hold once a thread has done its part of a node.                  *)
(***************************************************************************)
OwnSet(k, t) == {0} \cup {Magnitude(k, c) : c \in Part(t)}
AllSet(k)    == {0} \cup {Magnitude(k, c) : c \in Column}

\* Inside node k, after its compute step, thread t finds its columns in the buffer.
Computed(t, k) == Did(t, 3 * k - 3) /\ step[t] < 3 * k
BufferOK ==
  \A t \in Thread, k \in 1..Nodes :
    Computed(t, k) => \A c \in Part(t) : buf[c] = Magnitude(k, c)

\* ... and its own maximum, until thread 0 overwrites slot 0 by the common one.
OwnMaxOK ==
  \A t \in Thread, k \in 1..Nodes :
    Computed(t, k) /\ (t = 0 => ~Did(0, 3 * k - 2)) => IsMax(tmax[t], OwnSet(k, t))

CommonMaxOK ==
  \A k \in 1..Nodes :
    Did(0, 3 * k - 2) /\ step[0] < 3 * k => IsMax(tmax[0], AllSet(k))

\* Whoever has quantised its part of node k has done so by the common maximum.
OutputOK ==
  \A t \in Thread, k \in 1..Nodes :
    Did(t, 3 * k - 1) =>
      \A c \in Part(t) : \A m \in Magnitudes :
        IsMax(m, AllSet(k)) => act[k][c] = Quant(Magnitude(k, c), m)

ScaleOK ==
  \A k \in 1..Nodes : Did(0, 3 * k - 1) => IsMax(scale[k], AllSet(k))

IInv == Walk /\ BufferOK /\ OwnMaxOK /\ CommonMaxOK /\ OutputOK /\ ScaleOK

LEMMA AllSetInNat ==
  ASSUME TypeOK, NEW k \in 1..Nodes
  PROVE  AllSet(k) \in SUBSET Nat
<1>1. \A c \in Column : Magnitude(k, c) \in Nat
  BY MagnitudeType, NodeAssumption
<1> QED BY <1>1 DEF AllSet

LEMMA StepNat == TypeOK => step \in [Thread -> Nat] /\ arrived \in [Thread -> BOOLEAN]
BY NodeAssumption DEF TypeOK

LEMMA ZeroIsThread == 0 \in Thread /\ Thread \subseteq Nat
BY NodeAssumption DEF Thread

\* Working at a step adds that step to what a thread has done, and nothing else.
LEMMA DidByWork ==
  ASSUME TypeOK, NEW t \in Thread, NEW p, Works(t, p), NEW u \in Thread, NEW s \in Int
  PROVE  Did(u, s)' <=> (Did(u, s) \/ (u = t /\ s = step[t]))
BY StepNat DEF Did, Works

LEMMA DidByLeaving ==
  ASSUME TypeOK, NEW t \in Thread, Leave(t), NEW u \in Thread, NEW s \in Int
  PROVE  (Did(u, s)' <=> Did(u, s)) /\ step[u] <= step'[u] /\ step'[u] \in Nat
BY StepNat DEF Did, Leave

(***************************************************************************)
(* The input of a node is not written any more once a thread has computed  *)
(* in it: who could still write it has not passed the barrier before.      *)
(***************************************************************************)
LEMMA InputFrozen ==
  ASSUME Walk, [Next]_vars, NEW t \in Thread, NEW k \in 1..Nodes, Did(t, 3 * k - 3)
  PROVE  act'[k - 1] = act[k - 1] /\ scale'[k - 1] = scale[k - 1]
<1>1. ASSUME NEW u \in Thread, Quantise(u)
      PROVE  act'[k - 1] = act[k - 1] /\ scale'[k - 1] = scale[k - 1]
  <2>1. Works(u, 2) /\ TypeOK
    BY <1>1 DEF Quantise, Walk
  <2>2. /\ NodeOf(u) \in 1..Nodes /\ step[u] = 3 * NodeOf(u) - 1 /\ ~arrived[u]
    BY <2>1, StepShape
  <2>3. NodeOf(u) # k - 1
    BY <2>1, <2>2, StepNat DEF Walk, LockStep, Did
  <2>4. k - 1 \in 0..Nodes
    BY NodeAssumption
  <2> QED BY <1>1, <2>1, <2>3, <2>4 DEF Quantise, TypeOK
<1>2. ASSUME NEW u \in Thread, Compute(u) \/ Reduce(u) \/ Leave(u)
      PROVE  act' = act /\ scale' = scale
  BY <1>2 DEF Compute, Reduce, Leave
<1> QED BY <1>1, <1>2 DEF Next, ThreadStep, vars

LEMMA MagnitudeFrozen ==
  ASSUME Walk, [Next]_vars, NEW t \in Thread, NEW k \in 1..Nodes, Did(t, 3 * k - 3)
  PROVE  /\ \A c : Magnitude(k, c)' = Magnitude(k, c)
         /\ AllSet(k)' = AllSet(k)
         /\ \A u : OwnSet(k, u)' = OwnSet(k, u)
<1>1. act'[k - 1] = act[k - 1] /\ scale'[k - 1] = scale[k - 1]
  BY InputFrozen
<1>2. \A c : Magnitude(k, c)' = Magnitude(k, c)
  BY <1>1 DEF Magnitude
<1> QED BY <1>2 DEF AllSet, OwnSet

LEMMA ComputeEffect ==
  ASSUME TypeOK, NEW t \in Thread, Compute(t)
  PROVE  /\ NodeOf(t) \in 1..Nodes /\ step[t] = 3 * NodeOf(t) - 3 /\ ~arrived[t]
         /\ Works(t, 0) /\ step' = step /\ act' = act /\ scale' = scale
         /\ \A c \in Part(t) : buf'[c] = Magnitude(NodeOf(t), c)
         /\ \A c \in Column \ Part(t) : buf'[c] = buf[c]
         /\ IsMax(tmax'[t], OwnSet(NodeOf(t), t))
         /\ \A u \in Thread : u # t => tmax'[u] = tmax[u]
<1>1. Works(t, 0)
  BY DEF Compute
<1>2. NodeOf(t) \in 1..Nodes /\ step[t] = 3 * NodeOf(t) - 3 /\ ~arrived[t] /\ step' = step
  BY <1>1, StepShape
<1>3. /\ \A c \in Part(t) : buf'[c] = Magnitude(NodeOf(t), c)
      /\ \A c \in Column \ Part(t) : buf'[c] = buf[c]
  BY PartInColumn DEF Compute
<1>4. /\ IsMax(tmax'[t], OwnSet(NodeOf(t), t))
      /\ \A u \in Thread : u # t => tmax'[u] = tmax[u]
  BY DEF Compute, OwnSet, TypeOK
<1> QED BY <1>1, <1>2, <1>3, <1>4 DEF Compute

LEMMA BufferStep == IInv /\ [Next]_vars => BufferOK'
<1> SUFFICES ASSUME IInv, [Next]_vars, NEW t \in Thread, NEW k \in 1..Nodes,
                    Computed(t, k)', NEW c \in Part(t)
             PROVE  buf'[c] = Magnitude(k, c)'
  BY DEF BufferOK
<1>0. TypeOK /\ Walk /\ BufferOK /\ step \in [Thread -> Nat] /\ k \in Int /\ c \in Column
  BY StepNat, PartInColumn DEF IInv, Walk
<1>1. CASE Did(t, 3 * k - 3) /\ step[t] < 3 * k /\ buf'[c] = buf[c]
  BY <1>0, <1>1, MagnitudeFrozen DEF BufferOK, Computed
<1>2. ASSUME NEW u \in Thread, Compute(u) PROVE buf'[c] = Magnitude(k, c)'
  <2>1. Works(u, 0) /\ step[u] = 3 * NodeOf(u) - 3 /\ NodeOf(u) \in 1..Nodes /\ step' = step
    BY <1>0, <1>2, ComputeEffect
  <2>2. CASE u = t
    <3>1. k = NodeOf(t)
      BY <1>0, <2>1, <2>2, DidByWork DEF Computed, Did, Works
    <3>2. Magnitude(k, c)' = Magnitude(k, c)
      BY <1>0, <1>2, ComputeEffect DEF Magnitude
    <3> QED BY <1>0, <1>2, <2>2, <3>1, <3>2, ComputeEffect
  <2>3. CASE u # t
    <3>1. buf'[c] = buf[c]
      BY <1>0, <1>2, <2>3, ComputeEffect, PartsDisjoint
    <3>2. Did(t, 3 * k - 3) /\ step[t] < 3 * k
      BY <1>0, <2>1, <2>3, DidByWork DEF Computed
    <3> QED BY <1>1, <3>1, <3>2
  <2> QED BY <2>2, <2>3
<1>3. ASSUME NEW u \in Thread, NEW p \in {1, 2}, Works(u, p), buf' = buf
      PROVE  buf'[c] = Magnitude(k, c)'
  <2>1. step[u] = 3 * NodeOf(u) - 3 + p /\ NodeOf(u) \in 1..Nodes /\ step' = step
    BY <1>0, <1>3, StepShape
  <2>2. Did(t, 3 * k - 3) /\ step[t] < 3 * k
    BY <1>0, <1>3, <2>1, DidByWork DEF Computed
  <2> QED BY <1>1, <1>3, <2>2
<1>4. ASSUME NEW u \in Thread, Leave(u) PROVE buf'[c] = Magnitude(k, c)'
  <2>1. Did(t, 3 * k - 3) /\ step[t] <= step'[t] /\ step'[t] < 3 * k /\ step'[t] \in Nat
    <3>1. 3 * k - 3 \in Int /\ Did(t, 3 * k - 3)' /\ step'[t] < 3 * k
      BY <1>0 DEF Computed
    <3> QED BY <1>0, <1>4, <3>1, DidByLeaving
  <2> QED BY <1>0, <1>1, <1>4, <2>1 DEF Leave
<1>5. ASSUME UNCHANGED vars PROVE buf'[c] = Magnitude(k, c)'
  BY <1>1, <1>5 DEF vars, Computed, Did
<1> QED BY <1>2, <1>3, <1>4, <1>5 DEF Next, ThreadStep, Reduce, Quantise

LEMMA ReduceEffect ==
  ASSUME TypeOK, NEW t \in Thread, Reduce(t)
  PROVE  /\ NodeOf(t) \in 1..Nodes /\ step[t] = 3 * NodeOf(t) - 2 /\ ~arrived[t]
         /\ Works(t, 1) /\ step' = step /\ act' = act /\ scale' = scale /\ buf' = buf
         /\ t = 0 => IsMax(tmax'[0], {tmax[u] : u \in Thread})
         /\ \A u \in Thread : u # 0 => tmax'[u] = tmax[u]
         /\ t # 0 => tmax' = tmax
<1>1. Works(t, 1)
  BY DEF Reduce
<1>2. NodeOf(t) \in 1..Nodes /\ step[t] = 3 * NodeOf(t) - 2 /\ ~arrived[t] /\ step' = step
  BY <1>1, StepShape
<1> QED BY <1>1, <1>2, ZeroIsThread DEF Reduce, TypeOK

LEMMA OwnMaxStep == IInv /\ [Next]_vars => OwnMaxOK'
<1> SUFFICES ASSUME IInv, [Next]_vars, NEW t \in Thread, NEW k \in 1..Nodes,
                    Computed(t, k)', t = 0 => ~Did(0, 3 * k - 2)'
             PROVE  IsMax(tmax'[t], OwnSet(k, t)')
  BY DEF OwnMaxOK
<1>0. /\ TypeOK /\ Walk /\ OwnMaxOK /\ step \in [Thread -> Nat] /\ k \in Int
      /\ 3 * k - 3 \in Int /\ 3 * k - 2 \in Int /\ 0 \in Thread
  BY StepNat, ZeroIsThread DEF IInv, Walk
<1>1. CASE Computed(t, k) /\ (t = 0 => ~Did(0, 3 * k - 2)) /\ tmax'[t] = tmax[t]
  <2>1. IsMax(tmax[t], OwnSet(k, t))
    BY <1>0, <1>1 DEF OwnMaxOK
  <2>2. OwnSet(k, t)' = OwnSet(k, t)
    BY <1>0, <1>1, MagnitudeFrozen DEF Computed
  <2> QED BY <1>1, <2>1, <2>2
<1>2. ASSUME NEW u \in Thread, NEW p, Works(u, p), u # t PROVE Computed(t, k)
  <2>1. Did(t, 3 * k - 3)
    BY <1>0, <1>2, DidByWork DEF Computed
  <2>2. step[t] < 3 * k
    BY <1>0, <1>2 DEF Computed, Works
  <2> QED BY <2>1, <2>2 DEF Computed
<1>3. ASSUME NEW u \in Thread, NEW p, Works(u, p) PROVE t = 0 => ~Did(0, 3 * k - 2)
  BY <1>0, <1>3, DidByWork
<1>4. ASSUME NEW u \in Thread, Compute(u) PROVE IsMax(tmax'[t], OwnSet(k, t)')
  <2>1. Works(u, 0) /\ step[u] = 3 * NodeOf(u) - 3 /\ NodeOf(u) \in 1..Nodes /\ step' = step
    BY <1>0, <1>4, ComputeEffect
  <2>2. CASE u = t
    <3>1. k = NodeOf(t)
      BY <1>0, <2>1, <2>2, DidByWork DEF Computed, Did, Works
    <3>2. \A c : Magnitude(k, c)' = Magnitude(k, c)
      BY <1>0, <1>4, ComputeEffect DEF Magnitude
    <3>3. OwnSet(k, t)' = OwnSet(k, t)
      BY <3>2 DEF OwnSet
    <3> QED BY <1>0, <1>4, <2>2, <3>1, <3>3, ComputeEffect
  <2>3. CASE u # t
    <3>1. tmax'[t] = tmax[t]
      BY <1>0, <1>4, <2>3, ComputeEffect
    <3> QED BY <1>1, <1>2, <1>3, <2>1, <2>3, <3>1
  <2> QED BY <2>2, <2>3
<1>5. ASSUME NEW u \in Thread, Reduce(u) PROVE IsMax(tmax'[t], OwnSet(k, t)')
  <2>1. /\ Works(u, 1) /\ step[u] = 3 * NodeOf(u) - 2 /\ NodeOf(u) \in 1..Nodes
        /\ step' = step /\ ~arrived[u]
    BY <1>0, <1>5, ReduceEffect
  <2>2. Computed(t, k)
    BY <1>0, <2>1, DidByWork DEF Computed
  <2>3. tmax'[t] = tmax[t]
    <3>1. CASE u = 0 /\ t = 0
      <4>1. step[0] = 3 * k - 2
        BY <1>0, <2>1, <2>2, <3>1 DEF Computed, Did
      <4> QED BY <1>0, <2>1, <3>1, <4>1, DidByWork
    <3>2. CASE u # 0 \/ t # 0
      BY <1>0, <1>5, <3>2, ReduceEffect
    <3> QED BY <3>1, <3>2
  <2> QED BY <1>1, <1>3, <2>1, <2>2, <2>3
<1>6. ASSUME NEW u \in Thread, Quantise(u) PROVE IsMax(tmax'[t], OwnSet(k, t)')
  <2>1. Works(u, 2) /\ tmax' = tmax
    BY <1>6 DEF Quantise
  <2>2. step[u] = 3 * NodeOf(u) - 1 /\ NodeOf(u) \in 1..Nodes /\ step' = step
    BY <1>0, <2>1, StepShape
  <2>3. Computed(t, k)
    BY <1>0, <2>1, <2>2, DidByWork DEF Computed
  <2> QED BY <1>1, <1>3, <2>1, <2>3
<1>7. ASSUME NEW u \in Thread, Leave(u) PROVE IsMax(tmax'[t], OwnSet(k, t)')
  <2>1. /\ (Did(t, 3 * k - 3)' <=> Did(t, 3 * k - 3)) /\ step[t] <= step'[t] /\ step'[t] \in Nat
        /\ (Did(0, 3 * k - 2)' <=> Did(0, 3 * k - 2))
    BY <1>0, <1>7, DidByLeaving
  <2>2. Computed(t, k)
    BY <1>0, <2>1 DEF Computed
  <2> QED BY <1>1, <1>7, <2>1, <2>2 DEF Leave
<1>8. ASSUME UNCHANGED vars PROVE IsMax(tmax'[t], OwnSet(k, t)')
  BY <1>1, <1>8 DEF vars, Computed, Did
<1> QED BY <1>4, <1>5, <1>6, <1>7, <1>8 DEF Next, ThreadStep

(***************************************************************************)
(* The maximum of the maxima of all parts is the maximum over all columns. *)
(***************************************************************************)
LEMMA MaxOfMaxima ==
  ASSUME TypeOK, NEW k \in 1..Nodes, NEW m,
         \A u \in Thread : IsMax(tmax[u], OwnSet(k, u)),
         IsMax(m, {tmax[u] : u \in Thread})
  PROVE  IsMax(m, AllSet(k))
<1>1. \A u \in Thread : OwnSet(k, u) \subseteq AllSet(k)
  BY PartInColumn DEF OwnSet, AllSet
<1>2. m \in AllSet(k)
  BY <1>1 DEF IsMax
<1>3. \A c \in Column : Magnitude(k, c) <= m
  <2> SUFFICES ASSUME NEW c \in Column PROVE Magnitude(k, c) <= m
    OBVIOUS
  <2>1. PICK u \in Thread : c \in Part(u)
    BY PartsCover
  <2>2. Magnitude(k, c) <= tmax[u] /\ tmax[u] <= m
    BY <2>1 DEF IsMax, OwnSet
  <2>3. Magnitude(k, c) \in Nat /\ tmax[u] \in Nat /\ m \in Nat
    BY <1>2, AllSetInNat, NodeAssumption DEF AllSet, TypeOK
  <2> QED BY <2>2, <2>3
<1>4. 0 <= m
  BY <1>2, AllSetInNat
<1> QED BY <1>2, <1>3, <1>4 DEF IsMax, AllSet

LEMMA CommonMaxStep == IInv /\ [Next]_vars => CommonMaxOK'
<1> SUFFICES ASSUME IInv, [Next]_vars, NEW k \in 1..Nodes,
                    Did(0, 3 * k - 2)', step'[0] < 3 * k
             PROVE  IsMax(tmax'[0], AllSet(k)')
  BY DEF CommonMaxOK
<1>0. /\ TypeOK /\ Walk /\ OwnMaxOK /\ CommonMaxOK /\ step \in [Thread -> Nat] /\ k \in Int
      /\ 3 * k - 3 \in Int /\ 3 * k - 2 \in Int /\ 0 \in Thread
  BY StepNat, ZeroIsThread DEF IInv, Walk
<1>1. CASE Did(0, 3 * k - 2) /\ step[0] < 3 * k /\ tmax'[0] = tmax[0]
  <2>1. Did(0, 3 * k - 3)
    BY <1>0, <1>1 DEF Did
  <2> QED BY <1>0, <1>1, <2>1, MagnitudeFrozen DEF CommonMaxOK
<1>2. ASSUME NEW u \in Thread, Compute(u) PROVE IsMax(tmax'[0], AllSet(k)')
  <2>1. /\ Works(u, 0) /\ step[u] = 3 * NodeOf(u) - 3 /\ NodeOf(u) \in 1..Nodes
        /\ step' = step /\ ~arrived[u]
    BY <1>0, <1>2, ComputeEffect
  <2>2. Did(0, 3 * k - 2) /\ step[0] < 3 * k
    BY <1>0, <2>1, DidByWork
  <2>3. u # 0
    BY <1>0, <2>1, <2>2 DEF Did
  <2>4. tmax'[0] = tmax[0]
    BY <1>0, <1>2, <2>3, ComputeEffect
  <2> QED BY <1>1, <2>2, <2>4
<1>3. ASSUME NEW u \in Thread, Reduce(u) PROVE IsMax(tmax'[0], AllSet(k)')
  <2>1. /\ Works(u, 1) /\ step[u] = 3 * NodeOf(u) - 2 /\ NodeOf(u) \in 1..Nodes
        /\ step' = step /\ ~arrived[u] /\ act' = act /\ scale' = scale
    BY <1>0, <1>3, ReduceEffect
  <2>2. CASE Did(0, 3 * k - 2)
    <3>1. u # 0
      BY <1>0, <2>1, <2>2 DEF Did
    <3>2. tmax'[0] = tmax[0]
      BY <1>0, <1>3, <3>1, ReduceEffect
    <3> QED BY <1>1, <2>1, <2>2, <3>2
  <2>3. CASE ~Did(0, 3 * k - 2)
    <3>1. u = 0 /\ step[0] = 3 * k - 2
      BY <1>0, <2>1, <2>3, DidByWork
    <3>2. ASSUME NEW t \in Thread PROVE IsMax(tmax[t], OwnSet(k, t))
      <4>1. /\ step[t] <= step[0] + 1 /\ step[0] <= step[t] + 1
            /\ step[t] < step[0] => arrived[t]
        BY <1>0 DEF Walk, LockStep
      <4>2. Computed(t, k)
        BY <1>0, <3>1, <4>1 DEF Computed, Did
      <4> QED BY <1>0, <2>3, <4>2 DEF OwnMaxOK
    <3>3. IsMax(tmax'[0], {tmax[t] : t \in Thread})
      BY <1>0, <1>3, <3>1, ReduceEffect
    <3>4. IsMax(tmax'[0], AllSet(k))
      BY <1>0, <3>2, <3>3, MaxOfMaxima
    <3>5. AllSet(k)' = AllSet(k)
      BY <2>1 DEF AllSet, Magnitude
    <3> QED BY <3>4, <3>5
  <2> QED BY <2>2, <2>3
<1>4. ASSUME NEW u \in Thread, Quantise(u) PROVE IsMax(tmax'[0], AllSet(k)')
  <2>1. Works(u, 2) /\ tmax' = tmax
    BY <1>4 DEF Quantise
  <2>2. step[u] = 3 * NodeOf(u) - 1 /\ NodeOf(u) \in 1..Nodes /\ step' = step
    BY <1>0, <2>1, StepShape
  <2>3. Did(0, 3 * k - 2) /\ step[0] < 3 * k
    BY <1>0, <2>1, <2>2, DidByWork
  <2> QED BY <1>1, <2>1, <2>3
<1>5. ASSUME NEW u \in Thread, Leave(u) PROVE IsMax(tmax'[0], AllSet(k)')
  <2>1. (Did(0, 3 * k - 2)' <=> Did(0, 3 * k - 2)) /\ step[0] <= step'[0] /\ step'[0] \in Nat
    BY <1>0, <1>5, DidByLeaving
  <2>2. Did(0, 3 * k - 2) /\ step[0] < 3 * k
    BY <1>0, <2>1
  <2> QED BY <1>1, <1>5, <2>2 DEF Leave
<1>6. ASSUME UNCHANGED vars PROVE IsMax(tmax'[0], AllSet(k)')
  BY <1>1, <1>6 DEF vars, Did
<1> QED BY <1>2, <1>3, <1>4, <1>5, <1>6 DEF Next, ThreadStep

LEMMA QuantiseEffect ==
  ASSUME TypeOK, NEW t \in Thread, Quantise(t)
  PROVE  /\ NodeOf(t) \in 1..Nodes /\ step[t] = 3 * NodeOf(t) - 1 /\ ~arrived[t]
         /\ Works(t, 2) /\ step' = step /\ buf' = buf /\ tmax' = tmax
         /\ \A c \in Part(t) : act'[NodeOf(t)][c] = Quant(buf[c], tmax[0])
         /\ \A c \in Column \ Part(t) : act'[NodeOf(t)][c] = act[NodeOf(t)][c]
         /\ \A k \in 0..Nodes : k # NodeOf(t) => act'[k] = act[k] /\ scale'[k] = scale[k]
         /\ t = 0 => scale'[NodeOf(t)] = tmax[0]
         /\ t # 0 => scale' = scale
<1>1. Works(t, 2)
  BY DEF Quantise
<1>2. NodeOf(t) \in 1..Nodes /\ step[t] = 3 * NodeOf(t) - 1 /\ ~arrived[t] /\ step' = step
  BY <1>1, StepShape
<1>3. NodeOf(t) \in 0..Nodes
  BY <1>2
<1> QED BY <1>1, <1>2, <1>3, PartInColumn DEF Quantise, TypeOK

\* When a thread quantises, the common maximum is there.
LEMMA QuantiseByCommonMax ==
  ASSUME IInv, NEW t \in Thread, Quantise(t)
  PROVE  IsMax(tmax[0], AllSet(NodeOf(t))) /\ tmax[0] \in Magnitudes
<1>0. /\ TypeOK /\ LockStep /\ CommonMaxOK /\ step \in [Thread -> Nat] /\ 0 \in Thread
  BY StepNat, ZeroIsThread DEF IInv, Walk
<1>1. NodeOf(t) \in 1..Nodes /\ step[t] = 3 * NodeOf(t) - 1 /\ ~arrived[t]
  BY <1>0, QuantiseEffect
<1>2. /\ step[0] <= step[t] + 1 /\ step[t] <= step[0] + 1
      /\ step[0] < step[t] => arrived[0]
      /\ ~(step[t] < step[0])
  BY <1>0, <1>1 DEF LockStep
<1>3. Did(0, 3 * NodeOf(t) - 2) /\ step[0] < 3 * NodeOf(t)
  BY <1>0, <1>1, <1>2 DEF Did
<1> QED BY <1>0, <1>1, <1>3 DEF CommonMaxOK, TypeOK

\* Having quantised implies having computed.
LEMMA DidMonotone ==
  ASSUME TypeOK, NEW t \in Thread, NEW a \in Int, NEW b \in Int, b <= a, Did(t, a)
  PROVE  Did(t, b)
BY StepNat DEF Did

LEMMA OutputStep == IInv /\ [Next]_vars => OutputOK'
<1> SUFFICES ASSUME IInv, [Next]_vars, NEW t \in Thread, NEW k \in 1..Nodes,
                    Did(t, 3 * k - 1)', NEW c \in Part(t), NEW m \in Magnitudes,
                    IsMax(m, AllSet(k)')
             PROVE  act'[k][c] = Quant(Magnitude(k, c)', m)
  BY DEF OutputOK
<1>0. /\ TypeOK /\ Walk /\ BufferOK /\ OutputOK /\ step \in [Thread -> Nat]
      /\ k \in Int /\ 3 * k - 3 \in Int /\ 3 * k - 1 \in Int /\ 3 * k - 3 <= 3 * k - 1
      /\ k \in 0..Nodes /\ c \in Column
  BY StepNat, PartInColumn, NodeAssumption DEF IInv, Walk
<1>1. CASE Did(t, 3 * k - 1) /\ act'[k][c] = act[k][c]
  <2>1. Did(t, 3 * k - 3)
    BY <1>0, <1>1, DidMonotone
  <2>2. AllSet(k)' = AllSet(k) /\ Magnitude(k, c)' = Magnitude(k, c)
    BY <1>0, <2>1, MagnitudeFrozen
  <2> QED BY <1>0, <1>1, <2>2 DEF OutputOK
<1>2. ASSUME NEW u \in Thread, Quantise(u) PROVE act'[k][c] = Quant(Magnitude(k, c)', m)
  <2>1. /\ Works(u, 2) /\ step[u] = 3 * NodeOf(u) - 1 /\ NodeOf(u) \in 1..Nodes
        /\ step' = step /\ ~arrived[u] /\ NodeOf(u) \in Nat
    BY <1>0, <1>2, QuantiseEffect
  <2>2. CASE u = t /\ k = NodeOf(u)
    <3>1. Did(t, 3 * k - 3) /\ step[t] < 3 * k
      BY <1>0, <2>1, <2>2 DEF Did
    <3>2. buf[c] = Magnitude(k, c)
      BY <1>0, <3>1 DEF BufferOK, Computed
    <3>3. AllSet(k)' = AllSet(k) /\ Magnitude(k, c)' = Magnitude(k, c)
      BY <1>0, <3>1, MagnitudeFrozen
    <3>4. m = tmax[0]
      BY <1>0, <1>2, <2>2, <3>3, QuantiseByCommonMax, AllSetInNat, MaxIsUnique
    <3>5. act'[k][c] = Quant(buf[c], tmax[0])
      BY <1>0, <1>2, <2>2, QuantiseEffect
    <3> QED BY <3>2, <3>3, <3>4, <3>5
  <2>3. CASE u # t \/ k # NodeOf(u)
    <3>1. Did(t, 3 * k - 1)
      BY <1>0, <2>1, <2>3, DidByWork
    <3>2. act'[k][c] = act[k][c]
      <4>1. CASE k # NodeOf(u)
        BY <1>0, <1>2, <4>1, QuantiseEffect
      <4>2. CASE k = NodeOf(u) /\ u # t
        <5>1. c \notin Part(u)
          BY <4>2, PartsDisjoint
        <5> QED BY <1>0, <1>2, <4>2, <5>1, QuantiseEffect
      <4> QED BY <2>3, <4>1, <4>2
    <3> QED BY <1>1, <3>1, <3>2
  <2> QED BY <2>2, <2>3
<1>3. ASSUME NEW u \in Thread, Compute(u) PROVE act'[k][c] = Quant(Magnitude(k, c)', m)
  <2>1. /\ Works(u, 0) /\ step[u] = 3 * NodeOf(u) - 3 /\ NodeOf(u) \in 1..Nodes /\ act' = act
    BY <1>0, <1>3, ComputeEffect
  <2>2. Did(t, 3 * k - 1)
    BY <1>0, <2>1, DidByWork
  <2> QED BY <1>1, <2>1, <2>2
<1>4. ASSUME NEW u \in Thread, Reduce(u) PROVE act'[k][c] = Quant(Magnitude(k, c)', m)
  <2>1. /\ Works(u, 1) /\ step[u] = 3 * NodeOf(u) - 2 /\ NodeOf(u) \in 1..Nodes /\ act' = act
    BY <1>0, <1>4, ReduceEffect
  <2>2. Did(t, 3 * k - 1)
    BY <1>0, <2>1, DidByWork
  <2> QED BY <1>1, <2>1, <2>2
<1>5. ASSUME NEW u \in Thread, Leave(u) PROVE act'[k][c] = Quant(Magnitude(k, c)', m)
  <2>1. Did(t, 3 * k - 1)
    BY <1>0, <1>5, DidByLeaving
  <2> QED BY <1>1, <1>5, <2>1 DEF Leave
<1>6. ASSUME UNCHANGED vars PROVE act'[k][c] = Quant(Magnitude(k, c)', m)
  BY <1>1, <1>6 DEF vars, Did
<1> QED BY <1>2, <1>3, <1>4, <1>5, <1>6 DEF Next, ThreadStep

LEMMA ScaleStep == IInv /\ [Next]_vars => ScaleOK'
<1> SUFFICES ASSUME IInv, [Next]_vars, NEW k \in 1..Nodes, Did(0, 3 * k - 1)'
             PROVE  IsMax(scale'[k], AllSet(k)')
  BY DEF ScaleOK
<1>0. /\ TypeOK /\ Walk /\ ScaleOK /\ step \in [Thread -> Nat] /\ 0 \in Thread
      /\ k \in Int /\ 3 * k - 3 \in Int /\ 3 * k - 1 \in Int /\ 3 * k - 3 <= 3 * k - 1
      /\ k \in 0..Nodes
  BY StepNat, ZeroIsThread, NodeAssumption DEF IInv, Walk
<1>1. CASE Did(0, 3 * k - 1) /\ scale'[k] = scale[k]
  <2>1. Did(0, 3 * k - 3)
    BY <1>0, <1>1, DidMonotone
  <2> QED BY <1>0, <1>1, <2>1, MagnitudeFrozen DEF ScaleOK
<1>2. ASSUME NEW u \in Thread, Quantise(u) PROVE IsMax(scale'[k], AllSet(k)')
  <2>1. /\ Works(u, 2) /\ step[u] = 3 * NodeOf(u) - 1 /\ NodeOf(u) \in 1..Nodes
        /\ step' = step /\ ~arrived[u]
    BY <1>0, <1>2, QuantiseEffect
  <2>2. CASE u = 0 /\ k = NodeOf(u)
    <3>1. Did(0, 3 * k - 3)
      BY <1>0, <2>1, <2>2 DEF Did
    <3>2. AllSet(k)' = AllSet(k)
      BY <1>0, <3>1, MagnitudeFrozen
    <3>3. scale'[k] = tmax[0]
      BY <1>0, <1>2, <2>2, QuantiseEffect
    <3> QED BY <1>2, <2>2, <3>2, <3>3, QuantiseByCommonMax
  <2>3. CASE u # 0 \/ k # NodeOf(u)
    <3>1. Did(0, 3 * k - 1)
      BY <1>0, <2>1, <2>3, DidByWork
    <3>2. scale'[k] = scale[k]
      BY <1>0, <1>2, <2>3, QuantiseEffect
    <3> QED BY <1>1, <3>1, <3>2
  <2> QED BY <2>2, <2>3
<1>3. ASSUME NEW u \in Thread, Compute(u) PROVE IsMax(scale'[k], AllSet(k)')
  <2>1. /\ Works(u, 0) /\ step[u] = 3 * NodeOf(u) - 3 /\ NodeOf(u) \in 1..Nodes /\ scale' = scale
    BY <1>0, <1>3, ComputeEffect
  <2>2. Did(0, 3 * k - 1)
    BY <1>0, <2>1, DidByWork
  <2> QED BY <1>1, <2>1, <2>2
<1>4. ASSUME NEW u \in Thread, Reduce(u) PROVE IsMax(scale'[k], AllSet(k)')
  <2>1. /\ Works(u, 1) /\ step[u] = 3 * NodeOf(u) - 2 /\ NodeOf(u) \in 1..Nodes /\ scale' = scale
    BY <1>0, <1>4, ReduceEffect
  <2>2. Did(0, 3 * k - 1)
    BY <1>0, <2>1, DidByWork
  <2> QED BY <1>1, <2>1, <2>2
<1>5. ASSUME NEW u \in Thread, Leave(u) PROVE IsMax(scale'[k], AllSet(k)')
  <2>1. Did(0, 3 * k - 1)
    BY <1>0, <1>5, DidByLeaving
  <2> QED BY <1>1, <1>5, <2>1 DEF Leave
<1>6. ASSUME UNCHANGED vars PROVE IsMax(scale'[k], AllSet(k)')
  BY <1>1, <1>6 DEF vars, Did
<1> QED BY <1>2, <1>3, <1>4, <1>5, <1>6 DEF Next, ThreadStep

------------------------------------------------------------------------------
LEMMA InvInit == Init => IInv
<1> SUFFICES ASSUME Init PROVE IInv
  OBVIOUS
<1>1. Walk /\ 0 \in Thread
  BY InitWalk, ZeroIsThread
<1>2. \A t \in Thread, k \in 1..Nodes :
         ~Did(t, 3 * k - 3) /\ ~Did(t, 3 * k - 2) /\ ~Did(t, 3 * k - 1)
  BY NodeAssumption DEF Init, Did
<1> QED BY <1>1, <1>2 DEF IInv, BufferOK, OwnMaxOK, CommonMaxOK, OutputOK, ScaleOK, Computed

LEMMA InvStep == IInv /\ [Next]_vars => IInv'
BY WalkStep, BufferStep, OwnMaxStep, CommonMaxStep, OutputStep, ScaleStep DEF IInv

LEMMA InvCorrect == IInv => ThreadCountInvariant
<1> SUFFICES ASSUME IInv, NEW k \in 1..Nodes, NEW t \in Thread, step[t] >= 3 * k
             PROVE  NodeCorrect(k)
  BY DEF ThreadCountInvariant
<1>0. /\ TypeOK /\ LockStep /\ OutputOK /\ ScaleOK /\ step \in [Thread -> Nat] /\ 0 \in Thread
      /\ k \in Int /\ k \in 0..Nodes
  BY StepNat, ZeroIsThread, NodeAssumption DEF IInv, Walk
<1>1. ASSUME NEW u \in Thread PROVE Did(u, 3 * k - 1)
  <2>1. step[t] <= step[u] + 1 /\ (step[u] < step[t] => arrived[u])
    BY <1>0 DEF LockStep
  <2> QED BY <1>0, <2>1 DEF Did
<1>2. IsMax(scale[k], AllSet(k)) /\ scale[k] \in Magnitudes
  BY <1>0, <1>1 DEF ScaleOK, TypeOK
<1>3. ASSUME NEW c \in Column PROVE act[k][c] = Quant(Magnitude(k, c), scale[k])
  <2>1. PICK u \in Thread : c \in Part(u)
    BY PartsCover
  <2> QED BY <1>0, <1>1, <1>2, <2>1 DEF OutputOK
<1> QED BY <1>2, <1>3 DEF NodeCorrect, AllSet

(***************************************************************************)
(* For every number of threads, every number of columns (a multiple of it  *)
(* or not, fewer than it or not), every kernel and every schedule: once a  *)
(* thread has left a node, the node's output and scale are those one       *)
(* thread computes.                                                        *)
(***************************************************************************)
THEOREM OutputsIndependentOfThreads == Spec => []ThreadCountInvariant
BY InvInit, InvStep, InvCorrect, PTL DEF Spec

LEMMA InsideStep ==
  Walk /\ [Next]_vars =>
    [\A k \in 1..Nodes : act'[k] # act[k] => \A t \in Thread : NodeOf(t) = k]_vars
<1> SUFFICES ASSUME Walk, Next, NEW k \in 1..Nodes, act'[k] # act[k], NEW t \in Thread
             PROVE  NodeOf(t) = k
  OBVIOUS
<1>0. TypeOK /\ LockStep /\ step \in [Thread -> Nat] /\ k \in Nat /\ k \in 0..Nodes
  BY StepNat, NodeAssumption DEF Walk
<1>1. PICK u \in Thread : Quantise(u)
  BY DEF Next, ThreadStep, Compute, Reduce, Leave
<1>2. step[u] = 3 * NodeOf(u) - 1 /\ ~arrived[u] /\ k = NodeOf(u)
  BY <1>0, <1>1, QuantiseEffect
<1>3. /\ step[t] <= step[u] + 1 /\ step[u] <= step[t] + 1
      /\ ~(step[u] < step[t])
  BY <1>0, <1>2 DEF LockStep
<1>4. step[t] = 3 * k - 1 \/ step[t] = 3 * k - 2
  BY <1>0, <1>2, <1>3
<1>5. step[t] \div 3 = k - 1
  BY <1>0, <1>4
<1> QED BY <1>0, <1>5 DEF NodeOf

(***************************************************************************)
(* An output is written only while every thread is inside its node: no     *)
(* thread still reads what is being overwritten, for any pool and graph.   *)
(***************************************************************************)
THEOREM OutputsWrittenInside == Spec => WrittenInside
BY InitWalk, WalkStep, InsideStep, PTL DEF Spec, WrittenInside
--------------------------------------------------------------------------------
(***************************************************************************)
(* KernelStats: types.                                                     *)
(***************************************************************************)
Places == {"idle", "detect", "kernel", "claim", "write"}

StatsTypeOK ==
  /\ cpu \in Cpus /\ forced \in Overrides /\ statsOn \in BOOLEAN
  /\ cached \in -1..Amx /\ next \in Nat /\ dumped \in Int
  /\ pc \in [Workers -> Places] /\ answer \in [Workers -> -1..Amx]
  /\ slot \in [Workers -> -1..(Slots - 1)] /\ read \in [Workers -> Nat]
  /\ calls \in [0..(Slots - 1) -> Nat] /\ left \in [Workers -> 0..Runs]
  /\ \A w \in Workers : pc[w] \in {"detect", "kernel"} => left[w] > 0
  /\ \A w \in Workers : pc[w] \in {"claim", "write"} => statsOn
  /\ \A w \in Workers : pc[w] = "write" => slot[w] >= 0

LEMMA DetectType == \A c \in Cpus : Detect(c) \in Scalar..Amx
BY DEF Detect, Scalar, Avx2, Avx512, Vnni, Amx

LEMMA LoweredType ==
  ASSUME cpu \in Cpus, forced \in Overrides
  PROVE  Lowered(Detect(cpu)) \in Scalar..Amx
<1> DEFINE d == Detect(cpu)
<1>1. d \in Scalar..Amx
  BY DetectType
<1>2. forced \in -1..Amx
  BY StatsAssumption
<1> HIDE DEF d
<1>3. Lowered(d) \in Scalar..Amx
  BY <1>1, <1>2 DEF Lowered, Scalar, Amx
<1> QED BY <1>3 DEF d

\* What the dump adds up.
LEMMA SummedSteps ==
  ASSUME calls \in [0..(Slots - 1) -> Nat]
  PROVE  /\ Summed \in [0..Slots -> Nat]
         /\ Summed[0] = 0
         /\ \A n \in 1..Slots : Summed[n] = Summed[n - 1] + calls[n - 1]
<1> DEFINE added == [n \in Nat |-> [v \in Nat |-> v + (IF n < Slots THEN calls[n] ELSE 0)]]
           Eq(f) == f = [n \in 0..Slots |-> IF n = 0 THEN 0 ELSE f[n - 1] + calls[n - 1]]
<1>1. Slots \in Nat
  BY StatsAssumption
<1>2. added \in [Nat -> [Nat -> Nat]] /\ \A n, v \in Nat : n < Slots => added[n][v] = v + calls[n]
  BY <1>1
<1> HIDE DEF added
<1>3. PICK f : Iterates(f, Nat, 0, added)
  BY <1>2, RecursionOverNat
<1> DEFINE g == [n \in 0..Slots |-> f[n]]
<1>4. f \in [Nat -> Nat] /\ f[0] = 0 /\ \A n \in Nat : n < Slots => f[n + 1] = f[n] + calls[n]
  BY <1>2, <1>3 DEF Iterates
<1>5. \A n \in 1..Slots : n - 1 \in Nat /\ n - 1 < Slots /\ (n - 1) + 1 = n /\ n \in Nat
  BY <1>1
<1>6. \A n \in 1..Slots : f[n] = f[n - 1] + calls[n - 1]
  BY <1>4, <1>5
<1>7. \A n \in 0..Slots : g[n] = IF n = 0 THEN 0 ELSE g[n - 1] + calls[n - 1]
  <2> SUFFICES ASSUME NEW n \in 0..Slots
               PROVE  g[n] = IF n = 0 THEN 0 ELSE g[n - 1] + calls[n - 1]
    OBVIOUS
  <2>1. CASE n = 0
    BY <2>1, <1>4
  <2>2. CASE n # 0
    <3>1. n \in 1..Slots /\ n - 1 \in 0..Slots
      BY <2>2, <1>1
    <3> QED BY <3>1, <2>2, <1>6
  <2> QED BY <2>1, <2>2
<1>8. Eq(g)
  BY <1>7
<1> HIDE DEF g
<1>9. Summed = CHOOSE h : Eq(h)
  BY DEF Summed
<1>10. Eq(Summed)
  BY <1>8, <1>9
<1>11. \A n \in 0..Slots : Summed[n] = IF n = 0 THEN 0 ELSE Summed[n - 1] + calls[n - 1]
  BY <1>10
<1> DEFINE Typed == {n \in 0..Slots : Summed[n] \in Nat}
<1>12. \A n \in 0..Slots : n \in Typed
  <2>1. 0 \in Typed
    BY <1>11, <1>1
  <2>2. \A n \in 0..(Slots - 1) : n \in Typed => n + 1 \in Typed
    BY <1>11, <1>1
  <2> HIDE DEF Typed
  <2> QED BY <2>1, <2>2, <1>1, IntervalInduction
<1>13. \A n \in 0..Slots : Summed[n] \in Nat
  BY <1>12
<1>14. Summed \in [0..Slots -> Nat]
  BY <1>10, <1>13
<1>15. Summed[0] = 0
  BY <1>11, <1>1
<1>16. \A n \in 1..Slots : Summed[n] = Summed[n - 1] + calls[n - 1]
  BY <1>11, <1>1
<1> QED BY <1>14, <1>15, <1>16

LEMMA StatsTypeInit == StatsInit => StatsTypeOK
BY StatsAssumption DEF StatsInit, StatsTypeOK, Places, Amx

LEMMA StatsTypeStep == StatsTypeOK /\ [StatsNext]_statsVars => StatsTypeOK'
<1> SUFFICES ASSUME StatsTypeOK, [StatsNext]_statsVars PROVE StatsTypeOK'
  OBVIOUS
<1> USE DEF StatsTypeOK, Places
<1>1. Slots \in Nat \ {0} /\ Runs \in Nat
  BY StatsAssumption
<1>2. ASSUME NEW w \in Workers, AskIsa(w) PROVE StatsTypeOK'
  BY <1>1, <1>2, ZenonT(40) DEF AskIsa, Goto
<1>3. ASSUME NEW w \in Workers, DetectIsa(w) PROVE StatsTypeOK'
  <2>1. Lowered(Detect(cpu)) \in -1..Amx
    BY LoweredType DEF Scalar, Amx
  <2> QED BY <1>3, <2>1 DEF DetectIsa, Goto
<1>4. ASSUME NEW w \in Workers, EndKernel(w) PROVE StatsTypeOK'
  <2>1. left[w] - 1 \in 0..Runs
    BY <1>1, <1>4 DEF EndKernel
  <2>2. left' \in [Workers -> 0..Runs] /\ \A v \in Workers : v # w => left'[v] = left[v]
    BY <1>4, <2>1 DEF EndKernel
  <2>3. pc' \in [Workers -> Places] /\ \A v \in Workers : v # w => pc'[v] = pc[v]
    BY <1>4 DEF EndKernel, Goto
  <2>4. pc'[w] = "idle" \/ (pc'[w] = "claim" /\ statsOn)
    BY <1>4 DEF EndKernel, Goto
  <2> QED BY <1>4, <2>2, <2>3, <2>4 DEF EndKernel
<1>5. ASSUME NEW w \in Workers, ClaimSlot(w) PROVE StatsTypeOK'
  <2>1. next' \in Nat /\ slot' \in [Workers -> -1..(Slots - 1)] /\ slot'[w] \in 0..(Slots - 1)
    <3>1. next % Slots \in 0..(Slots - 1)
      BY <1>1, Remainder
    <3> QED BY <1>1, <1>5, <3>1 DEF ClaimSlot, FetchSlot
  <2>2. calls[slot'[w]] \in Nat
    BY <2>1
  <2>3. read' \in [Workers -> Nat]
    BY <1>5, <2>2 DEF ClaimSlot
  <2>4. pc' = [pc EXCEPT ![w] = "write"] /\ pc[w] = "claim"
    BY <1>5 DEF ClaimSlot, Goto
  <2>5. \A v \in Workers : slot[v] >= 0 => slot'[v] >= 0
    BY <1>1, <1>5, <2>1 DEF ClaimSlot, FetchSlot
  <2>6. UNCHANGED <<cpu, forced, statsOn, cached, answer, calls, left, dumped>>
    BY <1>5 DEF ClaimSlot
  <2>7. pc' \in [Workers -> Places]
    BY <2>4
  <2>8. \A v \in Workers : pc'[v] = pc[v] \/ (v = w /\ pc'[v] = "write")
    BY <2>4
  <2>9. \A v \in Workers : pc'[v] \in {"detect", "kernel"} => left'[v] > 0
    BY <2>6, <2>8
  <2>10. \A v \in Workers : pc'[v] \in {"claim", "write"} => statsOn'
    BY <2>4, <2>6, <2>8
  <2>11. \A v \in Workers : pc'[v] = "write" => slot'[v] >= 0
    BY <2>1, <2>5, <2>8
  <2> QED BY <2>1, <2>3, <2>6, <2>7, <2>9, <2>10, <2>11
<1>6. ASSUME NEW w \in Workers, WriteSlot(w) PROVE StatsTypeOK'
  <2>1. read[w] + 1 \in Nat
    OBVIOUS
  <2>2. calls' \in [0..(Slots - 1) -> Nat]
    BY <1>6, <2>1 DEF WriteSlot
  <2>3. pc' \in [Workers -> Places] /\ \A v \in Workers : pc'[v] = pc[v] \/ pc'[v] = "idle"
    BY <1>6 DEF WriteSlot, Goto
  <2> QED BY <1>6, <2>2, <2>3 DEF WriteSlot
<1>7. ASSUME Dump PROVE StatsTypeOK'
  <2>1. Summed[Slots] \in Int
    BY <1>1, SummedSteps
  <2> QED BY <1>7, <2>1 DEF Dump
<1>8. ASSUME UNCHANGED statsVars PROVE StatsTypeOK'
  BY <1>8 DEF statsVars
<1> QED BY <1>2, <1>3, <1>4, <1>5, <1>6, <1>7, <1>8 DEF StatsNext

(***************************************************************************)
(* The level.                                                              *)
(***************************************************************************)
OneLevel ==
  /\ cached \in {-1, Lowered(Detect(cpu))}
  /\ \A w \in Workers : answer[w] \in {-1, Lowered(Detect(cpu))}

LEMMA LevelStep == StatsTypeOK /\ OneLevel /\ [StatsNext]_statsVars => OneLevel'
<1> SUFFICES ASSUME StatsTypeOK, OneLevel, [StatsNext]_statsVars PROVE OneLevel'
  OBVIOUS
<1> DEFINE level == Lowered(Detect(cpu))
<1>1. cpu' = cpu /\ forced' = forced
  BY DEF StatsNext, AskIsa, DetectIsa, EndKernel, ClaimSlot, WriteSlot, Dump, statsVars
<1>2. level' = level
  BY <1>1 DEF Lowered
<1>3. CASE \E w \in Workers : AskIsa(w)
  BY <1>2, <1>3 DEF OneLevel, AskIsa, StatsTypeOK
<1>4. CASE \E w \in Workers : DetectIsa(w)
  BY <1>2, <1>4 DEF OneLevel, DetectIsa, StatsTypeOK
<1>5. CASE UNCHANGED <<cached, answer>>
  BY <1>2, <1>5 DEF OneLevel
<1>6. UNCHANGED <<cached, answer>> \/ (\E w \in Workers : AskIsa(w)) \/ (\E w \in Workers : DetectIsa(w))
  BY DEF StatsNext, EndKernel, ClaimSlot, WriteSlot, Dump, statsVars
<1> QED BY <1>3, <1>4, <1>5, <1>6

\* What is detected is executed, and so is every level below it.
LEMMA DetectedExecutes ==
  \A c \in Cpus : \A level \in Scalar..Detect(c) : Executes(c, level)
<1> SUFFICES ASSUME NEW c \in Cpus, NEW level \in Scalar..Detect(c) PROVE Executes(c, level)
  OBVIOUS
<1>1. c.leaf \in Nat /\ (c.osxsave => c.leaf >= 7)
  BY StatsAssumption
<1> QED BY <1>1 DEF Executes, Detect, AmxTiles, Scalar, Avx2, Avx512, Vnni, Amx

LEMMA OneLevelRunnable == StatsTypeOK /\ OneLevel => LevelRunnable
<1> SUFFICES ASSUME StatsTypeOK, OneLevel PROVE LevelRunnable
  OBVIOUS
<1> DEFINE d == Detect(cpu)
           level == Lowered(d)
<1>1. d \in Scalar..Amx /\ forced \in -1..Amx
  BY DetectType, StatsAssumption DEF StatsTypeOK
<1>2. level \in Scalar..d /\ (forced >= 0 => level <= forced)
  <2> HIDE DEF d
  <2> QED BY <1>1 DEF Lowered, Scalar, Amx
<1>3. Executes(cpu, level)
  BY <1>2, DetectedExecutes DEF StatsTypeOK
<1>4. \A w \in Workers : answer[w] \in {-1, level}
  BY DEF OneLevel
<1> HIDE DEF level
<1> QED BY <1>2, <1>3, <1>4 DEF LevelRunnable

(***************************************************************************)
(* Whatever the machine, the override and the threads, all are told one    *)
(* level, which the processor and the system support and the override does *)
(* not exceed (vibeasr_isa).                                               *)
(***************************************************************************)
THEOREM EveryLevelRunnable == StatsSpec => []LevelRunnable
<1>1. StatsInit => StatsTypeOK /\ OneLevel
  BY StatsTypeInit DEF StatsInit, OneLevel
<1>2. StatsTypeOK /\ OneLevel /\ [StatsNext]_statsVars => (StatsTypeOK /\ OneLevel)'
  BY StatsTypeStep, LevelStep
<1>3. StatsTypeOK /\ OneLevel => LevelRunnable
  BY OneLevelRunnable
<1> QED BY <1>1, <1>2, <1>3, PTL DEF StatsSpec

(***************************************************************************)
(* The counters.  While there are slots for all threads that count, the    *)
(* slots in use are 0..next - 1, each has one thread, and that thread's    *)
(* counter is the number of its kernels that ended.                        *)
(***************************************************************************)
Counted == {w \in Workers : slot[w] >= 0}
Pending(w) == IF pc[w] \in {"claim", "write"} THEN 1 ELSE 0

SlotsOwned ==
  /\ \A w \in Counted : slot[w] < next
  /\ \A v, w \in Counted : slot[v] = slot[w] => v = w
  /\ \A s \in 0..(next - 1) : \E w \in Counted : slot[w] = s
  /\ \A s \in 0..(Slots - 1) : s >= next => calls[s] = 0

CallsCounted ==
  \A w \in Counted :
    /\ calls[slot[w]] + left[w] + Pending(w) = Runs
    /\ pc[w] = "write" => read[w] = calls[slot[w]]

AllEnded == \A w \in Workers : pc[w] = "idle" /\ left[w] = 0

CountInv ==
  /\ next = Cardinality(Counted) /\ (Counted # {} => statsOn)
  /\ statsOn => \A w \in Workers \ Counted : left[w] + Pending(w) \in {0, Runs}
  /\ next <= Slots => SlotsOwned /\ CallsCounted
  /\ dumped # -1 => AllEnded /\ (next <= Slots => dumped = Runs * next)

LEMMA CountInit == StatsInit => CountInv
<1> SUFFICES ASSUME StatsInit PROVE CountInv
  OBVIOUS
<1>1. Counted = {}
  BY DEF StatsInit, Counted
<1>2. Cardinality(Counted) = 0
  BY <1>1, FS_EmptySet
<1>3. \A w \in Workers : Pending(w) = 0 /\ left[w] \in {0, Runs}
  BY DEF StatsInit, Pending
<1>4. \A w \in Workers : left[w] + Pending(w) \in {0, Runs}
  BY <1>3, StatsAssumption
<1>5. SlotsOwned
  BY <1>1 DEF StatsInit, SlotsOwned
<1>6. CallsCounted
  BY <1>1 DEF CallsCounted
<1> QED BY <1>1, <1>2, <1>4, <1>5, <1>6 DEF StatsInit, CountInv

\* A step that moves no count keeps the invariant.
LEMMA CountKept ==
  ASSUME CountInv, UNCHANGED <<statsOn, next, slot, read, calls, left, dumped>>,
         \A w \in Workers : pc'[w] \in {"claim", "write"} <=> pc[w] \in {"claim", "write"},
         \A w \in Workers : pc'[w] = "write" => pc[w] = "write",
         dumped # -1 => pc' = pc
  PROVE  CountInv'
<1>1. Counted' = Counted /\ Counted \subseteq Workers
  BY DEF Counted
<1>2. \A w \in Workers : Pending(w)' = Pending(w)
  BY DEF Pending
<1>3. SlotsOwned => SlotsOwned'
  BY <1>1 DEF SlotsOwned
<1>4. CallsCounted => CallsCounted'
  BY <1>1, <1>2 DEF CallsCounted
<1>5. dumped # -1 /\ AllEnded => AllEnded'
  BY DEF AllEnded
<1>6. Cardinality(Counted)' = Cardinality(Counted)
  BY <1>1
<1> QED BY <1>1, <1>2, <1>3, <1>4, <1>5, <1>6 DEF CountInv

LEMMA CountEnd ==
  ASSUME StatsTypeOK, CountInv, NEW w \in Workers, EndKernel(w)
  PROVE  CountInv'
<1>1. pc[w] = "kernel" /\ left' = [left EXCEPT ![w] = @ - 1] /\ left[w] > 0
  BY DEF EndKernel, StatsTypeOK
<1>2. pc' = [pc EXCEPT ![w] = IF statsOn THEN "claim" ELSE "idle"]
  BY DEF EndKernel, Goto
<1>3. UNCHANGED <<statsOn, next, slot, read, calls, dumped>>
  BY DEF EndKernel
<1>4. Counted' = Counted /\ Counted \subseteq Workers
  BY <1>3 DEF Counted
<1>5. \A v \in Workers : v # w => Pending(v)' = Pending(v) /\ left'[v] = left[v] /\ pc'[v] = pc[v]
  BY <1>1, <1>2 DEF Pending, StatsTypeOK
<1>6. left'[w] = left[w] - 1 /\ Pending(w) = 0 /\ (statsOn => Pending(w)' = 1) /\ pc'[w] # "write"
  BY <1>1, <1>2 DEF Pending, StatsTypeOK
<1>7. left \in [Workers -> 0..Runs] /\ Runs \in Nat
  BY StatsAssumption DEF StatsTypeOK
<1>8. statsOn => left'[w] + Pending(w)' = left[w] + Pending(w)
  BY <1>6, <1>7
<1>9. dumped = -1
  BY <1>1 DEF CountInv, AllEnded
<1>10. SlotsOwned => SlotsOwned'
  BY <1>3, <1>4 DEF SlotsOwned
<1>11. CallsCounted /\ statsOn => CallsCounted'
  <2> SUFFICES ASSUME CallsCounted, statsOn, NEW v \in Counted
               PROVE  /\ calls'[slot'[v]] + left'[v] + Pending(v)' = Runs
                      /\ pc'[v] = "write" => read'[v] = calls'[slot'[v]]
    BY <1>4 DEF CallsCounted
  <2>1. CASE v = w
    <3>1. calls[slot[w]] + left[w] + Pending(w) = Runs /\ calls[slot[w]] \in Nat
      BY <2>1 DEF CallsCounted, Counted, StatsTypeOK
    <3>2. calls[slot[w]] + left'[w] + Pending(w)' = Runs
      BY <3>1, <1>6, <1>7
    <3> QED BY <3>2, <2>1, <1>3, <1>6
  <2>2. CASE v # w
    BY <2>2, <1>3, <1>4, <1>5 DEF CallsCounted
  <2> QED BY <2>1, <2>2
<1>12. ~statsOn => CallsCounted'
  BY <1>4 DEF CountInv, CallsCounted
<1>13. statsOn => \A v \in Workers \ Counted : left'[v] + Pending(v)' \in {0, Runs}
  BY <1>5, <1>8 DEF CountInv
<1>14. Cardinality(Counted)' = Cardinality(Counted)
  BY <1>4
<1> QED BY <1>3, <1>4, <1>9, <1>10, <1>11, <1>12, <1>13, <1>14 DEF CountInv

LEMMA CountWrite ==
  ASSUME StatsTypeOK, CountInv, NEW w \in Workers, WriteSlot(w)
  PROVE  CountInv'
<1>1. pc[w] = "write" /\ calls' = [calls EXCEPT ![slot[w]] = read[w] + 1] /\ w \in Counted
  BY DEF WriteSlot, StatsTypeOK, Counted
<1>2. pc' = [pc EXCEPT ![w] = "idle"]
  BY DEF WriteSlot, Goto
<1>3. UNCHANGED <<statsOn, next, slot, read, left, dumped>>
  BY DEF WriteSlot
<1>4. Counted' = Counted /\ Counted \subseteq Workers
  BY <1>3 DEF Counted
<1>5. \A v \in Workers : v # w => Pending(v)' = Pending(v) /\ pc'[v] = pc[v]
  BY <1>1, <1>2 DEF Pending, StatsTypeOK
<1>6. Pending(w) = 1 /\ Pending(w)' = 0 /\ pc'[w] # "write"
  BY <1>1, <1>2 DEF Pending, StatsTypeOK
<1>7. /\ left \in [Workers -> 0..Runs] /\ Runs \in Nat /\ slot \in [Workers -> -1..(Slots - 1)]
      /\ calls \in [0..(Slots - 1) -> Nat] /\ Slots \in Nat
  BY StatsAssumption DEF StatsTypeOK
<1>8. dumped = -1
  BY <1>1 DEF CountInv, AllEnded
<1>9. \A v \in Counted : slot[v] \in 0..(Slots - 1)
  BY <1>7 DEF Counted
<1>10. SlotsOwned => SlotsOwned'
  <2> SUFFICES ASSUME SlotsOwned PROVE SlotsOwned'
    OBVIOUS
  <2>1. slot[w] < next
    BY <1>1 DEF SlotsOwned
  <2>2. \A s \in 0..(Slots - 1) : s >= next => calls'[s] = 0
    BY <1>1, <1>7, <1>9, <2>1 DEF SlotsOwned, StatsTypeOK
  <2> QED BY <1>3, <1>4, <2>2 DEF SlotsOwned
<1>11. SlotsOwned /\ CallsCounted => CallsCounted'
  <2> SUFFICES ASSUME SlotsOwned, CallsCounted, NEW v \in Counted
               PROVE  /\ calls'[slot[v]] + left[v] + Pending(v)' = Runs
                      /\ pc'[v] = "write" => read[v] = calls'[slot[v]]
    BY <1>3, <1>4 DEF CallsCounted
  <2>1. CASE v = w
    <3>1. calls[slot[w]] + left[w] + Pending(w) = Runs /\ read[w] = calls[slot[w]]
      BY <1>1 DEF CallsCounted
    <3>2. calls'[slot[w]] = calls[slot[w]] + 1 /\ calls[slot[w]] \in Nat /\ left[w] \in Nat
      BY <3>1, <1>1, <1>7, <1>9
    <3>3. calls'[slot[w]] + left[w] + Pending(w)' = Runs
      BY <3>1, <3>2, <1>6
    <3> QED BY <3>3, <2>1, <1>6
  <2>2. CASE v # w
    <3>1. slot[v] # slot[w]
      BY <2>2, <1>1 DEF SlotsOwned
    <3>2. calls'[slot[v]] = calls[slot[v]]
      BY <3>1, <1>1, <1>7, <1>9
    <3> QED BY <3>2, <2>2, <1>4, <1>5 DEF CallsCounted
  <2> QED BY <2>1, <2>2
<1>12. \A v \in Workers \ Counted : left'[v] + Pending(v)' = left[v] + Pending(v)
  BY <1>1, <1>3, <1>5
<1>13. Cardinality(Counted)' = Cardinality(Counted)
  BY <1>4
<1> QED BY <1>3, <1>4, <1>8, <1>10, <1>11, <1>12, <1>13 DEF CountInv

\* A thread that has a slot keeps it; its counter is read.
LEMMA CountClaimAgain ==
  ASSUME StatsTypeOK, CountInv, NEW w \in Workers, ClaimSlot(w), w \in Counted
  PROVE  CountInv'
<1>2. pc' = [pc EXCEPT ![w] = "write"]
  BY DEF ClaimSlot, Goto
<1>3. slot[w] >= 0 /\ ~(slot[w] < 0)
  BY DEF Counted, StatsTypeOK
<1>4. UNCHANGED <<statsOn, next, slot, calls, left, dumped>>
  BY <1>3 DEF ClaimSlot, FetchSlot
<1>1. pc[w] = "claim" /\ read' = [read EXCEPT ![w] = calls[slot[w]]]
  BY <1>4 DEF ClaimSlot
<1>5. Counted' = Counted /\ Counted \subseteq Workers
  BY <1>4 DEF Counted
<1>6. \A v \in Workers : Pending(v)' = Pending(v)
  BY <1>1, <1>2 DEF Pending, StatsTypeOK
<1>7. \A v \in Workers : v # w => pc'[v] = pc[v] /\ read'[v] = read[v]
  BY <1>1, <1>2 DEF StatsTypeOK
<1>8. read'[w] = calls[slot[w]]
  BY <1>1 DEF StatsTypeOK
<1>9. SlotsOwned => SlotsOwned'
  BY <1>4, <1>5 DEF SlotsOwned
<1>10. CallsCounted => CallsCounted'
  BY <1>4, <1>5, <1>6, <1>7, <1>8 DEF CallsCounted
<1>11. dumped = -1
  BY <1>1 DEF CountInv, AllEnded
<1>12. Cardinality(Counted)' = Cardinality(Counted)
  BY <1>5
<1> QED BY <1>4, <1>5, <1>6, <1>9, <1>10, <1>11, <1>12 DEF CountInv

\* A new thread gets the next slot, which nobody has counted in.
LEMMA CountClaimNew ==
  ASSUME StatsTypeOK, CountInv, NEW w \in Workers, ClaimSlot(w), w \notin Counted
  PROVE  CountInv'
<1>1. /\ left \in [Workers -> 0..Runs] /\ Runs \in Nat /\ slot \in [Workers -> -1..(Slots - 1)]
      /\ calls \in [0..(Slots - 1) -> Nat] /\ Slots \in Nat \ {0} /\ next \in Nat
      /\ pc \in [Workers -> Places] /\ read \in [Workers -> Nat]
  BY StatsAssumption DEF StatsTypeOK
<1>2. slot[w] < 0
  BY <1>1 DEF Counted
<1>3. next' = next + 1 /\ slot' = [slot EXCEPT ![w] = next % Slots]
  BY <1>2 DEF ClaimSlot, FetchSlot
<1>4. pc[w] = "claim" /\ read' = [read EXCEPT ![w] = calls[slot'[w]]]
  BY DEF ClaimSlot
<1>5. pc' = [pc EXCEPT ![w] = "write"]
  BY DEF ClaimSlot, Goto
<1>6. UNCHANGED <<statsOn, calls, left, dumped>>
  BY DEF ClaimSlot
<1>7. next % Slots \in 0..(Slots - 1) /\ (next < Slots => next % Slots = next)
  BY <1>1, Remainder
<1>8. slot'[w] = next % Slots /\ slot'[w] >= 0
  BY <1>1, <1>3, <1>7
<1>9. \A v \in Workers : v # w => slot'[v] = slot[v] /\ read'[v] = read[v] /\ pc'[v] = pc[v]
  BY <1>1, <1>3, <1>4, <1>5
<1>10. Counted' = Counted \cup {w} /\ Counted \subseteq Workers
  BY <1>8, <1>9 DEF Counted
<1>11. IsFiniteSet(Counted)
  BY <1>10, FS_Subset, StatsAssumption
<1>12. Cardinality(Counted') = next'
  BY <1>3, <1>10, <1>11, FS_AddElement DEF CountInv
<1>13. \A v \in Workers : Pending(v)' = Pending(v)
  BY <1>1, <1>4, <1>5 DEF Pending
<1>14. dumped = -1
  BY <1>4 DEF CountInv, AllEnded
<1>15. statsOn
  BY <1>4 DEF StatsTypeOK
<1>16. ASSUME next' <= Slots PROVE SlotsOwned' /\ CallsCounted'
  <2>1. next < Slots /\ next <= Slots /\ slot'[w] = next
    BY <1>16, <1>1, <1>3, <1>7, <1>8
  <2>2. SlotsOwned /\ CallsCounted
    BY <2>1 DEF CountInv
  <2>3. \A v \in Counted : slot'[v] = slot[v] /\ slot[v] < next /\ v # w /\ slot[v] \in 0..(Slots - 1)
    BY <2>2, <1>1, <1>9 DEF SlotsOwned, Counted
  <2>4. \A v \in Counted' : slot'[v] < next'
    BY <2>1, <2>3, <1>1, <1>3, <1>10
  <2>5. \A u, v \in Counted' : slot'[u] = slot'[v] => u = v
    <3> SUFFICES ASSUME NEW u \in Counted', NEW v \in Counted', slot'[u] = slot'[v] PROVE u = v
      OBVIOUS
    <3>1. CASE u \in Counted /\ v \in Counted
      BY <3>1, <2>2, <2>3 DEF SlotsOwned
    <3>2. CASE u = w \/ v = w
      BY <3>2, <2>1, <2>3, <1>1, <1>10
    <3> QED BY <3>1, <3>2, <1>10
  <2>6. \A s \in 0..(next' - 1) : \E v \in Counted' : slot'[v] = s
    <3> SUFFICES ASSUME NEW s \in 0..(next' - 1) PROVE \E v \in Counted' : slot'[v] = s
      OBVIOUS
    <3>1. s = next \/ s \in 0..(next - 1)
      BY <1>1, <1>3
    <3>2. CASE s = next
      BY <3>2, <2>1, <1>10
    <3>3. CASE s \in 0..(next - 1)
      <4>1. PICK v \in Counted : slot[v] = s
        BY <3>3, <2>2 DEF SlotsOwned
      <4> QED BY <4>1, <2>3, <1>10
    <3> QED BY <3>1, <3>2, <3>3
  <2>7. \A s \in 0..(Slots - 1) : s >= next' => calls'[s] = 0
    BY <2>2, <1>1, <1>3, <1>6 DEF SlotsOwned
  <2>8. calls[next] = 0
    BY <2>1, <2>2, <1>1 DEF SlotsOwned
  <2>9. left[w] + Pending(w) = Runs
    <3>1. Pending(w) = 1
      BY <1>4 DEF Pending
    <3>2. left[w] + Pending(w) \in {0, Runs} /\ left[w] \in Nat
      BY <1>1, <1>15 DEF CountInv
    <3> QED BY <3>1, <3>2
  <2>10. \A v \in Counted' : /\ calls'[slot'[v]] + left'[v] + Pending(v)' = Runs
                             /\ pc'[v] = "write" => read'[v] = calls'[slot'[v]]
    <3> SUFFICES ASSUME NEW v \in Counted'
                 PROVE  /\ calls'[slot'[v]] + left'[v] + Pending(v)' = Runs
                        /\ pc'[v] = "write" => read'[v] = calls'[slot'[v]]
      OBVIOUS
    <3>1. CASE v = w
      <4>1. Pending(w)' = Pending(w) /\ Pending(w) \in Nat /\ left[w] \in Nat
        BY <1>1, <1>13 DEF Pending
      <4>2. calls'[slot'[w]] = 0 /\ left'[w] = left[w] /\ read'[w] = 0
        BY <2>1, <2>8, <1>1, <1>4, <1>6
      <4> QED BY <4>1, <4>2, <3>1, <2>9
    <3>2. CASE v \in Counted
      BY <3>2, <2>2, <2>3, <1>6, <1>9, <1>10, <1>13 DEF CallsCounted
    <3> QED BY <3>1, <3>2, <1>10
  <2> QED BY <2>4, <2>5, <2>6, <2>7, <2>10 DEF SlotsOwned, CallsCounted
<1>17. \A v \in Workers \ Counted' : left'[v] + Pending(v)' \in {0, Runs}
  BY <1>6, <1>10, <1>13, <1>15 DEF CountInv
<1> QED BY <1>6, <1>12, <1>14, <1>15, <1>16, <1>17 DEF CountInv

\* When all have ended every slot in use holds Runs, and the dump adds them up.
LEMMA DumpSum ==
  ASSUME StatsTypeOK, CountInv, AllEnded, next <= Slots
  PROVE  Summed[Slots] = Runs * next
<1>1. calls \in [0..(Slots - 1) -> Nat] /\ Slots \in Nat \ {0} /\ next \in Nat /\ Runs \in Nat
  BY StatsAssumption DEF StatsTypeOK
<1>2. SlotsOwned /\ CallsCounted
  BY DEF CountInv
<1>3. \A s \in 0..(next - 1) : calls[s] = Runs
  <2> SUFFICES ASSUME NEW s \in 0..(next - 1) PROVE calls[s] = Runs
    OBVIOUS
  <2>1. PICK w \in Counted : slot[w] = s
    BY <1>2 DEF SlotsOwned
  <2>2. Pending(w) = 0 /\ left[w] = 0
    BY DEF Counted, AllEnded, Pending
  <2>3. calls[s] + left[w] + Pending(w) = Runs /\ calls[s] \in Nat
    BY <2>1, <1>1, <1>2 DEF CallsCounted
  <2> QED BY <2>2, <2>3
<1>4. \A s \in 0..(Slots - 1) : calls[s] = IF s < next THEN Runs ELSE 0
  BY <1>1, <1>2, <1>3 DEF SlotsOwned
<1>5. Summed[0] = 0 /\ \A n \in 1..Slots : Summed[n] = Summed[n - 1] + calls[n - 1]
  BY SummedSteps DEF StatsTypeOK
<1> DEFINE Right == {n \in 0..Slots : Summed[n] = IF n < next THEN Runs * n ELSE Runs * next}
<1>6. 0 \in Right
  BY <1>1, <1>5
<1>7. \A n \in 0..(Slots - 1) : n \in Right => n + 1 \in Right
  <2> SUFFICES ASSUME NEW n \in 0..(Slots - 1), n \in Right PROVE n + 1 \in Right
    OBVIOUS
  <2>1. n + 1 \in 1..Slots /\ (n + 1) - 1 = n /\ n \in Nat
    BY <1>1
  <2>2. Summed[n + 1] = Summed[n] + calls[n]
    BY <2>1, <1>5
  <2>3. Runs * (n + 1) = Runs * n + Runs
    BY <2>1, <1>1
  <2>4. CASE n < next
    <3>1. Summed[n + 1] = Runs * (n + 1)
      BY <2>2, <2>3, <2>4, <1>4
    <3>2. n + 1 < next \/ n + 1 = next
      BY <2>1, <2>4, <1>1
    <3> QED BY <3>1, <3>2, <2>1
  <2>5. CASE ~(n < next)
    <3>1. Runs * next \in Nat /\ ~(n + 1 < next)
      BY <2>1, <2>5, <1>1
    <3> QED BY <3>1, <2>1, <2>2, <2>5, <1>4
  <2> QED BY <2>4, <2>5
<1> HIDE DEF Right
<1>8. Slots \in Right
  <2>1. \A n \in 0..Slots : n \in Right
    BY <1>1, <1>6, <1>7, IntervalInduction
  <2> QED BY <2>1, <1>1
<1>9. Summed[Slots] = IF Slots < next THEN Runs * Slots ELSE Runs * next
  BY <1>8 DEF Right
<1> QED BY <1>1, <1>9

LEMMA CountStep == StatsTypeOK /\ CountInv /\ [StatsNext]_statsVars => CountInv'
<1> SUFFICES ASSUME StatsTypeOK, CountInv, [StatsNext]_statsVars PROVE CountInv'
  OBVIOUS
<1>1. ASSUME NEW w \in Workers, AskIsa(w) PROVE CountInv'
  <2>1. pc[w] = "idle" /\ left[w] > 0 /\ \E p \in {"detect", "kernel"} : pc' = [pc EXCEPT ![w] = p]
    BY <1>1 DEF AskIsa, Goto
  <2>2. UNCHANGED <<statsOn, next, slot, read, calls, left, dumped>>
    BY <1>1 DEF AskIsa
  <2>3. dumped = -1
    BY <2>1, StatsAssumption DEF CountInv, AllEnded, StatsTypeOK
  <2>4. \A v \in Workers : pc'[v] = pc[v] \/ (pc[v] = "idle" /\ pc'[v] \in {"detect", "kernel"})
    BY <2>1 DEF StatsTypeOK
  <2> QED BY <2>2, <2>3, <2>4, CountKept
<1>2. ASSUME NEW w \in Workers, DetectIsa(w) PROVE CountInv'
  <2>1. pc[w] = "detect" /\ pc' = [pc EXCEPT ![w] = "kernel"]
    BY <1>2 DEF DetectIsa, Goto
  <2>2. UNCHANGED <<statsOn, next, slot, read, calls, left, dumped>>
    BY <1>2 DEF DetectIsa
  <2>3. dumped = -1
    BY <2>1 DEF CountInv, AllEnded
  <2>4. \A v \in Workers : pc'[v] = pc[v] \/ (pc[v] = "detect" /\ pc'[v] = "kernel")
    BY <2>1 DEF StatsTypeOK
  <2> QED BY <2>2, <2>3, <2>4, CountKept
<1>3. ASSUME Dump PROVE CountInv'
  <2>1. AllEnded /\ dumped' = Summed[Slots]
    BY <1>3 DEF Dump, AllEnded
  <2>2. UNCHANGED <<statsOn, pc, next, slot, read, calls, left>>
    BY <1>3 DEF Dump
  <2>3. Counted' = Counted /\ SlotsOwned' = SlotsOwned /\ AllEnded'
    BY <2>1, <2>2 DEF Counted, SlotsOwned, AllEnded
  <2>4. \A w \in Workers : Pending(w)' = Pending(w)
    BY <2>2 DEF Pending
  <2>5. CallsCounted => CallsCounted'
    BY <2>2, <2>3, <2>4 DEF CallsCounted, Counted
  <2>6. next <= Slots => dumped' = Runs * next
    BY <2>1, DumpSum
  <2>7. Cardinality(Counted)' = Cardinality(Counted)
    BY <2>3
  <2> QED BY <2>2, <2>3, <2>4, <2>5, <2>6, <2>7 DEF CountInv
<1>4. ASSUME UNCHANGED statsVars PROVE CountInv'
  BY <1>4, CountKept DEF statsVars
<1> QED BY <1>1, <1>2, <1>3, <1>4, CountEnd, CountWrite, CountClaimAgain, CountClaimNew DEF StatsNext

(***************************************************************************)
(* While no more threads than slots counted anything, the dump at exit has *)
(* every call of every thread, although a counter is read and written back *)
(* without a lock while other threads take their slots                     *)
(* (vibeasr_kernel_stats_add).                                             *)
(***************************************************************************)
THEOREM DumpLosesNoCall == StatsSpec => []NoCallLost
<1>1. StatsInit => StatsTypeOK /\ CountInv
  BY StatsTypeInit, CountInit
<1>2. StatsTypeOK /\ CountInv /\ [StatsNext]_statsVars => (StatsTypeOK /\ CountInv)'
  BY StatsTypeStep, CountStep
<1>3. StatsTypeOK /\ CountInv => NoCallLost
  BY DEF CountInv, NoCallLost, Counted
<1> QED BY <1>1, <1>2, <1>3, PTL DEF StatsSpec

(***************************************************************************)
(* Requant: the spans of the threads hold every row.                       *)
(***************************************************************************)
RowsIn(span) == span[1]..(span[2] - 1)

LEMMA SpansCover ==
  ASSUME NEW n \in Nat \ {0}, NEW threads \in Nat \ {0}, NEW r \in 0..(n - 1)
  PROVE  \E span \in Spans(n, threads) : r \in RowsIn(span)
<1> DEFINE chunk == (n + threads - 1) \div threads
           t == r \div chunk
           upto(u) == Min({u * chunk + chunk, n})
<1>1. chunk \in Nat /\ n + threads - 1 < threads * chunk + threads
  BY DivisionBounds
<1> HIDE DEF chunk
<1>2. threads * chunk \in Nat
  BY <1>1
<1>3. n <= threads * chunk /\ chunk # 0
  BY <1>1, <1>2
<1>4. t \in Nat /\ chunk * t <= r /\ r < chunk * t + chunk
  BY <1>1, <1>3, DivisionBounds
<1> HIDE DEF t
<1>5. t < threads
  <2> SUFFICES ASSUME threads <= t PROVE FALSE
    BY <1>4
  <2>1. chunk * threads <= chunk * t
    BY <1>1, <1>4, ProductMonotone
  <2> QED BY <2>1, <1>1, <1>3, <1>4
<1>6. t * chunk = chunk * t /\ t * chunk \in Nat
  BY <1>1, <1>4
<1>7. upto(t) = IF t * chunk + chunk <= n THEN t * chunk + chunk ELSE n
  BY <1>1, <1>6, MinOfTwo
<1>8. r < upto(t) /\ t * chunk <= r /\ upto(t) \in Int
  BY <1>1, <1>4, <1>6, <1>7
<1>9. t \in {u \in 0..(threads - 1) : u * chunk < upto(u)}
  BY <1>4, <1>5, <1>6, <1>8
<1>10. Spans(n, threads) = {<<u * chunk, upto(u)>> : u \in {v \in 0..(threads - 1) : v * chunk < upto(v)}}
  BY DEF Spans, chunk
<1> HIDE DEF upto
<1>11. <<t * chunk, upto(t)>> \in Spans(n, threads)
  BY <1>9, <1>10
<1>12. r \in RowsIn(<<t * chunk, upto(t)>>)
  BY <1>6, <1>8 DEF RowsIn
<1> QED BY <1>11, <1>12

(***************************************************************************)
(* The tensors read so far are copies, in their order; while the threads   *)
(* run, a row is its own or lies in a span still to do.                    *)
(***************************************************************************)
Copied(t) == [name |-> t.name, data |-> RowsOf(t)]
Copies == {Copied(file[i]) : i \in 1..Len(file)}
HasTarget == \E i \in 1..Len(file) : file[i].name = job.target
RowDone(r) == qdata[r] = r \/ (qdata[r] = Unset /\ \E span \in pool : r \in RowsIn(span))
TargetRows == 0..(Target.rows - 1)

BlobsCopied ==
  /\ blobs \in Seq(Copies) /\ Len(blobs) <= Len(file)
  /\ \A i \in 1..Len(blobs) : blobs[i] = Copied(file[i])

AllRead == Len(blobs) = Len(file) /\ HasTarget

ToolInv ==
  /\ file \in Files /\ job \in Jobs /\ BlobsCopied
  /\ stage \in {"read", "prepare", "quantise", "finish", "done"}
  /\ stage \in {"prepare", "quantise", "finish"} => AllRead
  /\ stage \in {"prepare", "quantise"} => ~job.drop
  /\ stage = "quantise" => qdata = [r \in TargetRows |-> qdata[r]] /\ \A r \in TargetRows : RowDone(r)
  /\ stage = "finish" /\ ~job.drop => qdata = [r \in TargetRows |-> r]
  /\ stage # "done" => rc = -1 /\ written = {}
  /\ OnlyTargetChanges

LEMMA TargetFound ==
  ASSUME file \in Files, HasTarget
  PROVE  /\ Position \in 1..Len(file) /\ file[Position].name = job.target
         /\ \A i \in 1..Len(file) : file[i].name = job.target => file[i] = Target
         /\ Target.rows \in Nat \ {0} /\ {Target.fits, Target.known} \subseteq BOOLEAN
<1>1. DOMAIN file = 1..Len(file)
  BY ToolAssumption
<1>2. \E i \in 1..Len(file) : file[i].name = job.target
  BY DEF HasTarget
<1>3. Position \in 1..Len(file) /\ file[Position].name = job.target
  BY <1>1, <1>2 DEF Position
<1>4. \A i, j \in 1..Len(file) : file[i].name = file[j].name => i = j
  BY ToolAssumption
<1>5. \A i \in 1..Len(file) : file[i].name = job.target => file[i] = Target
  BY <1>3, <1>4 DEF Target
<1> QED BY <1>3, <1>5, ToolAssumption DEF Target

LEMMA ToolInit_ToolInv == ToolInit => ToolInv
<1> SUFFICES ASSUME ToolInit PROVE ToolInv
  OBVIOUS
<1>1. Len(file) \in Nat
  BY ToolAssumption DEF ToolInit
<1>2. blobs = <<>> /\ rc = -1 /\ stage = "read"
  BY DEF ToolInit
<1>3. BlobsCopied
  BY <1>1, <1>2 DEF BlobsCopied
<1> QED BY <1>2, <1>3 DEF ToolInit, ToolInv, OnlyTargetChanges

LEMMA StepRead == ASSUME ToolInv, ReadTensor PROVE ToolInv'
<1> DEFINE n == Len(blobs)
           t == file[n + 1]
<1>1. Len(file) \in Nat /\ n \in Nat /\ n + 1 \in 1..Len(file) /\ rc = -1 /\ stage = "read"
  BY ToolAssumption DEF ToolInv, BlobsCopied, ReadTensor
<1>2. UNCHANGED <<file, job, qdata, pool, written>>
  BY DEF ReadTensor
<1>3. Copied(t) \in Copies /\ Copies' = Copies
  BY <1>1, <1>2 DEF Copies
<1>4. CASE t.whole
  <2>1. blobs' = Append(blobs, Copied(t)) /\ UNCHANGED <<stage, rc>>
    BY <1>4 DEF ReadTensor, Copied
  <2>2. blobs' \in Seq(Copies) /\ Len(blobs') = n + 1
    BY <1>3, <2>1 DEF ToolInv, BlobsCopied
  <2>3. \A i \in 1..(n + 1) : blobs'[i] = Copied(file[i])
    <3>1. \A i \in 1..n : blobs'[i] = blobs[i]
      BY <2>1, <1>1 DEF ToolInv, BlobsCopied
    <3>2. blobs'[n + 1] = Copied(t)
      BY <2>1, <1>1 DEF ToolInv, BlobsCopied
    <3>3. \A i \in 1..n : blobs[i] = Copied(file[i])
      BY DEF ToolInv, BlobsCopied
    <3> QED BY <3>1, <3>2, <3>3, <1>1
  <2>4. BlobsCopied'
    BY <2>2, <2>3, <1>1, <1>2, <1>3 DEF BlobsCopied
  <2> QED BY <2>1, <2>4, <1>1, <1>2 DEF ToolInv, OnlyTargetChanges
<1>5. CASE ~t.whole
  <2>1. stage' = "done" /\ rc' = 1 /\ UNCHANGED blobs
    BY <1>5 DEF ReadTensor, Exit
  <2>2. BlobsCopied'
    BY <2>1, <1>2, <1>3 DEF ToolInv, BlobsCopied
  <2>3. written' = {}
    BY <1>1, <1>2 DEF ToolInv
  <2> QED BY <2>1, <2>2, <2>3, <1>2 DEF ToolInv, OnlyTargetChanges
<1> QED BY <1>4, <1>5

\* What depends on nothing else a step may change.
LEMMA BlobsKept ==
  ASSUME UNCHANGED <<file, job, blobs>>
  PROVE  /\ BlobsCopied' = BlobsCopied /\ AllRead' = AllRead
         /\ Target' = Target /\ TargetRows' = TargetRows
<1>1. Copies' = Copies
  BY DEF Copies
<1>2. Target' = Target
  BY DEF Target, Position
<1> QED BY <1>1, <1>2 DEF BlobsCopied, AllRead, HasTarget, TargetRows

LEMMA StepFind == ASSUME ToolInv, FindTarget PROVE ToolInv'
<1>1. UNCHANGED <<file, job, blobs, qdata, pool, written>> /\ stage = "read" /\ Len(blobs) = Len(file)
  BY DEF FindTarget
<1>2. BlobsCopied' /\ AllRead' = AllRead /\ DOMAIN file = 1..Len(file) /\ job.drop \in BOOLEAN
  BY <1>1, BlobsKept, ToolAssumption DEF ToolInv
<1>3. CASE HasTarget
  <2>1. stage' = (IF job.drop THEN "finish" ELSE "prepare") /\ rc' = rc
    BY <1>2, <1>3 DEF FindTarget, HasTarget
  <2>2. AllRead'
    BY <1>1, <1>2, <1>3 DEF AllRead
  <2> QED BY <1>1, <1>2, <2>1, <2>2 DEF ToolInv, OnlyTargetChanges
<1>4. CASE ~HasTarget
  <2>1. stage' = "done" /\ rc' = 1
    BY <1>2, <1>4 DEF FindTarget, HasTarget, Exit
  <2> QED BY <1>1, <1>2, <2>1 DEF ToolInv, OnlyTargetChanges
<1> QED BY <1>3, <1>4

LEMMA StepStart == ASSUME ToolInv, StartThreads PROVE ToolInv'
<1>1. UNCHANGED <<file, job, blobs, written>> /\ stage = "prepare"
  BY DEF StartThreads
<1>2. BlobsCopied' /\ AllRead' /\ TargetRows' = TargetRows
  BY <1>1, BlobsKept DEF ToolInv
<1>3. Target.rows \in Nat \ {0} /\ job.threads \in Int
  BY <1>1, TargetFound, ToolAssumption DEF ToolInv, AllRead
<1>4. CASE Target.fits /\ Target.known
  <2>1. /\ stage' = "quantise" /\ rc' = rc /\ pool' = Spans(Target.rows, Max({job.threads, 1}))
        /\ qdata' = [r \in TargetRows |-> Unset]
    BY <1>4 DEF StartThreads, TargetRows
  <2>2. Max({job.threads, 1}) \in Nat \ {0}
    <3>1. Max({job.threads, 1}) = IF job.threads <= 1 THEN 1 ELSE job.threads
      BY <1>3, MaxOfTwo
    <3> QED BY <3>1, <1>3
  <2>3. \A r \in TargetRows : \E span \in pool' : r \in RowsIn(span)
    BY <2>1, <2>2, <1>3, SpansCover DEF TargetRows
  <2>4. \A r \in TargetRows' : RowDone(r)'
    BY <2>1, <2>3, <1>2 DEF RowDone
  <2>5. qdata' = [r \in TargetRows' |-> qdata'[r]]
    BY <2>1, <1>2
  <2> QED BY <1>1, <1>2, <2>1, <2>4, <2>5 DEF ToolInv, OnlyTargetChanges
<1>5. CASE ~(Target.fits /\ Target.known)
  <2>1. stage' = "done" /\ rc' = 1
    BY <1>5 DEF StartThreads, Exit
  <2> QED BY <1>1, <1>2, <2>1 DEF ToolInv, OnlyTargetChanges
<1> QED BY <1>4, <1>5

LEMMA StepQuantise == ASSUME ToolInv, NEW span \in pool, QuantizeChunk(span) PROVE ToolInv'
<1>1. UNCHANGED <<stage, file, job, blobs, written, rc>> /\ stage = "quantise" /\ pool' = pool \ {span}
  BY DEF QuantizeChunk
<1>2. qdata' = [r \in DOMAIN qdata |-> IF r \in RowsIn(span) THEN r ELSE qdata[r]]
  BY DEF QuantizeChunk, RowsIn
<1>3. BlobsCopied' /\ AllRead' /\ TargetRows' = TargetRows
  BY <1>1, BlobsKept DEF ToolInv
<1>4. qdata = [r \in TargetRows |-> qdata[r]] /\ \A r \in TargetRows : RowDone(r)
  BY <1>1 DEF ToolInv
<1>5. qdata' = [r \in TargetRows' |-> qdata'[r]]
  BY <1>2, <1>3, <1>4
<1>6. \A r \in TargetRows : RowDone(r)'
  <2> SUFFICES ASSUME NEW r \in TargetRows PROVE RowDone(r)'
    OBVIOUS
  <2>1. CASE r \in RowsIn(span)
    BY <2>1, <1>2, <1>4 DEF RowDone
  <2>2. CASE r \notin RowsIn(span)
    <3>1. qdata'[r] = qdata[r]
      BY <2>2, <1>2, <1>4
    <3>2. RowDone(r)
      BY <1>4
    <3>3. \A s \in pool : r \in RowsIn(s) => s \in pool'
      BY <2>2, <1>1
    <3> QED BY <3>1, <3>2, <3>3 DEF RowDone
  <2> QED BY <2>1, <2>2
<1>7. \A r \in TargetRows' : RowDone(r)'
  BY <1>3, <1>6
<1> QED BY <1>1, <1>3, <1>5, <1>7 DEF ToolInv, OnlyTargetChanges

LEMMA StepJoin == ASSUME ToolInv, Join PROVE ToolInv'
<1>1. UNCHANGED <<file, job, blobs, qdata, pool, written, rc>>
  BY DEF Join
<1>2. stage = "quantise" /\ pool = {} /\ stage' = "finish"
  BY DEF Join
<1>3. BlobsCopied' /\ AllRead' /\ TargetRows' = TargetRows
  BY <1>1, <1>2, BlobsKept DEF ToolInv
<1>4. qdata = [r \in TargetRows |-> qdata[r]] /\ \A r \in TargetRows : RowDone(r)
  BY <1>2 DEF ToolInv
<1>5. \A r \in TargetRows : qdata[r] = r
  BY <1>2, <1>4 DEF RowDone
<1>6. qdata = [r \in TargetRows |-> r]
  BY <1>4, <1>5
<1>7. qdata' = [r \in TargetRows' |-> r]
  BY <1>1, <1>3, <1>6
<1> QED BY <1>1, <1>2, <1>3, <1>7 DEF ToolInv, OnlyTargetChanges

LEMMA StepWrite == ASSUME ToolInv, WriteFile PROVE ToolInv'
<1>1. /\ UNCHANGED <<file, job, blobs, qdata, pool>> /\ stage = "finish"
      /\ written' \in {{Outputs}, {}} /\ stage' = "done" /\ rc' = 0
  BY DEF WriteFile, Exit
<1>2. BlobsCopied'
  BY <1>1, BlobsKept DEF ToolInv
<1>3. /\ Len(blobs) = Len(file) /\ HasTarget /\ DOMAIN file = 1..Len(file) /\ file \in Files
      /\ \A i \in 1..Len(file) : blobs[i] = Copied(file[i])
  BY <1>1, ToolAssumption DEF ToolInv, AllRead, BlobsCopied
<1>4. DOMAIN blobs = DOMAIN file
  BY <1>3 DEF ToolInv, BlobsCopied
<1>5. \A i \in DOMAIN file : OutputOf(blobs[i]) = Expected(file[i])
  <2> SUFFICES ASSUME NEW i \in 1..Len(file) PROVE OutputOf(Copied(file[i])) = Expected(file[i])
    BY <1>3
  <2> DEFINE t == file[i]
  <2>1. Copied(t).name = t.name
    BY DEF Copied
  <2>2. CASE t.name # job.target
    BY <2>1, <2>2 DEF OutputOf, Expected, Copied
  <2>3. CASE t.name = job.target /\ job.drop
    BY <2>1, <2>3 DEF OutputOf, Expected
  <2>4. CASE t.name = job.target /\ ~job.drop
    <3>1. t = Target
      BY <2>4, <1>3, TargetFound
    <3>2. qdata = [r \in TargetRows |-> r]
      BY <2>4, <1>1 DEF ToolInv
    <3>3. [r \in DOMAIN qdata |-> <<Requantised, qdata[r]>>] = [r \in TargetRows |-> <<Requantised, r>>]
      BY <3>2
    <3>4. OutputOf(Copied(t)) = <<[name |-> job.target, data |-> [r \in TargetRows |-> <<Requantised, r>>]]>>
      BY <2>1, <2>4, <3>3 DEF OutputOf
    <3>5. Expected(t) = <<[name |-> job.target, data |-> [r \in TargetRows |-> <<Requantised, r>>]]>>
      BY <2>4, <3>1 DEF Expected, TargetRows
    <3> QED BY <3>4, <3>5
  <2> QED BY <2>2, <2>3, <2>4
<1>6. [i \in DOMAIN blobs |-> OutputOf(blobs[i])] = [i \in DOMAIN file |-> Expected(file[i])]
  BY <1>4, <1>5
<1>7. Outputs = FlattenSeq([i \in DOMAIN file |-> Expected(file[i])])
  BY <1>6, Zenon DEF Outputs
<1> DEFINE Wanted == FlattenSeq([i \in DOMAIN file |-> Expected(file[i])])
<1>8. Wanted' = Wanted
  BY <1>1 DEF Expected, RowsOf
<1>9. \A model \in written' : model = Wanted'
  BY <1>1, <1>7, <1>8
<1>10. OnlyTargetChanges'
  BY <1>1, <1>9 DEF OnlyTargetChanges
<1> QED BY <1>1, <1>2, <1>10 DEF ToolInv

(***************************************************************************)
(* However many rows, threads and tensors and in whatever order the        *)
(* threads finish, the tool writes a model in which the target alone is    *)
(* new, each of its rows quantised from its own, or nothing                *)
(* (requant_lm_head main).                                                 *)
(***************************************************************************)
THEOREM ToolChangesOnlyTarget == ToolSpec => []OnlyTargetChanges
<1>1. ToolInv /\ [ToolNext]_toolVars => ToolInv'
  <2> SUFFICES ASSUME ToolInv, [ToolNext]_toolVars PROVE ToolInv'
    OBVIOUS
  <2>1. CASE UNCHANGED toolVars
    <3>1. UNCHANGED <<file, job, blobs, qdata, pool, written, rc, stage>>
      BY <2>1 DEF toolVars
    <3>2. BlobsCopied' /\ AllRead' = AllRead /\ TargetRows' = TargetRows
      BY <3>1, BlobsKept DEF ToolInv
    <3>3. \A r : RowDone(r)' = RowDone(r)
      BY <3>1 DEF RowDone
    <3>4. OnlyTargetChanges'
      BY <3>1 DEF ToolInv, OnlyTargetChanges, Expected, RowsOf
    <3> QED BY <3>1, <3>2, <3>3, <3>4 DEF ToolInv
  <2> QED BY <2>1, StepRead, StepFind, StepStart, StepQuantise, StepJoin, StepWrite DEF ToolNext
<1>2. ToolInv => OnlyTargetChanges
  BY DEF ToolInv
<1> QED BY <1>1, <1>2, ToolInit_ToolInv, PTL DEF ToolSpec

(***************************************************************************)
(* Epilogues: rows and columns.                                            *)
(***************************************************************************)
LEMMA RowStart ==
  ASSUME NEW i \in Nat, NEW d \in Nat, NEW c \in Nat \ {0}, d <= i, d % c = 0
  PROVE  (i - d) % c = i % c
<1>1. i = (i \div c) * c + (i % c) /\ i \div c \in Nat /\ i % c \in 0..(c - 1)
  BY DivisionOf
<1>2. d = (d \div c) * c /\ d \div c \in Nat
  BY DivisionOf
<1> DEFINE p == i \div c
           q == d \div c
           k == i % c
<1> HIDE DEF p, q, k
<1>3. i = p * c + k /\ p \in Nat /\ k \in 0..(c - 1)
  BY <1>1 DEF p, k
<1>4. d = q * c /\ q \in Nat
  BY <1>2 DEF q
<1>5. q <= p
  <2> SUFFICES ASSUME p < q PROVE FALSE
    BY <1>3, <1>4
  <2>1. c * (p + 1) <= c * q
    BY <1>3, <1>4, ProductMonotone
  <2> QED BY <2>1, <1>3, <1>4
<1>6. i - d = (p - q) * c + k /\ p - q \in Nat
  BY <1>3, <1>4, <1>5
<1>7. (i - d) % c = k
  BY <1>3, <1>6, DivisionUnique
<1> QED BY <1>7 DEF k

TensorShapes == [op : {"dequant", "quant", "add_scaled", "resid", "dwconv"}, channels : Nat \ {0},
           frames : Nat \ {0}, taps : Nat \ {0}, wide : BOOLEAN]

\* The registers of gamma hold the columns of the elements they meet.
LEMMA GammaIsColumn ==
  ASSUME NEW t \in TensorShapes, NEW first \in Nat, NEW i \in Nat, first <= i
  PROVE  GammaOf(t, first, i) = ColumnOf(t, i)
<1> DEFINE c == t.channels
           col == i % c
           q == i \div c
           place == Max({first, i - col})
           steps == (i - place) \div Lanes
           seg == place + steps * Lanes
<1>1. c \in Nat \ {0} /\ t.wide \in BOOLEAN /\ Lanes \in Nat \ {0}
  BY EpilogueAssumption DEF TensorShapes
<1>2. q \in Nat /\ col \in 0..(c - 1) /\ i = q * c + col
  BY <1>1, DivisionOf
<1> HIDE DEF c, col, q
<1>3. q * c \in Nat /\ i - col = q * c
  BY <1>1, <1>2
<1>4. place = IF first <= i - col THEN i - col ELSE first
  BY <1>3, MaxOfTwo
<1>5. place \in Nat /\ q * c <= place /\ place <= i
  BY <1>2, <1>3, <1>4
<1> HIDE DEF place
<1>6. steps \in Nat /\ Lanes * steps <= i - place
  BY <1>1, <1>5, DivisionBounds
<1> HIDE DEF steps
<1>7. steps * Lanes \in Nat /\ steps * Lanes <= i - place
  BY <1>1, <1>6
<1>8. seg \in Nat /\ q * c <= seg /\ seg <= i
  BY <1>3, <1>5, <1>7
<1> HIDE DEF seg
<1>9. seg - q * c \in 0..(c - 1) /\ seg = q * c + (seg - q * c)
  BY <1>1, <1>2, <1>3, <1>8
<1>10. seg % c = seg - q * c
  <2> DEFINE k == seg - q * c
  <2> HIDE DEF k
  <2>1. k \in 0..(c - 1) /\ seg = q * c + k
    BY <1>9 DEF k
  <2>2. (q * c + k) % c = k
    BY <2>1, <1>1, <1>2, DivisionUnique
  <2> QED BY <2>1, <2>2 DEF k
<1>11. (seg % c) + (i - seg) = col
  BY <1>2, <1>3, <1>8, <1>10
<1>12. GammaOf(t, first, i) = IF t.wide THEN (seg % c) + (i - seg) ELSE col
  BY DEF GammaOf, ColumnOf, seg, place, steps, col, c
<1> QED BY <1>11, <1>12 DEF ColumnOf, col, c

\* Every channel lies in the low or in the high half of its block.
LEMMA BlocksWhole ==
  ASSUME NEW t \in TensorShapes, NEW i \in Nat
  PROVE  ColumnOf(t, i) \in Blocks(t)
<1> DEFINE c == t.channels
           col == i % c
           two == 2 * Lanes
           b == col \div two
           c0 == b * two
           cw == Min({two, c - c0})
           low == Min({cw, Lanes})
<1>1. c \in Nat \ {0} /\ Lanes \in Nat \ {0} /\ two \in Nat \ {0} /\ two = 2 * Lanes
  BY EpilogueAssumption DEF TensorShapes
<1>2. col \in 0..(c - 1)
  BY <1>1, DivisionOf
<1>3. Blocks(t) = {k \in 0..(c - 1) :
                    LET k0 == (k \div (2 * Lanes)) * 2 * Lanes
                        kw == Min({2 * Lanes, c - k0})
                    IN  k \in (k0..(k0 + Min({kw, Lanes}) - 1)) \cup ((k0 + Lanes)..(k0 + kw - 1))}
  BY DEF Blocks
<1> HIDE DEF c, col, two
<1>4. b \in Nat /\ two * b <= col /\ col < two * b + two
  <2>1. col \in Nat
    BY <1>1, <1>2
  <2> QED BY <2>1, <1>1, DivisionBounds
<1>5. c0 = two * b /\ c0 \in Nat /\ c0 = b * 2 * Lanes
  BY <1>1, <1>4
<1>6. cw = IF two <= c - c0 THEN two ELSE c - c0
  BY <1>1, <1>5, MinOfTwo
<1>7. (col \div (2 * Lanes)) * 2 * Lanes = c0
  BY <1>1, <1>5
<1> HIDE DEF b
<1>8. cw \in Int
  BY <1>1, <1>5, <1>6
<1> HIDE DEF c0, cw
<1>9. low = IF cw <= Lanes THEN cw ELSE Lanes
  <2>1. cw \in Int /\ Lanes \in Int
    BY <1>1, <1>8
  <2> QED BY <2>1, MinOfTwo
<1> HIDE DEF low
<1>10. col \in (c0..(c0 + low - 1)) \cup ((c0 + Lanes)..(c0 + cw - 1))
  BY <1>1, <1>2, <1>4, <1>5, <1>6, <1>8, <1>9
<1>11. col \in Blocks(t)
  BY <1>2, <1>3, <1>7, <1>10 DEF c0, cw, low, two
<1> QED BY <1>11 DEF ColumnOf, col, c

\* The taps of the kernel are the ones of the reference.
LEMMA TapsAreConvolution ==
  ASSUME NEW t \in TensorShapes, NEW i \in 0..(Size(t) - 1)
  PROVE  TapsOf(t, i) = CheckDwconv(t, i)
<1> DEFINE c == t.channels
           k == t.taps
           n == Size(t)
           q == i \div c
           col == i % c
           tap(j) == <<col * k + j, (q + j - (k - 1)) * c + col>>
           ref(j) == <<col * k + j, i + (j - (k - 1)) * c>>
<1>1. c \in Nat \ {0} /\ k \in Nat \ {0} /\ t.frames \in Nat \ {0} /\ n = c * t.frames /\ i \in Nat
  BY DEF TensorShapes, Size
<1>2. q \in Nat /\ col \in 0..(c - 1) /\ i = q * c + col
  BY <1>1, DivisionOf
<1>3. TapsOf(t, i) = {tap(j) : j \in {j \in 0..(k - 1) : q + j - (k - 1) >= 0}}
  BY DEF TapsOf, ColumnOf
<1>4. CheckDwconv(t, i) = {wx \in (0..(c * k - 1)) \X (0..(n - 1)) : \E j \in 0..(k - 1) : wx = ref(j)}
  BY DEF CheckDwconv, ColumnOf
<1> HIDE DEF c, k, n, q, col
<1>5. ASSUME NEW j \in 0..(k - 1)
      PROVE  /\ tap(j) = ref(j) /\ col * k + j \in 0..(c * k - 1)
             /\ q + j - (k - 1) >= 0 <=> i + (j - (k - 1)) * c \in 0..(n - 1)
  <2> DEFINE m == q + j - (k - 1)
  <2>1. m \in Int /\ (j - (k - 1)) \in Int
    BY <1>1, <1>2
  <2>2. m * c = q * c + (j - (k - 1)) * c
    BY <1>1, <1>2, <2>1
  <2>3. m * c + col = i + (j - (k - 1)) * c
    BY <1>1, <1>2, <2>1, <2>2
  <2>4. col * k + j \in 0..(c * k - 1)
    <3>1. k * (col + 1) <= k * c
      BY <1>1, <1>2, ProductMonotone
    <3>2. k * (col + 1) = col * k + k /\ k * c = c * k /\ col * k \in Nat
      BY <1>1, <1>2
    <3> QED BY <3>1, <3>2, <1>1
  <2>5. q < t.frames
    <3> SUFFICES ASSUME t.frames <= q PROVE FALSE
      BY <1>1, <1>2
    <3>1. c * t.frames <= c * q
      BY <1>1, <1>2, ProductMonotone
    <3> QED BY <3>1, <1>1, <1>2 DEF n
  <2>6. m <= q
    BY <1>1, <1>2
  <2> HIDE DEF m
  <2>7. ASSUME m >= 0 PROVE m * c + col \in 0..(n - 1)
    <3>1. m \in Nat /\ m + 1 <= t.frames
      BY <2>1, <2>5, <2>6, <2>7, <1>1, <1>2
    <3>2. c * (m + 1) <= c * t.frames
      BY <3>1, <1>1, ProductMonotone
    <3>3. m * c \in Nat /\ c * (m + 1) = m * c + c
      BY <3>1, <1>1
    <3> QED BY <3>2, <3>3, <1>1, <1>2
  <2>8. ASSUME m < 0 PROVE m * c + col < 0
    <3> DEFINE p == -1 - m
    <3>1. p \in Nat /\ m = -1 - p
      BY <2>1, <2>8
    <3> HIDE DEF p
    <3>2. p * c \in Nat /\ m * c = -c - p * c
      BY <3>1, <1>1
    <3> QED BY <3>2, <1>1, <1>2
  <2>9. m >= 0 <=> m * c + col \in 0..(n - 1)
    BY <2>1, <2>7, <2>8
  <2> QED BY <2>3, <2>4, <2>9 DEF m
<1>6. \A j \in 0..(k - 1) : q + j - (k - 1) >= 0 <=> ref(j) \in (0..(c * k - 1)) \X (0..(n - 1))
  BY <1>5
<1>7. \A j \in 0..(k - 1) : tap(j) = ref(j)
  BY <1>5
<1> HIDE DEF tap, ref
<1> QED BY <1>3, <1>4, <1>6, <1>7

(***************************************************************************)
(* Elements before done are through, on the path of the tensor and with    *)
(* their own operands.                                                     *)
(***************************************************************************)
ThePath == IF tensor.wide /\ (tensor.op = "dwconv" => tensor.taps <= MaxTaps) THEN "wide" ELSE "scalar"
Elements == 0..(Size(tensor) - 1)
ByRows == tensor.op \in {"dwconv", "resid"}

CutInv ==
  /\ tensor \in Tensors /\ cuts \subseteq Elements
  /\ done \in 0..Size(tensor)
  /\ ByRows => /\ \A c \in cuts : ColumnOf(tensor, c) = 0
               /\ done < Size(tensor) => ColumnOf(tensor, done) = 0
  /\ elems = [i \in Elements |-> elems[i]]
  /\ \A i \in Elements : i < done => elems[i] = <<ThePath, Operands(tensor, i)>>
  /\ tensor.op # "quant" => peak = {i \in Elements : i < done}

LEMMA SizePositive == \A t \in Tensors : t \in TensorShapes /\ Size(t) \in Nat \ {0}
<1> SUFFICES ASSUME NEW t \in Tensors PROVE t \in TensorShapes /\ Size(t) \in Nat \ {0}
  OBVIOUS
<1>1. t \in TensorShapes
  BY EpilogueAssumption DEF TensorShapes
<1>2. t.channels \in Nat \ {0} /\ t.frames \in Nat \ {0}
  BY <1>1 DEF TensorShapes
<1> QED BY <1>1, <1>2 DEF Size

LEMMA CutInit == EpilogueInit => CutInv
<1> SUFFICES ASSUME EpilogueInit PROVE CutInv
  OBVIOUS
<1>1. tensor \in TensorShapes /\ Size(tensor) \in Nat \ {0} /\ tensor \in Tensors
  BY SizePositive DEF EpilogueInit
<1>2. tensor.channels \in Nat \ {0}
  BY <1>1 DEF TensorShapes
<1>3. ColumnOf(tensor, 0) = 0
  BY <1>2, Remainder DEF ColumnOf
<1>4. cuts \subseteq Elements /\ (ByRows => \A c \in cuts : ColumnOf(tensor, c) = 0)
  BY DEF EpilogueInit, Elements, ByRows
<1>5. elems = [i \in Elements |-> elems[i]] /\ done = 0 /\ peak = {}
  BY DEF EpilogueInit, Elements
<1>6. \A i \in Elements : ~(i < 0)
  BY <1>1 DEF Elements
<1> QED BY <1>1, <1>3, <1>4, <1>5, <1>6 DEF CutInv

\* A nonempty set of numbers has a smallest one.
LEMMA SpanEnds ==
  ASSUME CutInv, done < Size(tensor)
  PROVE  /\ SpanLength \in Nat \ {0} /\ done + SpanLength <= Size(tensor)
         /\ done + SpanLength \in cuts \cup {Size(tensor)}
<1> DEFINE S == {c \in cuts : c > done} \cup {Size(tensor)}
           e == Min(S)
<1>1. Size(tensor) \in Nat \ {0} /\ done \in Nat
  BY SizePositive DEF CutInv
<1>2. S \in SUBSET Nat /\ Size(tensor) \in S
  BY <1>1 DEF CutInv, Elements
<1> HIDE DEF S
<1>3. e \in S /\ e <= Size(tensor)
  BY <1>2, LeastOf
<1>4. e \in cuts \cup {Size(tensor)} /\ e > done /\ e \in Nat
  BY <1>1, <1>2, <1>3 DEF S
<1>5. SpanLength = e - done
  BY DEF SpanLength, S
<1> HIDE DEF e
<1> QED BY <1>1, <1>3, <1>4, <1>5

\* The elements up to the next end get the tensor's path and their own operands.
Advances(e) ==
  /\ e \in cuts \cup {Size(tensor)} /\ done < e /\ e <= Size(tensor)
  /\ tensor' = tensor /\ cuts' = cuts /\ done' = e
  /\ elems' = [i \in Elements |-> IF done <= i /\ i < e THEN <<ThePath, Operands(tensor, i)>> ELSE elems[i]]
  /\ tensor.op # "quant" => peak' = peak \cup {i \in Elements : done <= i /\ i < e}

LEMMA CutAdvance == ASSUME CutInv, NEW e, Advances(e) PROVE CutInv'
<1>1. Size(tensor) \in Nat \ {0} /\ done \in Nat /\ e \in Nat
  BY SizePositive DEF CutInv, Advances, Elements
<1>2. /\ tensor' = tensor /\ cuts' = cuts /\ done' = e /\ ThePath' = ThePath
      /\ Elements' = Elements /\ ByRows' = ByRows
  BY DEF Advances, ThePath, Elements, ByRows
<1>3. e \in 0..Size(tensor) /\ (e < Size(tensor) => e \in cuts)
  BY <1>1 DEF Advances
<1>4. elems' = [i \in Elements |-> elems'[i]]
  BY DEF Advances
<1>5. \A i \in Elements : i < e => elems'[i] = <<ThePath, Operands(tensor, i)>>
  <2> SUFFICES ASSUME NEW i \in Elements, i < e PROVE elems'[i] = <<ThePath, Operands(tensor, i)>>
    OBVIOUS
  <2>1. i \in Nat
    BY <1>1 DEF Elements
  <2>2. CASE done <= i
    BY <2>2 DEF Advances
  <2>3. CASE i < done
    BY <2>1, <2>3, <1>1 DEF Advances, CutInv
  <2> QED BY <2>1, <2>2, <2>3, <1>1
<1>6. tensor.op # "quant" => peak' = {i \in Elements : i < e}
  BY <1>1 DEF Advances, CutInv, Elements
<1>7. \A i : Operands(tensor, i)' = Operands(tensor, i)
  BY <1>2 DEF Operands, CheckDwconv, ColumnOf, Size
<1>8. \A i \in Elements' : i < done' => elems'[i] = <<ThePath, Operands(tensor, i)>>'
  BY <1>2, <1>5, <1>7
<1> QED BY <1>2, <1>3, <1>4, <1>6, <1>8 DEF CutInv

LEMMA ApplyAdvances ==
  ASSUME CutInv, NEW op, NEW STATE how, NEW STATE through, Apply(op, how, through), Elements \subseteq through,
         \A i \in Elements : done <= i => how[i] = <<ThePath, Operands(tensor, i)>>
  PROVE  \E e : Advances(e)
<1> DEFINE n == SpanLength
           e == done + n
           span == {i \in done..(done + n - 1) : i \in through}
<1>1. tensor.op = op /\ done < Size(tensor) /\ UNCHANGED <<tensor, cuts>>
  BY DEF Apply
<1>2. /\ elems' = [i \in DOMAIN elems |-> IF i \in span THEN how[i] ELSE elems[i]]
      /\ peak' = (IF op = "quant" THEN peak ELSE peak \cup span) /\ done' = e
  BY DEF Apply
<1>3. n \in Nat \ {0} /\ e <= Size(tensor) /\ e \in cuts \cup {Size(tensor)}
  BY <1>1, SpanEnds
<1>4. Size(tensor) \in Nat \ {0} /\ done \in Nat
  BY SizePositive DEF CutInv
<1> HIDE DEF n
<1>5. span = {i \in Elements : done <= i /\ i < e}
  BY <1>3, <1>4 DEF Elements
<1>6. DOMAIN elems = Elements
  BY DEF CutInv
<1> HIDE DEF span
<1>7. elems' = [i \in Elements |-> IF done <= i /\ i < e THEN <<ThePath, Operands(tensor, i)>> ELSE elems[i]]
  BY <1>2, <1>5, <1>6
<1>8. tensor.op # "quant" => peak' = peak \cup {i \in Elements : done <= i /\ i < e}
  BY <1>1, <1>2, <1>5
<1>9. done < e
  BY <1>3, <1>4
<1> HIDE DEF e
<1>10. Advances(e)
  BY <1>1, <1>2, <1>3, <1>7, <1>8, <1>9 DEF Advances
<1> QED BY <1>10

LEMMA DequantAdvances == ASSUME CutInv, DequantAbsmax PROVE \E e : Advances(e)
<1> DEFINE how == [i \in DOMAIN elems |-> <<Way(i), ColumnOf(tensor, i)>>]
<1>1. tensor.op = "dequant" /\ DOMAIN elems = Elements
  BY DEF DequantAbsmax, Apply, CutInv
<1>2. \A i \in Elements : how[i] = <<ThePath, Operands(tensor, i)>>
  BY <1>1 DEF Way, Path, ThePath, Operands
<1>3. Apply("dequant", how, DOMAIN elems)
  BY DEF DequantAbsmax
<1> HIDE DEF how
<1> QED BY <1>1, <1>2, <1>3, ApplyAdvances

LEMMA QuantAdvances == ASSUME CutInv, QuantI8 PROVE \E e : Advances(e)
<1> DEFINE how == [i \in DOMAIN elems |-> <<Way(i), i>>]
<1>1. tensor.op = "quant" /\ DOMAIN elems = Elements
  BY DEF QuantI8, Apply, CutInv
<1>2. \A i \in Elements : how[i] = <<ThePath, Operands(tensor, i)>>
  BY <1>1 DEF Way, Path, ThePath, Operands
<1>3. Apply("quant", how, DOMAIN elems)
  BY DEF QuantI8
<1> HIDE DEF how
<1> QED BY <1>1, <1>2, <1>3, ApplyAdvances

LEMMA AddScaledAdvances == ASSUME CutInv, AddScaledAbsmax PROVE \E e : Advances(e)
<1> DEFINE how == [i \in DOMAIN elems |-> <<Way(i), GammaOf(tensor, done, i)>>]
<1>1. tensor.op = "add_scaled" /\ DOMAIN elems = Elements
  BY DEF AddScaledAbsmax, Apply, CutInv
<1>2. tensor \in TensorShapes /\ done \in Nat /\ \A i \in Elements : i \in Nat
  BY SizePositive DEF CutInv, Elements
<1>3. \A i \in Elements : done <= i => GammaOf(tensor, done, i) = ColumnOf(tensor, i)
  BY <1>2, GammaIsColumn
<1>4. \A i \in Elements : done <= i => how[i] = <<ThePath, Operands(tensor, i)>>
  BY <1>1, <1>3 DEF Way, Path, ThePath, Operands
<1>5. Apply("add_scaled", how, DOMAIN elems)
  BY DEF AddScaledAbsmax
<1> HIDE DEF how
<1> QED BY <1>1, <1>4, <1>5, ApplyAdvances

LEMMA ResidAdvances == ASSUME CutInv, ResidApply PROVE \E e : Advances(e)
<1> DEFINE how == [i \in DOMAIN elems |-> <<Way(i), GammaOf(tensor, 0, i - done)>>]
<1>1. tensor.op = "resid" /\ DOMAIN elems = Elements /\ done < Size(tensor)
  BY DEF ResidApply, Apply, CutInv
<1>2. tensor \in TensorShapes /\ done \in Nat /\ \A i \in Elements : i \in Nat
  BY SizePositive DEF CutInv, Elements
<1>3. tensor.channels \in Nat \ {0} /\ done % tensor.channels = 0
  BY <1>1, <1>2 DEF TensorShapes, CutInv, ByRows, ColumnOf
<1>4. ASSUME NEW i \in Elements, done <= i PROVE GammaOf(tensor, 0, i - done) = ColumnOf(tensor, i)
  <2>1. i - done \in Nat /\ 0 <= i - done /\ i \in Nat
    BY <1>2, <1>4
  <2>2. GammaOf(tensor, 0, i - done) = ColumnOf(tensor, i - done)
    BY <1>2, <2>1, GammaIsColumn
  <2>3. (i - done) % tensor.channels = i % tensor.channels
    BY <1>2, <1>3, <1>4, <2>1, RowStart
  <2> QED BY <2>2, <2>3 DEF ColumnOf
<1>5. \A i \in Elements : done <= i => how[i] = <<ThePath, Operands(tensor, i)>>
  BY <1>1, <1>4 DEF Way, Path, ThePath, Operands
<1>6. Apply("resid", how, DOMAIN elems)
  BY DEF ResidApply
<1> HIDE DEF how
<1> QED BY <1>1, <1>5, <1>6, ApplyAdvances

LEMMA DwconvAdvances == ASSUME CutInv, DwconvAbsmax PROVE \E e : Advances(e)
<1> DEFINE wide == tensor.wide /\ tensor.taps <= MaxTaps
           t == [tensor EXCEPT !.wide = wide]
           how == [i \in DOMAIN elems |-> <<Path(t, i, done, SpanLength), TapsOf(t, i)>>]
           through == IF wide THEN {i \in DOMAIN elems : ColumnOf(t, i) \in Blocks(t)} ELSE DOMAIN elems
<1>1. Apply("dwconv", how, through)
  BY DEF DwconvAbsmax
<1>2. tensor.op = "dwconv" /\ DOMAIN elems = Elements
  BY <1>1 DEF Apply, CutInv
<1>3. tensor \in TensorShapes /\ \A i \in Elements : i \in Nat
  BY SizePositive DEF CutInv, Elements
<1>4. tensor.wide \in BOOLEAN /\ wide \in BOOLEAN
  BY <1>3 DEF TensorShapes
<1>5. t \in TensorShapes /\ t.channels = tensor.channels /\ t.frames = tensor.frames /\ t.taps = tensor.taps
  BY <1>3, <1>4 DEF TensorShapes
<1>6. t.wide = wide
  BY <1>3 DEF TensorShapes
<1> HIDE DEF t, wide
<1>7. \A i \in Elements : TapsOf(t, i) = CheckDwconv(tensor, i)
  <2>1. Size(t) = Size(tensor)
    BY <1>5 DEF Size
  <2>2. \A i \in Elements : TapsOf(t, i) = CheckDwconv(t, i)
    BY <1>5, <2>1, TapsAreConvolution DEF Elements
  <2>3. \A i : CheckDwconv(t, i) = CheckDwconv(tensor, i)
    BY <1>5, <2>1 DEF CheckDwconv, ColumnOf
  <2> QED BY <2>2, <2>3
<1>8. \A i : Path(t, i, done, SpanLength) = ThePath
  BY <1>2, <1>6 DEF Path, ThePath, wide
<1>9. \A i \in Elements : how[i] = <<ThePath, Operands(tensor, i)>>
  BY <1>2, <1>7, <1>8 DEF Operands
<1>10. Elements \subseteq through
  BY <1>2, <1>3, <1>5, BlocksWhole
<1> HIDE DEF how, through
<1> QED BY <1>1, <1>9, <1>10, ApplyAdvances

LEMMA CutInvShows == CutInv => CutsDoNotShow
<1> SUFFICES ASSUME CutInv, done = Size(tensor)
             PROVE  /\ \A i, j \in DOMAIN elems : elems[i][1] = elems[j][1]
                    /\ \A i \in DOMAIN elems : elems[i][2] = Operands(tensor, i)
                    /\ tensor.op # "quant" => peak = DOMAIN elems
  BY DEF CutsDoNotShow
<1>1. DOMAIN elems = Elements /\ Size(tensor) \in Nat
  BY SizePositive DEF CutInv
<1>2. \A i \in Elements : i < done
  BY <1>1 DEF Elements
<1>3. \A i \in Elements : elems[i] = <<ThePath, Operands(tensor, i)>>
  BY <1>2 DEF CutInv
<1>4. tensor.op # "quant" => peak = Elements
  BY <1>2 DEF CutInv
<1> QED BY <1>1, <1>3, <1>4

(***************************************************************************)
(* Into whatever spans the callers cut a tensor of whatever shape, every   *)
(* element is computed on the tensor's one path from its own operands, and *)
(* the maxima have seen all (the epilogues of ggml-vae-i8_s-mad.cpp).      *)
(***************************************************************************)
THEOREM CutsNeverShow == EpilogueSpec => []CutsDoNotShow
<1>1. CutInv /\ [EpilogueNext]_epilogueVars => CutInv'
  <2> SUFFICES ASSUME CutInv, [EpilogueNext]_epilogueVars PROVE CutInv'
    OBVIOUS
  <2>1. CASE EpilogueNext
    <3>1. \E e : Advances(e)
      BY <2>1, DequantAdvances, QuantAdvances, AddScaledAdvances, ResidAdvances, DwconvAdvances
         DEF EpilogueNext
    <3> QED BY <3>1, CutAdvance
  <2>2. CASE UNCHANGED epilogueVars
    <3>1. UNCHANGED <<tensor, cuts, done, elems, peak>>
      BY <2>2 DEF epilogueVars
    <3>2. \A i : Operands(tensor, i)' = Operands(tensor, i)
      BY <3>1 DEF Operands, CheckDwconv, ColumnOf, Size
    <3>3. ThePath' = ThePath /\ Elements' = Elements /\ ByRows' = ByRows
      BY <3>1 DEF ThePath, Elements, ByRows
    <3> QED BY <3>1, <3>2, <3>3 DEF CutInv
  <2> QED BY <2>1, <2>2
<1> QED BY <1>1, CutInit, CutInvShows, PTL DEF EpilogueSpec

(***************************************************************************)
(* Spans of span from 0 on: each number below n lies in one of them.       *)
(***************************************************************************)
Base(x, span) == span * (x \div span)

LEMMA UpDivIs ==
  ASSUME NEW n \in Nat, NEW span \in Nat \ {0}
  PROVE  /\ UpDiv(n, span) \in Nat /\ n <= span * UpDiv(n, span)
         /\ \A i \in Nat : i < UpDiv(n, span) => span * i < n
<1> DEFINE m == n + span - 1
           u == m \div span
<1>1. m \in Nat /\ m = n + span - 1
  OBVIOUS
<1> HIDE DEF m
<1>2. u \in Nat /\ span * u <= m /\ m < span * u + span
  BY <1>1, DivisionBounds
<1> HIDE DEF u
<1>3. ASSUME NEW i \in Nat, i < u PROVE span * i < n
  <2>1. i + 1 <= u /\ i + 1 \in Nat
    BY <1>2, <1>3
  <2>2. span * (i + 1) <= span * u
    BY <1>2, <2>1, ProductMonotone
  <2>3. span * (i + 1) = span * i + span /\ span * i \in Nat /\ span * u \in Nat
    BY <1>2
  <2> QED BY <1>1, <1>2, <2>2, <2>3
<1>4. n <= span * u
  <2>1. span * u \in Nat
    BY <1>2
  <2> QED BY <1>1, <1>2, <2>1
<1> QED BY <1>2, <1>3, <1>4 DEF UpDiv, u, m

LEMMA StartsIs ==
  ASSUME NEW n \in Nat, NEW span \in Nat \ {0}
  PROVE  /\ \A s \in Starts(n, span) : s \in Nat /\ s < n /\ s = Base(s, span)
         /\ \A x \in 0..(n - 1) : Base(x, span) \in Starts(n, span)
<1> DEFINE u == UpDiv(n, span)
<1>1. u \in Nat /\ n <= span * u /\ \A i \in Nat : i < u => span * i < n
  BY UpDivIs
<1> HIDE DEF u
<1>2. Starts(n, span) = {span * i : i \in 0..(u - 1)}
  BY DEF Starts, u
<1>3. ASSUME NEW s \in Starts(n, span) PROVE s \in Nat /\ s < n /\ s = Base(s, span)
  <2>1. PICK i \in 0..(u - 1) : s = span * i
    BY <1>2
  <2>2. i \in Nat /\ i < u
    BY <1>1
  <2>3. s \in Nat /\ s < n
    BY <1>1, <2>1, <2>2
  <2>4. (i * span + 0) \div span = i
    <3>1. 0 \in 0..(span - 1)
      OBVIOUS
    <3> QED BY <2>2, <3>1, DivisionUnique
  <2>5. i * span + 0 = s
    BY <2>1, <2>2
  <2> QED BY <2>1, <2>3, <2>4, <2>5 DEF Base
<1>4. ASSUME NEW x \in 0..(n - 1) PROVE Base(x, span) \in Starts(n, span)
  <2> DEFINE i == x \div span
  <2>1. i \in Nat /\ span * i <= x
    BY DivisionBounds
  <2> HIDE DEF i
  <2>2. i < u
    <3> SUFFICES ASSUME u <= i PROVE FALSE
      BY <1>1, <2>1
    <3>1. span * u <= span * i /\ span * u \in Nat /\ span * i \in Nat
      BY <1>1, <2>1, ProductMonotone
    <3> QED BY <1>1, <2>1, <3>1
  <2>3. i \in 0..(u - 1)
    BY <1>1, <2>1, <2>2
  <2>4. span * i \in Starts(n, span)
    BY <1>2, <2>3
  <2> QED BY <2>4 DEF Base, i
<1> QED BY <1>3, <1>4

LEMMA BaseIs ==
  ASSUME NEW x \in Nat, NEW span \in Nat \ {0}
  PROVE  /\ Base(x, span) \in Nat /\ Base(x, span) <= x /\ x < Base(x, span) + span
         /\ \A s \in Nat : s = Base(s, span) /\ s <= x /\ x < s + span => s = Base(x, span)
<1>1. x \div span \in Nat /\ Base(x, span) \in Nat /\ Base(x, span) <= x /\ x < Base(x, span) + span
  BY DivisionBounds DEF Base
<1>2. ASSUME NEW s \in Nat, s = Base(s, span), s <= x, x < s + span PROVE s = Base(x, span)
  <2> DEFINE q == s \div span
  <2>1. q \in Nat
    BY DivisionBounds
  <2>2. s = span * q
    BY <1>2 DEF Base
  <2> HIDE DEF q
  <2>3. x - s \in 0..(span - 1) /\ q * span + (x - s) = x
    BY <1>2, <2>1, <2>2
  <2>4. (q * span + (x - s)) \div span = q
    BY <2>1, <2>3, DivisionUnique
  <2>5. x \div span = q
    BY <2>3, <2>4
  <2> QED BY <2>2, <2>5 DEF Base
<1> QED BY <1>1, <1>2

\* Spans that divide n end within it.
LEMMA WholeSpans ==
  ASSUME NEW n \in Nat, NEW span \in Nat \ {0}, n % span = 0, NEW s \in Nat, s = Base(s, span), s < n
  PROVE  s + span <= n
<1> DEFINE q == n \div span
           p == s \div span
<1>1. q \in Nat /\ n = q * span /\ p \in Nat /\ s = span * p
  <2>1. n = (n \div span) * span + (n % span) /\ n \div span \in Nat
    BY DivisionOf
  <2>2. p \in Nat
    BY DivisionBounds
  <2> QED BY <2>1, <2>2 DEF Base
<1> HIDE DEF q, p
<1>2. p < q
  <2> SUFFICES ASSUME q <= p PROVE FALSE
    BY <1>1
  <2>1. span * q <= span * p
    BY <1>1, ProductMonotone
  <2> QED BY <1>1, <2>1
<1>3. span * (p + 1) <= span * q /\ span * (p + 1) = span * p + span
  <2>1. p + 1 <= q /\ p + 1 \in Nat
    BY <1>1, <1>2
  <2>2. span * (p + 1) <= span * q
    BY <1>1, <2>1, ProductMonotone
  <2> QED BY <1>1, <2>2
<1> QED BY <1>1, <1>3

LEMMA RoundedDown ==
  ASSUME NEW n \in Nat, NEW span \in Nat \ {0}
  PROVE  n - (n % span) \in 0..n /\ (n - (n % span)) % span = 0
<1>1. n \div span \in Nat /\ n % span \in 0..(span - 1) /\ n = (n \div span) * span + (n % span)
  BY DivisionOf
<1> DEFINE q == n \div span
           k == n % span
<1> HIDE DEF q, k
<1>2. q \in Nat /\ k \in 0..(span - 1) /\ n = q * span + k /\ q * span \in Nat
  BY <1>1 DEF q, k
<1>3. (q * span + 0) % span = 0
  <2>1. 0 \in 0..(span - 1)
    OBVIOUS
  <2> QED BY <1>2, <2>1, DivisionUnique
<1>4. n - k = q * span + 0 /\ n - k \in 0..n
  BY <1>2
<1>5. n - k \in 0..n /\ (n - k) % span = 0
  BY <1>3, <1>4
<1> QED BY <1>5 DEF k

(***************************************************************************)
(* The rectangles of a kernel tile the result: every cell lies in exactly  *)
(* one.                                                                    *)
(***************************************************************************)
Holds(R, r, c) == <<r, c>> \in R
OwnRect(rects, r, c, R) == R \in rects /\ Holds(R, r, c) /\ \A Q \in rects : Holds(Q, r, c) => Q = R
Inside(R, nr, nc) == R \subseteq (0..(nr - 1)) \X (0..(nc - 1))

Tiles(rects, nr, nc) ==
  /\ \A R \in rects : Inside(R, nr, nc)
  /\ \A r \in 0..(nr - 1), c \in 0..(nc - 1) : \E R : OwnRect(rects, r, c, R)

LEMMA RectIs ==
  ASSUME NEW r0 \in Int, NEW rn \in Int, NEW c0 \in Int, NEW cn \in Int, NEW r \in Int, NEW c \in Int
  PROVE  Holds(Rect(r0, rn, c0, cn), r, c) <=> r0 <= r /\ r < r0 + rn /\ c0 <= c /\ c < c0 + cn
BY DEF Holds, Rect

LEMMA RectInside ==
  ASSUME NEW r0 \in Nat, NEW rn \in Nat, NEW c0 \in Nat, NEW cn \in Nat, NEW nr \in Nat, NEW nc \in Nat,
         r0 + rn <= nr, c0 + cn <= nc
  PROVE  Inside(Rect(r0, rn, c0, cn), nr, nc)
BY DEF Inside, Rect

LEMMA SmallerIs ==
  ASSUME NEW a \in Int, NEW b \in Int
  PROVE  Smaller(a, b) \in {a, b} /\ Smaller(a, b) <= a /\ Smaller(a, b) <= b
BY DEF Smaller

LEMMA PackedTiles ==
  ASSUME NEW nr \in Nat, NEW nc \in Nat
  PROVE  Tiles(PackedRects(nr, nc), nr, nc)
<1>0. RowTile \in Nat \ {0} /\ Panel \in Nat \ {0}
  BY GemmAssumption
<1> DEFINE A == Starts(nr, RowTile)
           B == Starts(nc, Panel)
           H(r0) == Smaller(nr - r0, RowTile)
           wide(c0) == Smaller(nc - c0, Panel)
<1>1. /\ \A s \in A : s \in Nat /\ s < nr /\ s = Base(s, RowTile)
      /\ \A x \in 0..(nr - 1) : Base(x, RowTile) \in A
  BY <1>0, StartsIs
<1>2. /\ \A s \in B : s \in Nat /\ s < nc /\ s = Base(s, Panel)
      /\ \A x \in 0..(nc - 1) : Base(x, Panel) \in B
  BY <1>0, StartsIs
<1>3. \A Q : Q \in PackedRects(nr, nc) <=> \E r0 \in A, c0 \in B : Q = Rect(r0, H(r0), c0, wide(c0))
  BY DEF PackedRects
<1> HIDE DEF A, B
<1>4. ASSUME NEW r0 \in A PROVE H(r0) \in Nat \ {0} /\ r0 + H(r0) <= nr /\ \A r \in Int : r < r0 + H(r0) <=> r < nr /\ r < r0 + RowTile
  BY <1>0, <1>1 DEF Smaller
<1>5. ASSUME NEW c0 \in B PROVE wide(c0) \in Nat \ {0} /\ c0 + wide(c0) <= nc /\ \A c \in Int : c < c0 + wide(c0) <=> c < nc /\ c < c0 + Panel
  BY <1>0, <1>2 DEF Smaller
<1> HIDE DEF H, wide
<1>6. \A R \in PackedRects(nr, nc) : Inside(R, nr, nc)
  <2> TAKE R \in PackedRects(nr, nc)
  <2>1. PICK r0 \in A, c0 \in B : R = Rect(r0, H(r0), c0, wide(c0))
    BY <1>3
  <2>2. /\ r0 \in Nat /\ c0 \in Nat /\ H(r0) \in Nat /\ wide(c0) \in Nat
        /\ r0 + H(r0) <= nr /\ c0 + wide(c0) <= nc
    BY <1>1, <1>2, <1>4, <1>5
  <2>3. Inside(Rect(r0, H(r0), c0, wide(c0)), nr, nc)
    BY <2>2, RectInside
  <2> QED BY <2>1, <2>3
<1>7. ASSUME NEW r \in 0..(nr - 1), NEW c \in 0..(nc - 1)
      PROVE  \E R : OwnRect(PackedRects(nr, nc), r, c, R)
  <2> DEFINE r1 == Base(r, RowTile)
             c1 == Base(c, Panel)
             R == Rect(r1, H(r1), c1, wide(c1))
  <2>0. r \in Int /\ c \in Int
    OBVIOUS
  <2>1. /\ r1 \in A /\ r1 \in Nat /\ r1 <= r /\ r < r1 + RowTile
        /\ \A s \in Nat : s = Base(s, RowTile) /\ s <= r /\ r < s + RowTile => s = r1
    BY <1>0, <1>1, BaseIs
  <2>2. /\ c1 \in B /\ c1 \in Nat /\ c1 <= c /\ c < c1 + Panel
        /\ \A s \in Nat : s = Base(s, Panel) /\ s <= c /\ c < s + Panel => s = c1
    BY <1>0, <1>2, BaseIs
  <2> HIDE DEF r1, c1
  <2>3. R \in PackedRects(nr, nc)
    BY <1>3, <2>1, <2>2
  <2>4. Holds(R, r, c)
    <3>1. r < r1 + H(r1) /\ c < c1 + wide(c1)
      BY <1>4, <1>5, <2>0, <2>1, <2>2
    <3>2. r1 \in Int /\ c1 \in Int /\ H(r1) \in Int /\ wide(c1) \in Int
      BY <1>4, <1>5, <2>1, <2>2
    <3>3. r1 <= r /\ c1 <= c
      BY <2>1, <2>2
    <3>4. Holds(Rect(r1, H(r1), c1, wide(c1)), r, c)
      BY <2>0, <3>1, <3>2, <3>3, RectIs, Zenon
    <3> QED BY <3>4
  <2>5. ASSUME NEW Q \in PackedRects(nr, nc), Holds(Q, r, c) PROVE Q = R
    <3>1. PICK r0 \in A, c0 \in B : Q = Rect(r0, H(r0), c0, wide(c0))
      BY <1>3
    <3>2. r0 \in Nat /\ c0 \in Nat /\ r0 \in Int /\ c0 \in Int /\ H(r0) \in Int /\ wide(c0) \in Int
      BY <1>1, <1>2, <1>4, <1>5
    <3>3. Holds(Rect(r0, H(r0), c0, wide(c0)), r, c)
      BY <2>5, <3>1
    <3>4. r0 <= r /\ r < r0 + H(r0) /\ c0 <= c /\ c < c0 + wide(c0)
      BY <2>0, <3>2, <3>3, RectIs, Zenon
    <3>5. r0 = r1
      BY <1>1, <1>4, <2>1, <3>2, <3>4
    <3>6. c0 = c1
      BY <1>2, <1>5, <2>2, <3>2, <3>4
    <3> QED BY <3>1, <3>5, <3>6
  <2> QED BY <2>3, <2>4, <2>5 DEF OwnRect
<1> QED BY <1>6, <1>7 DEF Tiles

\* A rectangle of a single cell.
LEMMA UnitRect ==
  ASSUME NEW r0 \in Int, NEW c0 \in Int, NEW r \in Int, NEW c \in Int
  PROVE  Holds(Rect(r0, 1, c0, 1), r, c) <=> r = r0 /\ c = c0
BY DEF Holds, Rect

LEMMA SingleRow ==
  ASSUME NEW nc \in Nat
  PROVE  Tiles({Rect(0, 1, c, 1) : c \in 0..(nc - 1)}, 1, nc)
<1> DEFINE rects == {Rect(0, 1, c, 1) : c \in 0..(nc - 1)}
<1>1. ASSUME NEW c \in 0..(nc - 1) PROVE Inside(Rect(0, 1, c, 1), 1, nc)
  BY RectInside
<1>2. ASSUME NEW r \in 0..(1 - 1), NEW c \in 0..(nc - 1) PROVE \E R : OwnRect(rects, r, c, R)
  <2>1. r = 0 /\ c \in Int /\ 0 \in Int
    OBVIOUS
  <2>2. Rect(0, 1, c, 1) \in rects
    OBVIOUS
  <2>3. Holds(Rect(0, 1, c, 1), r, c)
    BY <2>1, UnitRect
  <2>4. ASSUME NEW Q \in rects, Holds(Q, r, c) PROVE Q = Rect(0, 1, c, 1)
    <3>1. PICK d \in 0..(nc - 1) : Q = Rect(0, 1, d, 1)
      OBVIOUS
    <3>2. d \in Int
      OBVIOUS
    <3>3. c = d
      BY <2>1, <2>4, <3>1, <3>2, UnitRect
    <3> QED BY <3>1, <3>3
  <2> HIDE DEF rects
  <2> QED BY <2>2, <2>3, <2>4 DEF OwnRect
<1>3. \A R \in rects : Inside(R, 1, nc)
  BY <1>1
<1> HIDE DEF rects
<1>4. Tiles(rects, 1, nc)
  BY <1>2, <1>3 DEF Tiles
<1> QED BY <1>4 DEF rects

LEMMA TileTiles ==
  ASSUME NEW nr \in Nat, NEW nc \in Nat
  PROVE  Tiles(TileRects(nr, nc), nr, nc)
<1>0. RowTile \in Nat \ {0} /\ ColTile \in Nat \ {0}
  BY GemmAssumption
<1> DEFINE tall == nr - (nr % RowTile)
           cols == nc - (nc % ColTile)
           A == Starts(tall, RowTile)
           B == Starts(cols, ColTile)
           Whole(Q) == \E r0 \in A, c0 \in B : Q = Rect(r0, RowTile, c0, ColTile)
           Beside(Q) == \E r0 \in A, k \in 0..(RowTile - 1), c \in cols..(nc - 1) : Q = Rect(r0 + k, 1, c, 1)
           Below(Q) == \E r \in tall..(nr - 1), c \in 0..(nc - 1) : Q = Rect(r, 1, c, 1)
<1>1. tall \in 0..nr /\ tall % RowTile = 0 /\ cols \in 0..nc /\ cols % ColTile = 0
  BY <1>0, RoundedDown
<1>2. \A Q : Q \in TileRects(nr, nc) <=> Whole(Q) \/ Beside(Q) \/ Below(Q)
  BY DEF TileRects
<1> HIDE DEF tall, cols
<1>3. tall \in Nat /\ cols \in Nat /\ tall <= nr /\ cols <= nc
  BY <1>1
<1>4. /\ \A s \in A : s \in Nat /\ s < tall /\ s = Base(s, RowTile) /\ s + RowTile <= tall
      /\ \A x \in 0..(tall - 1) : Base(x, RowTile) \in A
  BY <1>0, <1>1, <1>3, StartsIs, WholeSpans
<1>5. /\ \A s \in B : s \in Nat /\ s < cols /\ s = Base(s, ColTile) /\ s + ColTile <= cols
      /\ \A x \in 0..(cols - 1) : Base(x, ColTile) \in B
  BY <1>0, <1>1, <1>3, StartsIs, WholeSpans
<1> HIDE DEF A, B
<1>6. \A R \in TileRects(nr, nc) : Inside(R, nr, nc)
  <2> TAKE R \in TileRects(nr, nc)
  <2>1. CASE Whole(R)
    <3>1. PICK r0 \in A, c0 \in B : R = Rect(r0, RowTile, c0, ColTile)
      BY <2>1
    <3>2. r0 \in Nat /\ c0 \in Nat /\ RowTile \in Nat /\ ColTile \in Nat /\ r0 + RowTile <= nr /\ c0 + ColTile <= nc
      BY <1>0, <1>3, <1>4, <1>5
    <3>3. Inside(Rect(r0, RowTile, c0, ColTile), nr, nc)
      BY <3>2, RectInside
    <3> QED BY <3>1, <3>3
  <2>2. CASE Beside(R)
    <3>1. PICK r0 \in A, k \in 0..(RowTile - 1), c \in cols..(nc - 1) : R = Rect(r0 + k, 1, c, 1)
      BY <2>2
    <3>2. r0 + k \in Nat /\ r0 + k + 1 <= nr /\ c \in Nat /\ c + 1 <= nc
      BY <1>0, <1>3, <1>4
    <3>3. Inside(Rect(r0 + k, 1, c, 1), nr, nc)
      BY <3>2, RectInside
    <3> QED BY <3>1, <3>3
  <2>3. CASE Below(R)
    <3>1. PICK r \in tall..(nr - 1), c \in 0..(nc - 1) : R = Rect(r, 1, c, 1)
      BY <2>3
    <3>2. r \in Nat /\ r + 1 <= nr /\ c \in Nat /\ c + 1 <= nc
      BY <1>3
    <3>3. Inside(Rect(r, 1, c, 1), nr, nc)
      BY <3>2, RectInside
    <3> QED BY <3>1, <3>3
  <2> HIDE DEF Whole, Beside, Below
  <2> QED BY <1>2, <2>1, <2>2, <2>3
<1>7. ASSUME NEW r \in 0..(nr - 1), NEW c \in 0..(nc - 1)
      PROVE  \E R : OwnRect(TileRects(nr, nc), r, c, R)
  <2>0. r \in Int /\ c \in Int /\ r \in Nat /\ c \in Nat
    OBVIOUS
  \* Where the rectangles that hold the cell may come from.
  <2>1. ASSUME NEW Q, Whole(Q), Holds(Q, r, c)
        PROVE  r < tall /\ c < cols /\ Q = Rect(Base(r, RowTile), RowTile, Base(c, ColTile), ColTile)
    <3>1. PICK r0 \in A, c0 \in B : Q = Rect(r0, RowTile, c0, ColTile)
      BY <2>1
    <3>2. /\ r0 \in Int /\ c0 \in Int /\ RowTile \in Int /\ ColTile \in Int /\ r0 \in Nat /\ c0 \in Nat
          /\ r0 + RowTile <= tall /\ c0 + ColTile <= cols /\ r0 = Base(r0, RowTile) /\ c0 = Base(c0, ColTile)
      BY <1>0, <1>4, <1>5
    <3>3. Holds(Rect(r0, RowTile, c0, ColTile), r, c)
      BY <2>1, <3>1
    <3>4. r0 <= r /\ r < r0 + RowTile /\ c0 <= c /\ c < c0 + ColTile
      BY <2>0, <3>2, <3>3, RectIs, Zenon
    <3>5. r0 = Base(r, RowTile)
      BY <1>0, <2>0, <3>2, <3>4, BaseIs
    <3>6. c0 = Base(c, ColTile)
      BY <1>0, <2>0, <3>2, <3>4, BaseIs
    <3>7. r < tall /\ c < cols
      BY <1>0, <1>3, <2>0, <3>2, <3>4
    <3> QED BY <3>1, <3>5, <3>6, <3>7
  <2>2. ASSUME NEW Q, Beside(Q), Holds(Q, r, c)
        PROVE  r < tall /\ c >= cols /\ Q = Rect(r, 1, c, 1)
    <3>1. PICK r0 \in A, k \in 0..(RowTile - 1), d \in cols..(nc - 1) : Q = Rect(r0 + k, 1, d, 1)
      BY <2>2
    <3>2. r0 + k \in Int /\ d \in Int /\ r0 + k < tall /\ d >= cols
      BY <1>0, <1>3, <1>4
    <3>3. r = r0 + k /\ c = d
      BY <2>0, <2>2, <3>1, <3>2, UnitRect
    <3> QED BY <3>1, <3>2, <3>3
  <2>3. ASSUME NEW Q, Below(Q), Holds(Q, r, c)
        PROVE  r >= tall /\ Q = Rect(r, 1, c, 1)
    <3>1. PICK a \in tall..(nr - 1), d \in 0..(nc - 1) : Q = Rect(a, 1, d, 1)
      BY <2>3
    <3>2. a \in Int /\ d \in Int /\ a >= tall
      BY <1>3
    <3>3. r = a /\ c = d
      BY <2>0, <2>3, <3>1, <3>2, UnitRect
    <3> QED BY <3>1, <3>2, <3>3
  <2>4. CASE r < tall /\ c < cols
    <3> DEFINE r1 == Base(r, RowTile)
               c1 == Base(c, ColTile)
               R == Rect(r1, RowTile, c1, ColTile)
    <3>1. r1 \in A /\ r1 \in Int /\ r1 <= r /\ r < r1 + RowTile
      <4>1. r \in 0..(tall - 1)
        BY <1>3, <2>0, <2>4
      <4>2. r1 \in Nat /\ r1 <= r /\ r < r1 + RowTile
        BY <1>0, <2>0, BaseIs
      <4> QED BY <1>4, <4>1, <4>2
    <3>2. c1 \in B /\ c1 \in Int /\ c1 <= c /\ c < c1 + ColTile
      <4>1. c \in 0..(cols - 1)
        BY <1>3, <2>0, <2>4
      <4>2. c1 \in Nat /\ c1 <= c /\ c < c1 + ColTile
        BY <1>0, <2>0, BaseIs
      <4> QED BY <1>5, <4>1, <4>2
    <3>3. Holds(R, r, c)
      <4> HIDE DEF r1, c1
      <4>1. RowTile \in Int /\ ColTile \in Int
        BY <1>0
      <4>2. r1 \in Int /\ r1 <= r /\ r < r1 + RowTile /\ c1 \in Int /\ c1 <= c /\ c < c1 + ColTile
        BY <3>1, <3>2
      <4> QED BY <2>0, <4>1, <4>2, RectIs, Zenon
    <3>4. Whole(R)
      BY <3>1, <3>2
    <3>5. R \in TileRects(nr, nc)
      BY <1>2, <3>4
    <3>6. ASSUME NEW Q \in TileRects(nr, nc), Holds(Q, r, c) PROVE Q = R
      <4> HIDE DEF Whole, Beside, Below
      <4>1. Whole(Q)
        BY <1>2, <1>3, <2>0, <2>2, <2>3, <2>4, <3>6
      <4> QED BY <2>1, <3>6, <4>1
    <3> HIDE DEF R
    <3> QED BY <3>3, <3>5, <3>6 DEF OwnRect
  <2>5. CASE ~(r < tall /\ c < cols)
    <3> DEFINE R == Rect(r, 1, c, 1)
    <3>1. Holds(R, r, c)
      BY <2>0, UnitRect
    <3>2. Beside(R) \/ Below(R)
      <4>1. CASE r < tall
        <5> DEFINE r1 == Base(r, RowTile)
        <5>1. r1 \in A /\ r1 \in Nat /\ r1 <= r /\ r < r1 + RowTile
          <6>1. r \in 0..(tall - 1)
            BY <1>3, <2>0, <4>1
          <6>2. r1 \in Nat /\ r1 <= r /\ r < r1 + RowTile
            BY <1>0, <2>0, BaseIs
          <6> QED BY <1>4, <6>1, <6>2
        <5> HIDE DEF r1
        <5>2. r - r1 \in 0..(RowTile - 1) /\ r1 + (r - r1) = r /\ c \in cols..(nc - 1)
          BY <1>0, <1>3, <2>0, <2>5, <4>1, <5>1
        <5>3. R = Rect(r1 + (r - r1), 1, c, 1)
          BY <5>2
        <5> QED BY <5>1, <5>2, <5>3
      <4>2. CASE ~(r < tall)
        <5>1. r \in tall..(nr - 1)
          BY <1>3, <2>0, <4>2
        <5> QED BY <5>1
      <4> QED BY <4>1, <4>2
    <3>3. R \in TileRects(nr, nc)
      BY <1>2, <3>2
    <3>4. ASSUME NEW Q \in TileRects(nr, nc), Holds(Q, r, c) PROVE Q = R
      <4> HIDE DEF Whole, Beside, Below
      <4>1. Beside(Q) \/ Below(Q)
        BY <1>2, <2>1, <2>5, <3>4
      <4> QED BY <2>2, <2>3, <3>4, <4>1
    <3> HIDE DEF R
    <3> QED BY <3>1, <3>3, <3>4 DEF OwnRect
  <2> QED BY <2>4, <2>5
<1> QED BY <1>6, <1>7 DEF Tiles

LEMMA BlockTiles ==
  ASSUME NEW nr \in Nat, NEW nc \in Nat
  PROVE  Tiles(BlockRects(nr, nc), nr, nc)
<1>0. RowBlock \in Nat \ {0} /\ ColBlock \in Nat \ {0} /\ Parallel \in Nat \ {0}
  BY GemmAssumption
<1> DEFINE A == Starts(nr, RowBlock)
           B == Starts(nc, ColBlock)
           H(r0) == Smaller(RowBlock, nr - r0)
           S(r0) == IF H(r0) % Parallel = 0 THEN Parallel ELSE 1
           wide(c0) == Smaller(ColBlock, nc - c0)
           K(r0) == Starts(H(r0), S(r0))
           From(Q, r0, c0) == \E k \in K(r0), d \in 0..(wide(c0) - 1) : Q = Rect(r0 + k, S(r0), c0 + d, 1)
<1>1. \A Q : Q \in BlockRects(nr, nc) <=> \E r0 \in A, c0 \in B : From(Q, r0, c0)
  <2>1. \A Q : Q \in BlockRects(nr, nc) <=> \E r0 \in A, c0 \in B : Q \in BlockAt(nr, nc, r0, c0)
    <3> HIDE DEF A, B
    <3>1. BlockRects(nr, nc) = UNION {BlockAt(nr, nc, r0, c0) : r0 \in A, c0 \in B}
      BY DEF BlockRects, A, B
    <3> QED BY <3>1
  <2>2. \A Q, r0, c0 : Q \in BlockAt(nr, nc, r0, c0) <=> From(Q, r0, c0)
    BY DEF BlockAt
  <2> HIDE DEF A, B, From
  <2> QED BY <2>1, <2>2
<1>2. /\ \A s \in A : s \in Nat /\ s < nr /\ s = Base(s, RowBlock)
      /\ \A x \in 0..(nr - 1) : Base(x, RowBlock) \in A
  BY <1>0, StartsIs
<1>3. /\ \A s \in B : s \in Nat /\ s < nc /\ s = Base(s, ColBlock)
      /\ \A x \in 0..(nc - 1) : Base(x, ColBlock) \in B
  BY <1>0, StartsIs
<1> HIDE DEF A, B
<1>4. ASSUME NEW r0 \in A
      PROVE  /\ H(r0) \in Nat \ {0} /\ r0 + H(r0) <= nr /\ H(r0) <= RowBlock
             /\ \A r \in Int : r < r0 + RowBlock /\ r < nr => r < r0 + H(r0)
             /\ S(r0) \in Nat \ {0} /\ H(r0) % S(r0) = 0
  <2>1. /\ H(r0) \in Nat \ {0} /\ r0 + H(r0) <= nr /\ H(r0) <= RowBlock
        /\ \A r \in Int : r < r0 + RowBlock /\ r < nr => r < r0 + H(r0)
    BY <1>0, <1>2 DEF Smaller
  <2> HIDE DEF H
  <2>2. S(r0) \in Nat \ {0} /\ H(r0) % S(r0) = 0
    BY <1>0, <2>1
  <2> QED BY <2>1, <2>2
<1>5. ASSUME NEW c0 \in B
      PROVE  /\ wide(c0) \in Nat \ {0} /\ c0 + wide(c0) <= nc /\ wide(c0) <= ColBlock
             /\ \A c \in Int : c < c0 + ColBlock /\ c < nc => c < c0 + wide(c0)
  BY <1>0, <1>3 DEF Smaller
<1> HIDE DEF H, wide, S
<1>6. ASSUME NEW r0 \in A
      PROVE  /\ \A k \in K(r0) : k \in Nat /\ k = Base(k, S(r0)) /\ k + S(r0) <= H(r0)
             /\ \A x \in 0..(H(r0) - 1) : Base(x, S(r0)) \in K(r0)
  <2>1. H(r0) \in Nat /\ S(r0) \in Nat \ {0} /\ H(r0) % S(r0) = 0
    BY <1>4
  <2> QED BY <2>1, StartsIs, WholeSpans
<1> HIDE DEF K
<1>7. \A R \in BlockRects(nr, nc) : Inside(R, nr, nc)
  <2> TAKE R \in BlockRects(nr, nc)
  <2>1. PICK r0 \in A, c0 \in B : From(R, r0, c0)
    BY <1>1
  <2>2. PICK k \in K(r0), d \in 0..(wide(c0) - 1) : R = Rect(r0 + k, S(r0), c0 + d, 1)
    BY <2>1
  <2>3. r0 + k \in Nat /\ S(r0) \in Nat /\ r0 + k + S(r0) <= nr /\ c0 + d \in Nat /\ c0 + d + 1 <= nc
    BY <1>2, <1>3, <1>4, <1>5, <1>6
  <2>4. Inside(Rect(r0 + k, S(r0), c0 + d, 1), nr, nc)
    BY <2>3, RectInside
  <2> QED BY <2>2, <2>4
<1>8. ASSUME NEW r \in 0..(nr - 1), NEW c \in 0..(nc - 1)
      PROVE  \E R : OwnRect(BlockRects(nr, nc), r, c, R)
  <2>0. r \in Int /\ c \in Int /\ r \in Nat /\ c \in Nat
    OBVIOUS
  <2> DEFINE r1 == Base(r, RowBlock)
             c1 == Base(c, ColBlock)
             k1 == Base(r - r1, S(r1))
             R == Rect(r1 + k1, S(r1), c, 1)
  <2>1. r1 \in A /\ r1 \in Nat /\ r1 <= r /\ r < r1 + RowBlock
    BY <1>0, <1>2, <2>0, BaseIs
  <2>2. c1 \in B /\ c1 \in Nat /\ c1 <= c /\ c < c1 + ColBlock
    BY <1>0, <1>3, <2>0, BaseIs
  <2>3. \A s \in A : s <= r /\ r < s + RowBlock => s = r1
    BY <1>0, <1>2, <2>0, BaseIs
  <2>4. \A s \in B : s <= c /\ c < s + ColBlock => s = c1
    BY <1>0, <1>3, <2>0, BaseIs
  <2> HIDE DEF r1, c1
  <2>5. /\ H(r1) \in Nat \ {0} /\ r < r1 + H(r1) /\ S(r1) \in Nat \ {0} /\ H(r1) % S(r1) = 0
        /\ r - r1 \in 0..(H(r1) - 1) /\ r - r1 \in Nat
    BY <1>4, <2>0, <2>1
  <2>6. k1 \in K(r1) /\ k1 \in Nat /\ k1 <= r - r1 /\ r - r1 < k1 + S(r1)
    BY <1>6, <2>1, <2>5, BaseIs
  <2>7. \A k \in K(r1) : k <= r - r1 /\ r - r1 < k + S(r1) => k = k1
    <3>1. \A k \in K(r1) : k \in Nat /\ k = Base(k, S(r1))
      BY <1>6, <2>1
    <3> QED BY <2>5, <3>1, BaseIs
  <2> HIDE DEF k1
  <2>8. c - c1 \in 0..(wide(c1) - 1) /\ c1 + (c - c1) = c
    BY <1>5, <2>0, <2>2
  <2>9. R \in BlockRects(nr, nc)
    <3>1. R = Rect(r1 + k1, S(r1), c1 + (c - c1), 1)
      BY <2>8
    <3>2. From(R, r1, c1)
      BY <2>6, <2>8, <3>1
    <3> HIDE DEF From
    <3> QED BY <1>1, <2>1, <2>2, <3>2
  <2>10. Holds(R, r, c)
    <3>1. /\ r1 + k1 \in Int /\ S(r1) \in Int /\ 1 \in Int
          /\ r1 + k1 <= r /\ r < (r1 + k1) + S(r1) /\ c <= c /\ c < c + 1
      BY <2>0, <2>1, <2>5, <2>6
    <3> QED BY <2>0, <3>1, RectIs, Zenon
  <2>11. ASSUME NEW Q \in BlockRects(nr, nc), Holds(Q, r, c) PROVE Q = R
    <3>1. PICK r0 \in A, c0 \in B : From(Q, r0, c0)
      BY <1>1
    <3>2. PICK k \in K(r0), d \in 0..(wide(c0) - 1) : Q = Rect(r0 + k, S(r0), c0 + d, 1)
      BY <3>1
    <3>3. /\ r0 \in Nat /\ k \in Nat /\ H(r0) \in Nat /\ S(r0) \in Nat \ {0} /\ c0 \in Nat /\ wide(c0) \in Nat
          /\ k + S(r0) <= H(r0) /\ H(r0) <= RowBlock /\ wide(c0) <= ColBlock
      BY <1>2, <1>3, <1>4, <1>5, <1>6
    <3>4. r0 + k \in Int /\ S(r0) \in Int /\ c0 + d \in Int /\ 1 \in Int
      BY <3>3
    <3>5. Holds(Rect(r0 + k, S(r0), c0 + d, 1), r, c)
      BY <2>11, <3>2
    <3>6. r0 + k <= r /\ r < (r0 + k) + S(r0) /\ c0 + d <= c /\ c < (c0 + d) + 1
      BY <2>0, <3>4, <3>5, RectIs, Zenon
    <3>7. r0 <= r /\ r < r0 + RowBlock /\ c0 <= c /\ c < c0 + ColBlock /\ c0 + d = c
      BY <1>0, <2>0, <3>3, <3>6
    <3>8. r0 = r1 /\ c0 = c1
      BY <2>3, <2>4, <3>7
    <3>9. k = k1
      BY <2>0, <2>1, <2>7, <3>2, <3>3, <3>6, <3>8
    <3> QED BY <3>2, <3>7, <3>8, <3>9
  <2> HIDE DEF R
  <2> QED BY <2>9, <2>10, <2>11 DEF OwnRect
<1> QED BY <1>7, <1>8 DEF Tiles

(***************************************************************************)
(* A call writes each of its cells once, and no other.                     *)
(***************************************************************************)
LEMMA AnyTiles ==
  ASSUME NEW nr \in Nat \ {0}, NEW nc \in Nat
  PROVE  Tiles(Rects(nr, nc), nr, nc)
BY PackedTiles, TileTiles, BlockTiles, SingleRow DEF Rects

LEMMA HitsOnce ==
  ASSUME NEW rects, NEW nr \in Nat, NEW nc \in Nat, Tiles(rects, nr, nc), NEW r \in Int, NEW c \in 0..(nc - 1)
  PROVE  Cardinality({R \in rects : <<r, c>> \in R}) = IF r \in 0..(nr - 1) THEN 1 ELSE 0
<1> DEFINE hits == {R \in rects : <<r, c>> \in R}
<1>1. CASE r \in 0..(nr - 1)
  <2>1. PICK R : OwnRect(rects, r, c, R)
    BY <1>1 DEF Tiles
  <2>2. hits = {R}
    BY <2>1 DEF OwnRect, Holds
  <2>3. Cardinality(hits) = 1
    BY <2>2, FS_Singleton
  <2> QED BY <1>1, <2>3
<1>2. CASE r \notin 0..(nr - 1)
  <2>1. hits = {}
    BY <1>2 DEF Tiles, Inside
  <2>2. Cardinality(hits) = 0
    BY <2>1, FS_EmptySet
  <2> QED BY <1>2, <2>2
<1> QED BY <1>1, <1>2

(***************************************************************************)
(* A window is whole blocks, and so whole quads.                           *)
(***************************************************************************)
LEMMA ShapeIs ==
  ASSUME NEW s \in Shapes
  PROVE  /\ s.kw \in Nat \ {0} /\ s.ic \in Nat \ {0} /\ s.oc \in Nat \ {0}
         /\ s.frames \in Nat \ {0} /\ s.stride \in Nat \ {0} /\ s.stride <= s.kw
         /\ WindowSize(s) = s.kw * s.ic /\ WindowSize(s) \in Nat \ {0} /\ WindowSize(s) % Block = 0
<1>1. /\ s \in [kw : Nat \ {0}, ic : Nat \ {0}, oc : Nat \ {0}, frames : Nat \ {0}, stride : Nat \ {0}]
      /\ s.stride <= s.kw /\ (s.kw * s.ic) % Block = 0
  BY GemmAssumption
<1>2. s.kw \in Nat \ {0} /\ s.ic \in Nat \ {0}
  BY <1>1
<1>3. \A a, b \in Nat \ {0} : a * b \in Nat \ {0}
  OBVIOUS
<1>4. WindowSize(s) = s.kw * s.ic /\ WindowSize(s) \in Nat \ {0}
  BY <1>2, <1>3 DEF WindowSize
<1> QED BY <1>1, <1>4

LEMMA WholeQuads ==
  ASSUME NEW w \in Nat, w % Block = 0
  PROVE  w = (w \div Quad) * Quad /\ w = (w \div Block) * Block /\ w \div Quad \in Nat /\ w \div Block \in Nat
<1>0. Block \in Nat \ {0} /\ Quad \in Nat \ {0} /\ Block % Quad = 0
  BY GemmAssumption
<1> DEFINE q == Block \div Quad
           b == w \div Block
<1>1. q \in Nat /\ Block = q * Quad + (Block % Quad) /\ b \in Nat /\ w = b * Block + (w % Block)
  BY <1>0, DivisionOf
<1> HIDE DEF q, b
<1>2. Block = q * Quad /\ w = b * Block
  BY <1>0, <1>1
<1>3. w = (b * q) * Quad + 0 /\ b * q \in Nat /\ 0 \in 0..(Quad - 1)
  <2>1. b * (q * Quad) = (b * q) * Quad /\ b * q \in Nat /\ (b * q) * Quad \in Nat
    BY <1>0, <1>1
  <2> QED BY <1>0, <1>2, <2>1
<1>4. ((b * q) * Quad + 0) \div Quad = b * q
  BY <1>0, <1>3, DivisionUnique
<1>5. w \div Quad = b * q
  BY <1>3, <1>4
<1>6. (b * q) * Quad + 0 = (b * q) * Quad
  BY <1>0, <1>3
<1> QED BY <1>1, <1>2, <1>3, <1>5, <1>6 DEF b

(***************************************************************************)
(* A place of the pack tells its panel, its column and its weight.         *)
(***************************************************************************)
PanelSize(s) == (WindowSize(s) \div Quad) * Vector
PanelAt(s, q) == q \div PanelSize(s)
ColumnAt(s, q) == ((q % PanelSize(s)) % Vector) \div Quad
WeightAt(s, q) == ((q % PanelSize(s)) \div Vector) * Quad + (((q % PanelSize(s)) % Vector) % Quad)

LEMMA PutDecodes ==
  ASSUME NEW s \in Shapes, NEW p \in Nat, NEW c \in 0..(Panel - 1), NEW t \in 0..(WindowSize(s) - 1)
  PROVE  /\ Put(s, p, c, t) \in Nat /\ Put(s, p, c, t) < (p + 1) * PanelSize(s)
         /\ PanelSize(s) \in Nat \ {0}
         /\ p = PanelAt(s, Put(s, p, c, t))
         /\ c = ColumnAt(s, Put(s, p, c, t))
         /\ t = WeightAt(s, Put(s, p, c, t))
<1> DEFINE wide == WindowSize(s)
           Q == wide \div Quad
           M == Q * Vector
           x == t \div Quad
           y == t % Quad
           u == c * Quad + y
           v == x * Vector + u
           q == p * M + v
<1>0. /\ Quad \in Nat \ {0} /\ Panel \in Nat \ {0} /\ wide \in Nat \ {0} /\ wide = Q * Quad /\ Q \in Nat
  BY GemmAssumption, ShapeIs, WholeQuads
<1>1. x \in Nat /\ y \in 0..(Quad - 1) /\ t = x * Quad + y
  <2>1. t \in Nat
    BY <1>0
  <2> QED BY <1>0, <2>1, DivisionOf
<1>2. Put(s, p, c, t) = p * Q * Vector + x * Vector + c * Quad + y
  BY DEF Put
<1>3. Vector = Panel * Quad
  BY DEF Vector
<1>4. Vector \in Nat \ {0}
  BY <1>0, <1>3
<1> HIDE DEF wide
<1>5. t < wide /\ t \in Nat
  BY <1>0 DEF wide
<1> HIDE DEF Q, x, y
<1>6. x < Q
  <2> SUFFICES ASSUME Q <= x PROVE FALSE
    BY <1>0, <1>1
  <2>1. Quad * Q <= Quad * x
    BY <1>0, <1>1, ProductMonotone
  <2> QED BY <1>0, <1>1, <1>5, <2>1
<1>7. u \in 0..(Vector - 1)
  <2>1. c + 1 <= Panel /\ c \in Nat /\ c + 1 \in Nat
    BY <1>0
  <2>2. Quad * (c + 1) <= Quad * Panel
    BY <1>0, <2>1, ProductMonotone
  <2>3. Quad * (c + 1) = c * Quad + Quad /\ Quad * Panel = Vector /\ c * Quad \in Nat
    BY <1>0, <1>3, <2>1
  <2> QED BY <1>0, <1>1, <1>4, <2>2, <2>3
<1>8. u % Quad = y /\ u \div Quad = c
  <2>1. c \in Nat
    OBVIOUS
  <2> QED BY <1>0, <1>1, <2>1, DivisionUnique
<1> HIDE DEF u
<1>9. v % Vector = u /\ v \div Vector = x
  BY <1>1, <1>4, <1>7, DivisionUnique
<1>10. v \in 0..(M - 1) /\ M \in Nat \ {0}
  <2>1. x + 1 <= Q /\ x + 1 \in Nat
    BY <1>0, <1>1, <1>6
  <2>2. Vector * (x + 1) <= Vector * Q
    BY <1>0, <1>4, <2>1, ProductMonotone
  <2>3. Vector * (x + 1) = x * Vector + Vector /\ Vector * Q = M /\ x * Vector \in Nat /\ M \in Nat
    BY <1>0, <1>1, <1>4
  <2> QED BY <1>4, <1>7, <2>2, <2>3
<1> HIDE DEF v
<1>11. p * M \in Nat /\ (p + 1) * M = p * M + M
  BY <1>10
<1>12. p * Q * Vector = p * M
  BY <1>0, <1>4
<1> HIDE DEF M
<1>13. q % M = v /\ q \div M = p
  BY <1>10, DivisionUnique
<1>14. Put(s, p, c, t) = q
  <2>1. p * M + x * Vector + c * Quad + y = p * M + (x * Vector + (c * Quad + y))
    <3>1. x * Vector \in Nat /\ c * Quad \in Nat /\ y \in Nat
      BY <1>0, <1>1, <1>4
    <3> QED BY <1>11, <3>1
  <2> QED BY <1>2, <1>12, <2>1 DEF u, v
<1>15. q \in Nat /\ q < (p + 1) * M
  BY <1>10, <1>11
<1> HIDE DEF q
<1>16. PanelSize(s) = M
  BY DEF PanelSize, M, Q, wide
<1>17. PanelAt(s, q) = p
  BY <1>13, <1>16 DEF PanelAt
<1>18. ColumnAt(s, q) = c
  BY <1>8, <1>9, <1>13, <1>16 DEF ColumnAt
<1>19. WeightAt(s, q) = t
  BY <1>1, <1>8, <1>9, <1>13, <1>16 DEF WeightAt
<1> QED BY <1>10, <1>14, <1>15, <1>16, <1>17, <1>18, <1>19

LEMMA PackHolds ==
  ASSUME NEW s \in Shapes, NEW c \in 0..(s.oc - 1), NEW t \in 0..(WindowSize(s) - 1)
  PROVE  PackOf(s)[Put(s, c \div Panel, c % Panel, t)] = c * WindowSize(s) + Source(s, t)
<1> DEFINE wide == WindowSize(s)
           p == c \div Panel
           d == c % Panel
           n == UpDiv(s.oc, Panel)
           x == <<p, d, t>>
           q == Put(s, p, d, t)
           At(y) == Put(s, y[1], y[2], y[3])
<1>0. Panel \in Nat \ {0} /\ s.oc \in Nat \ {0} /\ wide \in Nat \ {0}
  BY GemmAssumption, ShapeIs
<1>1. c \in Nat /\ c < s.oc /\ t \in Nat
  BY <1>0
<1>2. p \in Nat /\ d \in 0..(Panel - 1) /\ c = p * Panel + d
  BY <1>0, <1>1, DivisionOf
<1>3. n \in Nat /\ s.oc <= Panel * n
  BY <1>0, UpDivIs
<1> HIDE DEF p, d, n
<1>4. p < n
  <2> SUFFICES ASSUME n <= p PROVE FALSE
    BY <1>2, <1>3
  <2>1. Panel * n <= Panel * p
    BY <1>0, <1>2, <1>3, ProductMonotone
  <2> QED BY <1>0, <1>1, <1>2, <1>3, <2>1
<1>5. x \in Filled(s)
  BY <1>0, <1>1, <1>2, <1>3, <1>4 DEF Filled, n
<1>6. /\ q \in Nat /\ q < (p + 1) * PanelSize(s) /\ PanelSize(s) \in Nat \ {0}
      /\ p = PanelAt(s, q) /\ d = ColumnAt(s, q) /\ t = WeightAt(s, q)
  BY <1>2, PutDecodes
<1>7. \A y \in Filled(s) : At(y) = q => y = x
  <2> TAKE y \in Filled(s)
  <2> HAVE At(y) = q
  <2>1. y \in (0..(n - 1)) \X (0..(Panel - 1)) \X (0..(wide - 1))
    BY DEF Filled, n
  <2>2. y[1] \in Nat /\ y[2] \in 0..(Panel - 1) /\ y[3] \in 0..(wide - 1) /\ y = <<y[1], y[2], y[3]>>
    BY <1>3, <2>1
  <2>3. y[1] = PanelAt(s, At(y)) /\ y[2] = ColumnAt(s, At(y)) /\ y[3] = WeightAt(s, At(y))
    BY <2>2, PutDecodes
  <2> QED BY <1>6, <2>2, <2>3
<1>8. q \in 0..(n * PanelSize(s) - 1)
  <2>1. p + 1 <= n /\ p + 1 \in Nat
    BY <1>2, <1>3, <1>4
  <2> DEFINE z == PanelSize(s)
  <2>2. z \in Nat
    BY <1>6
  <2> HIDE DEF z
  <2>3. z * (p + 1) <= z * n
    BY <1>3, <2>1, <2>2, ProductMonotone
  <2>4. z * (p + 1) = (p + 1) * z /\ z * n = n * z /\ n * z \in Nat /\ (p + 1) * z \in Nat
    BY <1>2, <1>3, <2>2
  <2>5. q < n * z
    BY <1>6, <2>3, <2>4 DEF z
  <2> QED BY <1>6, <2>4, <2>5 DEF z
<1>9. n * (wide \div Quad) * Vector = n * PanelSize(s)
  <2>1. wide \div Quad \in Nat /\ Vector \in Nat
    BY <1>0, ShapeIs, WholeQuads, GemmAssumption DEF Vector
  <2> DEFINE a == wide \div Quad
  <2>2. a \in Nat
    BY <2>1
  <2> HIDE DEF a
  <2>3. n * a * Vector = n * (a * Vector)
    BY <1>3, <2>1, <2>2
  <2> QED BY <2>3 DEF a, PanelSize
<1>10. At(x) = q
  OBVIOUS
<1> DEFINE best == CHOOSE y \in Filled(s) : At(y) = q
<1>11. best = x
  BY <1>5, <1>7, <1>10
<1>12. PackOf(s) = [k \in 0..(n * PanelSize(s) - 1) |->
                     IF \E y \in Filled(s) : At(y) = k
                     THEN LET y == CHOOSE z \in Filled(s) : At(z) = k
                          IN  (y[1] * Panel + y[2]) * wide + Source(s, y[3])
                     ELSE Hole]
  BY <1>9 DEF PackOf, n
<1> HIDE DEF q
<1>13. PackOf(s)[q] = (best[1] * Panel + best[2]) * wide + Source(s, best[3])
  BY <1>5, <1>8, <1>10, <1>12
<1>14. x[1] = p /\ x[2] = d /\ x[3] = t
  OBVIOUS
<1> HIDE DEF best, x
<1>15. PackOf(s)[q] = (p * Panel + d) * wide + Source(s, t)
  BY <1>11, <1>13, <1>14
<1> QED BY <1>2, <1>15 DEF q, p, d

(***************************************************************************)
(* Every kernel meets each weight of the channel with one byte.            *)
(***************************************************************************)
Meets(s, acts, c) ==
  {<<c * WindowSize(s) + Source(s, k), acts[k]>> : k \in 0..(WindowSize(s) - 1)}

LEMMA PackedSumMeets ==
  ASSUME NEW s \in Shapes, NEW c \in 0..(s.oc - 1), NEW acts, pack = PackOf(s)
  PROVE  PackedSum(s, acts, c) = Meets(s, acts, c)
<1> DEFINE wide == WindowSize(s)
           Q == wide \div Quad
           Place(t, b) == (c \div Panel) * Q * Vector + t * Vector + (c % Panel) * Quad + b
           Pair(k) == <<c * wide + Source(s, k), acts[k]>>
<1>0. Quad \in Nat \ {0} /\ wide \in Nat \ {0} /\ wide = Q * Quad /\ Q \in Nat
  BY GemmAssumption, ShapeIs, WholeQuads
<1> HIDE DEF wide, Q
<1>1. ASSUME NEW t \in 0..(Q - 1), NEW b \in 0..(Quad - 1)
      PROVE  t * Quad + b \in 0..(wide - 1) /\ pack[Place(t, b)] = c * wide + Source(s, t * Quad + b)
  <2>1. t \in Nat /\ t + 1 <= Q /\ t + 1 \in Nat
    BY <1>0
  <2>2. (t * Quad + b) % Quad = b /\ (t * Quad + b) \div Quad = t
    BY <1>0, <2>1, DivisionUnique
  <2>3. t * Quad + b \in 0..(wide - 1)
    <3>1. Quad * (t + 1) <= Quad * Q
      BY <1>0, <2>1, ProductMonotone
    <3>2. Quad * (t + 1) = t * Quad + Quad /\ Quad * Q = wide /\ t * Quad \in Nat
      BY <1>0, <2>1
    <3> QED BY <1>0, <3>1, <3>2
  <2> DEFINE k == t * Quad + b
  <2>4. Put(s, c \div Panel, c % Panel, k) = Place(t, b)
    BY <2>2 DEF Put, Q, wide
  <2>5. k \in 0..(wide - 1)
    BY <2>3
  <2> HIDE DEF k, Place
  <2>6. PackOf(s)[Put(s, c \div Panel, c % Panel, k)] = c * wide + Source(s, k)
    BY <2>5, PackHolds DEF wide
  <2>7. pack[Place(t, b)] = c * wide + Source(s, k)
    BY <2>4, <2>6
  <2> QED BY <2>3, <2>7 DEF k
<1>2. PackedSum(s, acts, c) = {<<pack[Place(t, b)], acts[t * Quad + b]>> : t \in 0..(Q - 1), b \in 0..(Quad - 1)}
  BY DEF PackedSum, Q, wide
<1> HIDE DEF Place
<1>3. ASSUME NEW e \in PackedSum(s, acts, c) PROVE e \in {Pair(k) : k \in 0..(wide - 1)}
  <2>1. PICK t \in 0..(Q - 1), b \in 0..(Quad - 1) : e = <<pack[Place(t, b)], acts[t * Quad + b]>>
    BY <1>2
  <2>2. e = Pair(t * Quad + b) /\ t * Quad + b \in 0..(wide - 1)
    BY <1>1, <2>1
  <2> QED BY <2>2
<1>4. ASSUME NEW k \in 0..(wide - 1) PROVE Pair(k) \in PackedSum(s, acts, c)
  <2> DEFINE t == k \div Quad
             b == k % Quad
  <2>0. k \in Nat
    BY <1>0
  <2>1. t \in Nat /\ b \in 0..(Quad - 1) /\ k = t * Quad + b
    BY <1>0, <2>0, DivisionOf
  <2> HIDE DEF t, b
  <2>2. t < Q
    <3> SUFFICES ASSUME Q <= t PROVE FALSE
      BY <1>0, <2>1
    <3>1. Quad * Q <= Quad * t
      BY <1>0, <2>1, ProductMonotone
    <3> QED BY <1>0, <2>1, <3>1
  <2>3. t \in 0..(Q - 1)
    BY <1>0, <2>1, <2>2
  <2>4. pack[Place(t, b)] = c * wide + Source(s, k)
    BY <1>1, <2>1, <2>3
  <2>5. Pair(k) = <<pack[Place(t, b)], acts[t * Quad + b]>>
    BY <2>1, <2>4
  <2> QED BY <1>2, <2>1, <2>3, <2>5
<1>5. Meets(s, acts, c) = {Pair(k) : k \in 0..(wide - 1)}
  BY DEF Meets, wide
<1> HIDE DEF Pair
<1> QED BY <1>3, <1>4, <1>5

LEMMA DotSumMeets ==
  ASSUME NEW s \in Shapes, NEW c \in 0..(s.oc - 1), NEW acts, route # "conv"
  PROVE  DotSum(s, acts, c) = Meets(s, acts, c)
<1>1. WindowSize(s) = (WindowSize(s) \div Block) * Block
  BY ShapeIs, WholeQuads
<1>2. \A k : Source(s, k) = k
  BY DEF Source
<1> QED BY <1>1, <1>2 DEF DotSum, Meets

(***************************************************************************)
(* The bytes of a window, by channel and tap.                              *)
(***************************************************************************)
Taken(s, r) ==
  IF route # "conv" THEN ImToCol(s, r)
  ELSE IF r * s.stride < Lead(s) THEN PadBuf(s, r) ELSE Window(s, r)

Channel(s, k) == IF route = "conv" THEN k % s.ic ELSE k \div s.kw
Tap(s, k) == IF route = "conv" THEN k \div s.ic ELSE k % s.kw
FrameOf(s, r, j) == r * s.stride + j - Lead(s)
ByteOf(s, r, c, j) == IF FrameOf(s, r, j) \in 0..(s.frames - 1) THEN FrameOf(s, r, j) * s.ic + c ELSE Zero

Splits(a, b) ==
  /\ \A k \in 0..(a * b - 1) :
       k \div b \in 0..(a - 1) /\ k % b \in 0..(b - 1) /\ k = (k \div b) * b + (k % b)
  /\ \A x \in 0..(a - 1), y \in 0..(b - 1) :
       x * b + y \in 0..(a * b - 1) /\ (x * b + y) \div b = x /\ (x * b + y) % b = y

LEMMA MixedRadix ==
  ASSUME NEW a \in Nat \ {0}, NEW b \in Nat \ {0}
  PROVE  Splits(a, b)
<1>0. a * b \in Nat \ {0}
  <2>1. \A x, y \in Nat \ {0} : x * y \in Nat \ {0}
    OBVIOUS
  <2> QED BY <2>1
<1>1. ASSUME NEW k \in 0..(a * b - 1)
      PROVE  k \div b \in 0..(a - 1) /\ k % b \in 0..(b - 1) /\ k = (k \div b) * b + (k % b)
  <2> DEFINE q == k \div b
             m == k % b
  <2>1. k \in Nat /\ k < a * b
    BY <1>0
  <2>2. q \in Nat /\ m \in 0..(b - 1) /\ k = q * b + m
    BY <2>1, DivisionOf
  <2> HIDE DEF q, m
  <2>3. q < a
    <3> SUFFICES ASSUME a <= q PROVE FALSE
      BY <2>2
    <3>1. b * a <= b * q
      BY <2>2, ProductMonotone
    <3>2. b * a = a * b /\ b * q = q * b /\ q * b \in Nat
      BY <2>2
    <3> QED BY <1>0, <2>1, <2>2, <3>1, <3>2
  <2>4. q \in 0..(a - 1)
    BY <2>2, <2>3
  <2> QED BY <2>2, <2>4 DEF q, m
<1>2. ASSUME NEW x \in 0..(a - 1), NEW y \in 0..(b - 1)
      PROVE  x * b + y \in 0..(a * b - 1) /\ (x * b + y) \div b = x /\ (x * b + y) % b = y
  <2>1. x \in Nat /\ x + 1 <= a /\ x + 1 \in Nat
    OBVIOUS
  <2>2. b * (x + 1) <= b * a
    BY <2>1, ProductMonotone
  <2>3. b * (x + 1) = x * b + b /\ b * a = a * b /\ x * b \in Nat
    BY <2>1
  <2>4. x * b + y \in 0..(a * b - 1)
    BY <1>0, <2>2, <2>3
  <2> QED BY <2>1, <2>4, DivisionUnique
<1> QED BY <1>1, <1>2 DEF Splits

LEMMA TapsAre ==
  ASSUME NEW s \in Shapes
  PROVE  /\ \A k \in 0..(WindowSize(s) - 1) :
              /\ Channel(s, k) \in 0..(s.ic - 1) /\ Tap(s, k) \in 0..(s.kw - 1)
              /\ Source(s, k) = Channel(s, k) * s.kw + Tap(s, k)
              /\ k = IF route = "conv" THEN Tap(s, k) * s.ic + Channel(s, k)
                     ELSE Channel(s, k) * s.kw + Tap(s, k)
         /\ \A c \in 0..(s.ic - 1), j \in 0..(s.kw - 1) :
              \E k \in 0..(WindowSize(s) - 1) : Channel(s, k) = c /\ Tap(s, k) = j
<1>0. s.kw \in Nat \ {0} /\ s.ic \in Nat \ {0} /\ WindowSize(s) = s.kw * s.ic
  BY ShapeIs
<1>1. s.kw * s.ic = s.ic * s.kw
  BY <1>0
<1>a. Splits(s.kw, s.ic) /\ Splits(s.ic, s.kw)
  BY <1>0, MixedRadix
<1>2. CASE route = "conv"
  <2>1. ASSUME NEW k \in 0..(WindowSize(s) - 1)
        PROVE  /\ Channel(s, k) \in 0..(s.ic - 1) /\ Tap(s, k) \in 0..(s.kw - 1)
               /\ Source(s, k) = Channel(s, k) * s.kw + Tap(s, k)
               /\ k = Tap(s, k) * s.ic + Channel(s, k)
    <3>1. k \div s.ic \in 0..(s.kw - 1) /\ k % s.ic \in 0..(s.ic - 1) /\ k = (k \div s.ic) * s.ic + (k % s.ic)
      BY <1>0, <1>a DEF Splits
    <3> QED BY <1>2, <3>1 DEF Channel, Tap, Source
  <2>2. ASSUME NEW c \in 0..(s.ic - 1), NEW j \in 0..(s.kw - 1)
        PROVE  \E k \in 0..(WindowSize(s) - 1) : Channel(s, k) = c /\ Tap(s, k) = j
    <3> DEFINE k == j * s.ic + c
    <3>1. k \in 0..(s.kw * s.ic - 1) /\ k \div s.ic = j /\ k % s.ic = c
      BY <1>0, <1>a DEF Splits
    <3> HIDE DEF k
    <3> QED BY <1>0, <1>2, <3>1 DEF Channel, Tap
  <2> QED BY <1>2, <2>1, <2>2
<1>3. CASE route # "conv"
  <2>1. ASSUME NEW k \in 0..(WindowSize(s) - 1)
        PROVE  /\ Channel(s, k) \in 0..(s.ic - 1) /\ Tap(s, k) \in 0..(s.kw - 1)
               /\ Source(s, k) = Channel(s, k) * s.kw + Tap(s, k)
               /\ k = Channel(s, k) * s.kw + Tap(s, k)
    <3>1. k \div s.kw \in 0..(s.ic - 1) /\ k % s.kw \in 0..(s.kw - 1) /\ k = (k \div s.kw) * s.kw + (k % s.kw)
      BY <1>0, <1>1, <1>a DEF Splits
    <3> QED BY <1>3, <3>1 DEF Channel, Tap, Source
  <2>2. ASSUME NEW c \in 0..(s.ic - 1), NEW j \in 0..(s.kw - 1)
        PROVE  \E k \in 0..(WindowSize(s) - 1) : Channel(s, k) = c /\ Tap(s, k) = j
    <3> DEFINE k == c * s.kw + j
    <3>1. k \in 0..(s.ic * s.kw - 1) /\ k \div s.kw = c /\ k % s.kw = j
      BY <1>0, <1>a DEF Splits
    <3> HIDE DEF k
    <3> QED BY <1>0, <1>1, <1>3, <3>1 DEF Channel, Tap
  <2> QED BY <1>3, <2>1, <2>2
<1> QED BY <1>2, <1>3

\* A window ends within a signal of at least a stride.
LEMMA WindowEnds ==
  ASSUME NEW s \in Shapes, s.frames >= s.stride, NEW r \in 0..(Rows(s) - 1), NEW j \in 0..(s.kw - 1)
  PROVE  /\ FrameOf(s, r, j) \in Int /\ FrameOf(s, r, j) < s.frames
         /\ r * s.stride \in Nat /\ Lead(s) \in Nat
<1> DEFINE d == (s.frames - s.stride) \div s.stride
<1>0. /\ s.kw \in Nat \ {0} /\ s.frames \in Nat \ {0} /\ s.stride \in Nat \ {0} /\ s.stride <= s.kw
      /\ s.frames - s.stride \in Nat
  BY ShapeIs
<1>1. d \in Nat /\ s.stride * d <= s.frames - s.stride
  BY <1>0, DivisionBounds
<1>2. Rows(s) = d + 1
  BY <1>0 DEF Rows
<1> HIDE DEF d
<1>3. r \in Nat /\ r <= d
  BY <1>1, <1>2
<1>4. s.stride * r <= s.stride * d
  BY <1>0, <1>1, <1>3, ProductMonotone
<1>5. s.stride * r = r * s.stride /\ r * s.stride \in Nat /\ s.stride * d \in Nat
  BY <1>0, <1>1, <1>3
<1>6. Lead(s) \in Nat /\ Lead(s) = s.kw - s.stride
  BY <1>0 DEF Lead
<1> DEFINE m == r * s.stride
           e == s.stride * d
<1>7. m \in Nat /\ e \in Nat /\ m <= e /\ e <= s.frames - s.stride
  BY <1>1, <1>4, <1>5
<1> HIDE DEF m, e
<1>8. m + j - Lead(s) \in Int /\ m + j - Lead(s) < s.frames
  BY <1>0, <1>6, <1>7
<1> QED BY <1>5, <1>6, <1>8 DEF FrameOf, m

LEMMA BytesAre ==
  ASSUME NEW s \in Shapes, s.frames >= s.stride, NEW r \in 0..(Rows(s) - 1), NEW k \in 0..(WindowSize(s) - 1)
  PROVE  Taken(s, r)[k] = ByteOf(s, r, Channel(s, k), Tap(s, k))
<1> DEFINE c == Channel(s, k)
           j == Tap(s, k)
           m == r * s.stride
           f == FrameOf(s, r, j)
<1>0. s.kw \in Nat \ {0} /\ s.ic \in Nat \ {0} /\ s.frames \in Nat \ {0}
  BY ShapeIs
<1>1. /\ c \in 0..(s.ic - 1) /\ j \in 0..(s.kw - 1)
      /\ k = IF route = "conv" THEN j * s.ic + c ELSE c * s.kw + j
  BY TapsAre
<1>2. f \in Int /\ f < s.frames /\ f = m + j - Lead(s) /\ m \in Nat /\ Lead(s) \in Nat
  <2>1. f \in Int /\ f < s.frames /\ m \in Nat /\ Lead(s) \in Nat
    BY <1>1, WindowEnds
  <2> QED BY <2>1 DEF FrameOf
<1>3. CASE route # "conv"
  <2>1. c = k \div s.kw /\ j = k % s.kw
    BY <1>3 DEF Channel, Tap
  <2>2. Taken(s, r) = ImToCol(s, r)
    BY <1>3 DEF Taken
  <2>3. ImToCol(s, r)[k] = IF r * s.stride + j - Lead(s) \in 0..(s.frames - 1)
                           THEN (r * s.stride + j - Lead(s)) * s.ic + c ELSE Zero
    BY <2>1 DEF ImToCol
  <2> QED BY <2>2, <2>3 DEF ByteOf, FrameOf
<1>4. CASE route = "conv" /\ m < Lead(s)
  <2> DEFINE d == Lead(s) - m
  <2>1. Taken(s, r)[k] = IF k < d * s.ic THEN Zero ELSE k - d * s.ic
    <3>1. Taken(s, r) = PadBuf(s, r)
      BY <1>4 DEF Taken
    <3> QED BY <3>1 DEF PadBuf
  <2>2. d \in Nat /\ f = j - d
    BY <1>1, <1>2, <1>4
  <2> HIDE DEF c, j, f, d
  <2>3. k = j * s.ic + c /\ j \in Nat /\ c \in Nat /\ c < s.ic
    BY <1>0, <1>1, <1>4
  <2>4. CASE j < d
    <3>1. s.ic * (j + 1) <= s.ic * d
      BY <1>0, <2>2, <2>3, <2>4, ProductMonotone
    <3>2. s.ic * (j + 1) = j * s.ic + s.ic /\ s.ic * d = d * s.ic /\ j * s.ic \in Nat /\ d * s.ic \in Nat
      BY <1>0, <2>2, <2>3
    <3>3. k < d * s.ic
      BY <1>0, <2>3, <3>1, <3>2
    <3>4. f \notin 0..(s.frames - 1)
      BY <1>0, <2>2, <2>3, <2>4
    <3> QED BY <2>1, <3>3, <3>4 DEF ByteOf, f, c, j
  <2>5. CASE d <= j
    <3>1. s.ic * d <= s.ic * j
      BY <1>0, <2>2, <2>3, <2>5, ProductMonotone
    <3>2. s.ic * d = d * s.ic /\ s.ic * j = j * s.ic /\ j * s.ic \in Nat /\ d * s.ic \in Nat
      BY <1>0, <2>2, <2>3
    <3>3. ~(k < d * s.ic)
      BY <1>0, <2>3, <3>1, <3>2
    <3>4. f \in 0..(s.frames - 1)
      BY <1>0, <1>2, <2>2, <2>3, <2>5 DEF f, j
    <3>5. f * s.ic = j * s.ic - d * s.ic
      BY <1>0, <2>2, <2>3
    <3>6. k - d * s.ic = f * s.ic + c
      <4>1. f * s.ic \in Int
        BY <3>2, <3>5
      <4> QED BY <2>3, <3>2, <3>5, <4>1
    <3>7. ByteOf(s, r, c, j) = f * s.ic + c
      BY <3>4 DEF ByteOf, f
    <3> QED BY <2>1, <3>3, <3>6, <3>7 DEF c, j
  <2> QED BY <2>2, <2>3, <2>4, <2>5
<1>5. CASE route = "conv" /\ ~(m < Lead(s))
  <2> DEFINE d == m - Lead(s)
  <2>1. Taken(s, r)[k] = d * s.ic + k
    <3>1. Taken(s, r) = Window(s, r)
      BY <1>5 DEF Taken
    <3> QED BY <3>1 DEF Window
  <2>2. d \in Nat /\ f = d + j
    BY <1>1, <1>2, <1>5
  <2>3. k = j * s.ic + c /\ j \in Nat /\ c \in Nat
    BY <1>0, <1>1, <1>5
  <2>4. f \in 0..(s.frames - 1)
    BY <1>0, <1>2, <2>2, <2>3
  <2> HIDE DEF c, j, f, d
  <2>5. f * s.ic = d * s.ic + j * s.ic
    BY <1>0, <2>2, <2>3
  <2>6. d * s.ic + k = f * s.ic + c
    <3>1. d * s.ic \in Nat /\ j * s.ic \in Nat
      BY <1>0, <2>2, <2>3
    <3> QED BY <2>3, <2>5, <3>1
  <2>7. ByteOf(s, r, c, j) = f * s.ic + c
    BY <2>4 DEF ByteOf, f
  <2> QED BY <2>1, <2>6, <2>7 DEF c, j
<1> QED BY <1>3, <1>4, <1>5

LEMMA MeetsConvolution ==
  ASSUME NEW s \in Shapes, s.frames >= s.stride, NEW r \in 0..(Rows(s) - 1), NEW o \in 0..(s.oc - 1)
  PROVE  {pair \in Meets(s, Taken(s, r), o) : pair[2] # Zero} = Convolution(s, r, o)
<1> DEFINE K == 0..(WindowSize(s) - 1)
           J == (0..(s.ic - 1)) \X (0..(s.kw - 1))
           base == o * WindowSize(s)
           Meet(k) == <<base + Source(s, k), Taken(s, r)[k]>>
           Term(c, j) == <<base + c * s.kw + j, FrameOf(s, r, j) * s.ic + c>>
           Real(j) == FrameOf(s, r, j) \in 0..(s.frames - 1)
           met == {pair \in Meets(s, Taken(s, r), o) : pair[2] # Zero}
<1>0. s.kw \in Nat \ {0} /\ s.ic \in Nat \ {0} /\ WindowSize(s) \in Nat /\ o \in Nat
  BY ShapeIs
<1>1. base \in Nat
  BY <1>0
<1>2. Meets(s, Taken(s, r), o) = {Meet(k) : k \in K}
  BY DEF Meets
<1>3. \A e : e \in Convolution(s, r, o) <=> \E c \in 0..(s.ic - 1), j \in 0..(s.kw - 1) : Real(j) /\ e = Term(c, j)
  <2>1. Convolution(s, r, o) = {Term(x[1], x[2]) : x \in {y \in J : Real(y[2])}}
    BY DEF Convolution, FrameOf
  <2> HIDE DEF Term, Real
  <2>2. ASSUME NEW c \in 0..(s.ic - 1), NEW j \in 0..(s.kw - 1), Real(j)
        PROVE  Term(c, j) \in Convolution(s, r, o)
    <3> DEFINE x == <<c, j>>
    <3>1. x \in J /\ x[1] = c /\ x[2] = j
      OBVIOUS
    <3> HIDE DEF x, J
    <3> QED BY <2>1, <2>2, <3>1
  <2>3. ASSUME NEW e \in Convolution(s, r, o)
        PROVE  \E c \in 0..(s.ic - 1), j \in 0..(s.kw - 1) : Real(j) /\ e = Term(c, j)
    <3>1. PICK x \in J : Real(x[2]) /\ e = Term(x[1], x[2])
      BY <2>1
    <3>2. x[1] \in 0..(s.ic - 1) /\ x[2] \in 0..(s.kw - 1)
      OBVIOUS
    <3> QED BY <3>1, <3>2
  <2> QED BY <2>2, <2>3
<1> HIDE DEF base
<1>4. ASSUME NEW k \in K
      PROVE  /\ Channel(s, k) \in 0..(s.ic - 1) /\ Tap(s, k) \in 0..(s.kw - 1)
             /\ Real(Tap(s, k)) => Meet(k) = Term(Channel(s, k), Tap(s, k)) /\ Meet(k)[2] # Zero
             /\ ~Real(Tap(s, k)) => Meet(k)[2] = Zero
  <2> DEFINE c == Channel(s, k)
             j == Tap(s, k)
             f == FrameOf(s, r, j)
  <2>1. c \in 0..(s.ic - 1) /\ j \in 0..(s.kw - 1) /\ Source(s, k) = c * s.kw + j
    BY TapsAre
  <2>2. Taken(s, r)[k] = IF Real(j) THEN f * s.ic + c ELSE Zero
    BY BytesAre DEF ByteOf
  <2>3. Real(j) => f * s.ic + c \in Nat
    BY <1>0, <2>1
  <2> HIDE DEF c, j, f
  <2>4. c * s.kw \in Nat /\ base + (c * s.kw + j) = base + c * s.kw + j
    BY <1>0, <1>1, <2>1
  <2>5. Real(j) => Meet(k) = <<base + c * s.kw + j, f * s.ic + c>>
    BY <2>1, <2>2, <2>4
  <2>6. Zero \notin Nat
    BY DEF Zero
  <2>7. Meet(k)[2] = Taken(s, r)[k]
    OBVIOUS
  <2>8. (Real(j) => Meet(k)[2] # Zero) /\ (~Real(j) => Meet(k)[2] = Zero)
    <3> HIDE DEF Meet, Real
    <3> QED BY <2>2, <2>3, <2>6, <2>7
  <2> QED BY <2>1, <2>5, <2>8 DEF c, j, f
<1> HIDE DEF Real, Term, Meet
<1>5. ASSUME NEW e \in met PROVE e \in Convolution(s, r, o)
  <2>1. PICK k \in K : e = Meet(k)
    BY <1>2
  <2>2. e[2] # Zero
    OBVIOUS
  <2> QED BY <1>3, <1>4, <2>1, <2>2
<1>6. ASSUME NEW e \in Convolution(s, r, o) PROVE e \in met
  <2>1. PICK c \in 0..(s.ic - 1), j \in 0..(s.kw - 1) : Real(j) /\ e = Term(c, j)
    BY <1>3
  <2>2. PICK k \in K : Channel(s, k) = c /\ Tap(s, k) = j
    BY TapsAre
  <2>3. Meet(k) = e /\ e[2] # Zero
    BY <1>4, <2>1, <2>2
  <2> QED BY <1>2, <2>3
<1> QED BY <1>5, <1>6

(***************************************************************************)
(* The inductive invariant: the frames before row are whole, and summed    *)
(* once; the others are as they were.                                      *)
(***************************************************************************)
Portion == UpDiv(Rows(shape), nth)

GemmTypes ==
  /\ shape \in Shapes /\ nth \in Threads /\ route \in {"conv", "packed", "tile", "blocks"}
  /\ ith \in -1..nth /\ row \in Nat

Turn ==
  /\ ith = -1 => row = 0
  /\ ith \in 0..(nth - 1) => Portion * ith <= row /\ row <= Portion * ith + Portion
  /\ ith = nth => Rows(shape) <= row

PackIs == ith # -1 /\ route \in {"conv", "packed"} => pack = PackOf(shape)

SumsAre ==
  sums = [cell \in Cells(shape) |->
            IF cell[1] < row THEN Meets(shape, Taken(shape, cell[1]), cell[2]) ELSE {}]
WritesAre == writes = [cell \in Cells(shape) |-> IF cell[1] < row THEN 1 ELSE 0]

GemmInv == GemmTypes /\ Turn /\ PackIs /\ SumsAre /\ WritesAre

LEMMA RowsAre ==
  ASSUME NEW s \in Shapes PROVE Rows(s) \in Nat \ {0}
<1>1. s.frames \in Nat \ {0} /\ s.stride \in Nat \ {0}
  BY ShapeIs
<1>2. CASE s.frames < s.stride
  BY <1>2 DEF Rows
<1>3. CASE ~(s.frames < s.stride)
  <2>1. s.frames - s.stride \in Nat
    BY <1>1, <1>3
  <2>2. (s.frames - s.stride) \div s.stride \in Nat
    BY <1>1, <2>1, DivisionBounds
  <2> QED BY <1>3, <2>2 DEF Rows
<1> QED BY <1>2, <1>3

LEMMA PortionIs ==
  ASSUME GemmTypes
  PROVE  Portion \in Nat /\ Rows(shape) \in Nat \ {0} /\ nth \in Nat \ {0} /\ Rows(shape) <= Portion * nth
<1>1. Rows(shape) \in Nat \ {0} /\ nth \in Nat \ {0}
  BY RowsAre, GemmAssumption DEF GemmTypes
<1>2. Portion \in Nat /\ Rows(shape) <= nth * Portion
  BY <1>1, UpDivIs DEF Portion
<1>3. nth * Portion = Portion * nth
  BY <1>1, <1>2
<1> QED BY <1>1, <1>2, <1>3

\* A call settles the frames it is given.
LEMMA CallSettles ==
  ASSUME GemmTypes, PackIs, SumsAre, WritesAre, ith # -1,
         NEW upto \in Nat, row < upto, upto <= Rows(shape), NEW acts,
         \A r \in row..(upto - 1) : acts[r] = Taken(shape, r),
         Gemm(row, upto, acts)
  PROVE  /\ sums' = [cell \in Cells(shape) |->
                       IF cell[1] < upto THEN Meets(shape, Taken(shape, cell[1]), cell[2]) ELSE {}]
         /\ writes' = [cell \in Cells(shape) |-> IF cell[1] < upto THEN 1 ELSE 0]
<1> DEFINE nr == upto - row
           rects == Rects(nr, shape.oc)
           Hits(cell) == Cardinality({rect \in rects : <<cell[1] - row, cell[2]>> \in rect})
           Sum(cell) == IF route \in {"conv", "packed"}
                        THEN PackedSum(shape, acts[cell[1]], cell[2])
                        ELSE DotSum(shape, acts[cell[1]], cell[2])
           Final(cell) == Meets(shape, Taken(shape, cell[1]), cell[2])
<1>0. shape \in Shapes /\ row \in Nat /\ shape.oc \in Nat \ {0} /\ Rows(shape) \in Nat \ {0}
  BY ShapeIs, RowsAre DEF GemmTypes
<1>1. /\ sums' = [cell \in Cells(shape) |-> IF Hits(cell) > 0 THEN Sum(cell) ELSE sums[cell]]
      /\ writes' = [cell \in Cells(shape) |-> writes[cell] + Hits(cell)]
  BY DEF Gemm
<1>2. nr \in Nat \ {0}
  BY <1>0
<1>3. Tiles(rects, nr, shape.oc)
  BY <1>0, <1>2, AnyTiles
<1>4. ASSUME NEW cell \in Cells(shape)
      PROVE  /\ cell[1] \in 0..(Rows(shape) - 1) /\ cell[2] \in 0..(shape.oc - 1)
             /\ Hits(cell) = IF row <= cell[1] /\ cell[1] < upto THEN 1 ELSE 0
             /\ row <= cell[1] /\ cell[1] < upto => Sum(cell) = Final(cell)
  <2>1. cell[1] \in 0..(Rows(shape) - 1) /\ cell[2] \in 0..(shape.oc - 1)
    BY DEF Cells
  <2> HIDE DEF rects
  <2> DEFINE a == cell[1] - row
             b == cell[2]
  <2>2. a \in Int /\ b \in 0..(shape.oc - 1) /\ nr \in Nat /\ shape.oc \in Nat
    BY <1>0, <1>2, <2>1
  <2>3. a \in 0..(nr - 1) <=> row <= cell[1] /\ cell[1] < upto
    BY <1>0, <1>2, <2>1
  <2> HIDE DEF a, b, nr
  <2>4. Cardinality({rect \in rects : <<a, b>> \in rect}) = IF a \in 0..(nr - 1) THEN 1 ELSE 0
    BY <1>3, <2>2, HitsOnce
  <2>5. Hits(cell) = IF row <= cell[1] /\ cell[1] < upto THEN 1 ELSE 0
    BY <2>3, <2>4 DEF a, b
  <2>6. ASSUME row <= cell[1], cell[1] < upto PROVE Sum(cell) = Final(cell)
    <3>1. cell[1] \in row..(upto - 1)
      BY <1>0, <2>1, <2>6
    <3>2. acts[cell[1]] = Taken(shape, cell[1])
      BY <3>1
    <3>3. CASE route \in {"conv", "packed"}
      <4>1. pack = PackOf(shape)
        BY <3>3 DEF PackIs
      <4>2. PackedSum(shape, acts[cell[1]], cell[2]) = Meets(shape, acts[cell[1]], cell[2])
        BY <1>0, <2>1, <4>1, PackedSumMeets
      <4> QED BY <3>2, <3>3, <4>2
    <3>4. CASE route \notin {"conv", "packed"}
      <4>1. DotSum(shape, acts[cell[1]], cell[2]) = Meets(shape, acts[cell[1]], cell[2])
        BY <1>0, <2>1, <3>4, DotSumMeets
      <4> QED BY <3>2, <3>4, <4>1
    <3> QED BY <3>3, <3>4
  <2> QED BY <2>1, <2>5, <2>6
<1> HIDE DEF Hits, Sum, Final, nr, rects
<1>5. sums = [cell \in Cells(shape) |-> IF cell[1] < row THEN Final(cell) ELSE {}]
  BY DEF SumsAre, Final
<1>6. ASSUME NEW cell \in Cells(shape)
      PROVE  /\ (IF Hits(cell) > 0 THEN Sum(cell) ELSE sums[cell]) = IF cell[1] < upto THEN Final(cell) ELSE {}
             /\ writes[cell] + Hits(cell) = IF cell[1] < upto THEN 1 ELSE 0
  <2>1. sums[cell] = IF cell[1] < row THEN Final(cell) ELSE {}
    BY <1>5
  <2>2. writes[cell] = IF cell[1] < row THEN 1 ELSE 0
    BY DEF WritesAre
  <2>3. CASE row <= cell[1] /\ cell[1] < upto
    <3>1. Hits(cell) = 1 /\ Sum(cell) = Final(cell) /\ ~(cell[1] < row)
      BY <1>0, <1>4, <2>3
    <3> QED BY <2>2, <2>3, <3>1
  <2>4. CASE ~(row <= cell[1] /\ cell[1] < upto)
    <3>1. Hits(cell) = 0 /\ (cell[1] < row <=> cell[1] < upto)
      BY <1>0, <1>4, <2>4
    <3> QED BY <2>1, <2>2, <3>1
  <2> QED BY <2>3, <2>4
<1>7. sums' = [cell \in Cells(shape) |-> IF cell[1] < upto THEN Final(cell) ELSE {}]
  BY <1>1, <1>6
<1>8. writes' = [cell \in Cells(shape) |-> IF cell[1] < upto THEN 1 ELSE 0]
  BY <1>1, <1>6
<1> QED BY <1>7, <1>8 DEF Final

LEMMA GemmStarts == GemmInit => GemmInv
<1> SUFFICES ASSUME GemmInit PROVE GemmInv
  OBVIOUS
<1>1. shape \in Shapes /\ nth \in Threads /\ nth \in Nat \ {0} /\ Rows(shape) \in Nat \ {0}
  BY RowsAre, GemmAssumption DEF GemmInit
<1>2. GemmTypes
  BY <1>1 DEF GemmInit, GemmTypes
<1>3. Turn
  BY <1>1 DEF GemmInit, Turn
<1>4. PackIs
  BY DEF GemmInit, PackIs
<1>5. \A cell \in Cells(shape) : ~(cell[1] < 0)
  BY <1>1 DEF Cells
<1>6. row = 0 /\ sums = [cell \in Cells(shape) |-> {}] /\ writes = [cell \in Cells(shape) |-> 0]
  BY DEF GemmInit
<1>7. SumsAre
  BY <1>5, <1>6 DEF SumsAre
<1>8. WritesAre
  BY <1>5, <1>6 DEF WritesAre
<1> QED BY <1>2, <1>3, <1>4, <1>7, <1>8 DEF GemmInv

\* The frames a thread ends with.
LEMMA UptoIs ==
  ASSUME GemmTypes, ith \in 0..(nth - 1)
  PROVE  /\ Upto(ith) \in Nat /\ Upto(ith) <= Rows(shape) /\ Upto(ith) <= Portion * ith + Portion
         /\ Upto(ith) \in {Rows(shape), Portion * ith + Portion}
         /\ Portion * ith \in Nat
<1>1. Portion \in Nat /\ Rows(shape) \in Nat /\ nth \in Nat \ {0}
  BY PortionIs
<1>2. ith \in Nat
  BY <1>1
<1>3. Portion * ith \in Nat
  BY <1>1, <1>2
<1>4. Upto(ith) = Smaller(Portion * ith + Portion, Rows(shape))
  BY DEF Upto, First, Portion
<1> DEFINE a == Portion * ith
<1> HIDE DEF a
<1>5. Upto(ith) = Smaller(a + Portion, Rows(shape)) /\ a \in Nat
  BY <1>3, <1>4 DEF a
<1> QED BY <1>1, <1>5 DEF Smaller, a

\* The frames of a call: from row on, within the thread's.
LEMMA RowsSettled ==
  ASSUME GemmInv, ith \in 0..(nth - 1), NEW upto \in Nat, row < upto, upto <= Upto(ith), NEW acts,
         \A r \in row..(upto - 1) : acts[r] = Taken(shape, r),
         Gemm(row, upto, acts), row' = upto, UNCHANGED <<shape, route, nth, pack, ith>>
  PROVE  GemmInv'
<1>1. /\ Upto(ith) \in Nat /\ Upto(ith) <= Rows(shape) /\ Upto(ith) <= Portion * ith + Portion
      /\ Portion * ith \in Nat
  BY UptoIs DEF GemmInv
<1>2. /\ ith # -1 /\ upto <= Rows(shape) /\ Rows(shape) \in Nat /\ nth \in Nat \ {0} /\ Portion \in Nat
  <2>1. Portion \in Nat /\ Rows(shape) \in Nat \ {0} /\ nth \in Nat \ {0}
    BY PortionIs DEF GemmInv
  <2> QED BY <1>1, <2>1
<1>3. /\ sums' = [cell \in Cells(shape) |->
                    IF cell[1] < upto THEN Meets(shape, Taken(shape, cell[1]), cell[2]) ELSE {}]
      /\ writes' = [cell \in Cells(shape) |-> IF cell[1] < upto THEN 1 ELSE 0]
  BY <1>2, CallSettles DEF GemmInv
<1>4. GemmTypes'
  BY DEF GemmInv, GemmTypes
<1>5. Turn'
  <2>1. ith' = ith /\ row' = upto /\ Portion' = Portion /\ ith # nth /\ nth' = nth
    BY <1>2 DEF Portion
  <2>2. Portion * ith <= row /\ row \in Nat
    BY DEF GemmInv, Turn, GemmTypes
  <2> DEFINE a == Portion * ith
  <2>3. a \in Nat /\ a <= row /\ upto <= a + Portion
    BY <1>1, <1>2, <2>2
  <2>4. a' = a
    BY <2>1
  <2> HIDE DEF a
  <2>5. a <= upto /\ upto <= a + Portion
    BY <1>2, <2>2, <2>3
  <2> QED BY <1>2, <2>1, <2>5 DEF Turn, a
<1>6. PackIs'
  <2>1. PackOf(shape)' = PackOf(shape)
    BY DEF PackOf, Source
  <2> QED BY <2>1 DEF GemmInv, PackIs
<1>7. SumsAre'
  BY <1>3 DEF SumsAre, Meets, Taken, Source
<1>8. WritesAre'
  BY <1>3 DEF WritesAre
<1> QED BY <1>4, <1>5, <1>6, <1>7, <1>8 DEF GemmInv

LEMMA GemmSteps == GemmInv /\ [GemmNext]_gemmVars => GemmInv'
<1> SUFFICES ASSUME GemmInv, [GemmNext]_gemmVars PROVE GemmInv'
  OBVIOUS
<1>0. /\ shape \in Shapes /\ row \in Nat /\ nth \in Nat \ {0} /\ Rows(shape) \in Nat \ {0} /\ Portion \in Nat
      /\ Rows(shape) <= Portion * nth
  BY PortionIs DEF GemmInv, GemmTypes
<1>1. CASE GetPack
  <2>1. UNCHANGED <<shape, route, nth, sums, writes>> /\ ith = -1 /\ ith' = 0 /\ row' = First(0) /\ row = 0
    BY <1>1 DEF GetPack, GemmInv, Turn
  <2>2. First(0) = 0 /\ Portion * 0 = 0
    BY <1>0 DEF First, Portion
  <2>3. GemmTypes'
    BY <1>0, <2>1, <2>2 DEF GemmInv, GemmTypes
  <2>4. Turn'
    BY <1>0, <2>1, <2>2 DEF Turn, Portion
  <2>5. PackIs'
    BY <1>1, <2>1 DEF GetPack, PackIs, PackOf, Source
  <2>6. SumsAre'
    BY <2>1, <2>2 DEF GemmInv, SumsAre, Meets, Taken, Source
  <2>7. WritesAre'
    BY <2>1, <2>2 DEF GemmInv, WritesAre
  <2> QED BY <2>3, <2>4, <2>5, <2>6, <2>7 DEF GemmInv
<1>2. ASSUME Working
      PROVE  ith \in 0..(nth - 1) /\ row < Upto(ith) /\ Upto(ith) \in Nat
  BY <1>2, UptoIs DEF GemmInv, Working
<1>3. CASE PadRow
  <2> DEFINE acts == [r \in {row} |-> PadBuf(shape, r)]
             upto == row + 1
  <2>1. Working /\ route = "conv" /\ row * shape.stride < Lead(shape) /\ Gemm(row, upto, acts)
    BY <1>3 DEF PadRow
  <2>2. \A r \in row..(upto - 1) : acts[r] = Taken(shape, r)
    <3>1. \A r \in row..(upto - 1) : r = row
      BY <1>0
    <3>2. acts[row] = PadBuf(shape, row) /\ Taken(shape, row) = PadBuf(shape, row)
      BY <2>1 DEF Taken
    <3> QED BY <3>1, <3>2
  <2>3. upto \in Nat /\ row < upto /\ upto <= Upto(ith)
    BY <1>0, <1>2, <2>1
  <2>4. row' = upto /\ UNCHANGED <<shape, route, nth, pack, ith>>
    BY <1>3 DEF PadRow
  <2> HIDE DEF acts, upto
  <2> QED BY <1>2, <2>1, <2>2, <2>3, <2>4, RowsSettled
<1>4. CASE DirectRows
  <2> DEFINE acts == [r \in row..(Upto(ith) - 1) |-> Window(shape, r)]
  <2>1. Working /\ route = "conv" /\ row * shape.stride >= Lead(shape) /\ Gemm(row, Upto(ith), acts)
    BY <1>4 DEF DirectRows
  <2>2. \A r \in row..(Upto(ith) - 1) : acts[r] = Taken(shape, r)
    <3>1. ASSUME NEW r \in row..(Upto(ith) - 1) PROVE ~(r * shape.stride < Lead(shape))
      <4>1. shape.stride \in Nat /\ Lead(shape) \in Int /\ r \in Nat /\ row <= r
        <5>1. shape.kw \in Nat /\ shape.stride \in Nat
          BY <1>0, ShapeIs
        <5> QED BY <1>0, <1>2, <2>1, <5>1 DEF Lead
      <4>2. shape.stride * row <= shape.stride * r
        BY <1>0, <4>1, ProductMonotone
      <4>3. shape.stride * row = row * shape.stride /\ shape.stride * r = r * shape.stride
            /\ row * shape.stride \in Nat /\ r * shape.stride \in Nat
        BY <1>0, <4>1
      <4> QED BY <2>1, <4>1, <4>2, <4>3
    <3>2. \A r \in row..(Upto(ith) - 1) : acts[r] = Window(shape, r)
      OBVIOUS
    <3> HIDE DEF acts
    <3> QED BY <2>1, <3>1, <3>2 DEF Taken
  <2> HIDE DEF acts
  <2>3. row' = Upto(ith) /\ UNCHANGED <<shape, route, nth, pack, ith>>
    BY <1>4 DEF DirectRows
  <2>4. Upto(ith) <= Upto(ith)
    BY <1>2, <2>1
  <2> QED BY <1>2, <2>1, <2>2, <2>3, <2>4, RowsSettled
<1>5. CASE LinearRows
  <2> DEFINE acts == [r \in row..(Upto(ith) - 1) |-> ImToCol(shape, r)]
  <2>1. Working /\ route # "conv" /\ Gemm(row, Upto(ith), acts)
    BY <1>5 DEF LinearRows
  <2>2. \A r \in row..(Upto(ith) - 1) : acts[r] = Taken(shape, r)
    BY <2>1 DEF Taken
  <2> HIDE DEF acts
  <2>3. row' = Upto(ith) /\ UNCHANGED <<shape, route, nth, pack, ith>>
    BY <1>5 DEF LinearRows
  <2>4. Upto(ith) <= Upto(ith)
    BY <1>2, <2>1
  <2> QED BY <1>2, <2>1, <2>2, <2>3, <2>4, RowsSettled
<1>6. CASE NextThread
  <2>1. /\ ith \in 0..(nth - 1) /\ ~(row < Upto(ith)) /\ ith' = ith + 1
        /\ row' = IF ith + 1 < nth THEN First(ith + 1) ELSE row
        /\ UNCHANGED <<shape, route, nth, pack, sums, writes>>
    BY <1>6 DEF NextThread, Working
  <2>2. /\ Upto(ith) \in {Rows(shape), Portion * ith + Portion} /\ Portion * ith \in Nat
    BY <2>1, UptoIs DEF GemmInv
  <2>3. row <= Portion * ith + Portion
    BY <2>1 DEF GemmInv, Turn
  <2>4. First(ith + 1) = Portion * ith + Portion
    <3>1. ith \in Nat
      BY <1>0, <2>1
    <3>2. Portion * (ith + 1) = Portion * ith + Portion
      BY <1>0, <3>1
    <3> QED BY <3>2 DEF First, Portion
  <2> DEFINE ends == Portion * ith + Portion
  <2>5. ends \in Nat /\ row <= ends /\ (row = ends \/ Rows(shape) <= row)
    BY <1>0, <2>1, <2>2, <2>3
  <2>6. ith + 1 = nth => Rows(shape) <= ends
    <3>1. ASSUME ith + 1 = nth PROVE Portion * nth = ends
      BY <1>0, <2>1, <3>1
    <3> QED BY <1>0, <3>1
  <2> HIDE DEF ends
  <2>7. row' = IF ith + 1 < nth THEN ends ELSE row
    BY <2>1, <2>4 DEF ends
  <2>8. \A cell \in Cells(shape) : cell[1] < row' <=> cell[1] < row
    <3>1. \A cell \in Cells(shape) : cell[1] \in Nat /\ cell[1] < Rows(shape)
      BY <1>0 DEF Cells
    <3> QED BY <1>0, <2>5, <2>7, <3>1
  <2>9. GemmTypes'
    BY <1>0, <2>1, <2>5, <2>7 DEF GemmInv, GemmTypes
  <2>10. Turn'
    <3>1. Portion' = Portion /\ nth' = nth /\ Rows(shape)' = Rows(shape) /\ ith' = ith + 1
      BY <2>1 DEF Portion, Rows
    <3>2. ith + 1 \in 1..nth
      BY <1>0, <2>1
    <3>3. ith + 1 < nth => Portion * (ith + 1) = ends /\ row' = ends
      <4>1. Portion * (ith + 1) = ends
        BY <2>4 DEF First, Portion, ends
      <4> QED BY <2>7, <4>1
    <3>4. ith + 1 = nth => Rows(shape) <= row'
      BY <1>0, <2>5, <2>6, <2>7, <3>2
    <3> QED BY <1>0, <2>5, <3>1, <3>2, <3>3, <3>4 DEF Turn
  <2>11. PackIs'
    BY <1>0, <2>1 DEF GemmInv, PackIs, PackOf, Source
  <2>12. SumsAre'
    BY <2>1, <2>8 DEF GemmInv, SumsAre, Meets, Taken, Source
  <2>13. WritesAre'
    BY <2>1, <2>8 DEF GemmInv, WritesAre
  <2> QED BY <2>9, <2>10, <2>11, <2>12, <2>13 DEF GemmInv
<1>7. CASE UNCHANGED gemmVars
  <2>1. UNCHANGED <<shape, route, nth, pack, ith, row, sums, writes>>
    BY <1>7 DEF gemmVars
  <2>2. GemmTypes' /\ Turn'
    BY <2>1 DEF GemmInv, GemmTypes, Turn, Portion
  <2>3. PackIs'
    BY <2>1 DEF GemmInv, PackIs, PackOf, Source
  <2>4. SumsAre' /\ WritesAre'
    BY <2>1 DEF GemmInv, SumsAre, WritesAre, Meets, Taken, Source
  <2> QED BY <2>2, <2>3, <2>4 DEF GemmInv
<1> QED BY <1>1, <1>3, <1>4, <1>5, <1>6, <1>7 DEF GemmNext

LEMMA GemmInvOnce == GemmInv => EveryCellOnce
<1> SUFFICES ASSUME GemmInv, NEW cell \in Cells(shape)
             PROVE  writes[cell] <= 1 /\ (ith = nth => writes[cell] = 1)
  BY DEF EveryCellOnce
<1>1. writes[cell] = IF cell[1] < row THEN 1 ELSE 0
  BY DEF GemmInv, WritesAre
<1>2. ith = nth => cell[1] < row
  <2>1. row \in Nat /\ Rows(shape) \in Nat /\ (ith = nth => Rows(shape) <= row)
    BY PortionIs DEF GemmInv, GemmTypes, Turn
  <2>2. cell[1] \in 0..(Rows(shape) - 1)
    BY DEF Cells
  <2> QED BY <2>1, <2>2
<1> QED BY <1>1, <1>2

LEMMA GemmInvSums == GemmInv => SumsAreConvolution
<1> SUFFICES ASSUME GemmInv, shape.frames >= shape.stride, ith = nth, NEW cell \in Cells(shape)
             PROVE  Products(cell) = Convolution(shape, cell[1], cell[2])
  BY DEF SumsAreConvolution, Agrees
<1>1. cell[1] \in 0..(Rows(shape) - 1) /\ cell[2] \in 0..(shape.oc - 1) /\ shape \in Shapes
  BY DEF Cells, GemmInv, GemmTypes
<1>2. cell[1] < row
  <2>1. row \in Nat /\ Rows(shape) \in Nat /\ Rows(shape) <= row
    BY PortionIs DEF GemmInv, GemmTypes, Turn
  <2> QED BY <1>1, <2>1
<1>3. sums[cell] = Meets(shape, Taken(shape, cell[1]), cell[2])
  BY <1>2 DEF GemmInv, SumsAre
<1>4. {pair \in Meets(shape, Taken(shape, cell[1]), cell[2]) : pair[2] # Zero}
        = Convolution(shape, cell[1], cell[2])
  BY <1>1, MeetsConvolution
<1> QED BY <1>3, <1>4 DEF Products

(***************************************************************************)
(* Whatever the route, the shape and the number of threads, the threads'   *)
(* frames and the kernels' whole and ragged rectangles write every cell of *)
(* a convolution's result, and none of them twice.                         *)
(***************************************************************************)
THEOREM OneWriteEach == GemmSpec => []EveryCellOnce
<1>1. GemmSpec => []GemmInv
  BY GemmStarts, GemmSteps, PTL DEF GemmSpec
<1> QED BY <1>1, GemmInvOnce, PTL

(***************************************************************************)
(* From the packed weights in the order of the frames, from padded frames  *)
(* or windows read in place, or behind im2col: every cell multiplies the   *)
(* bytes of the causal convolution, and no others but padding zeros, for   *)
(* every signal of at least a stride of frames.                            *)
(***************************************************************************)
THEOREM RoutesSumConvolution == GemmSpec => []SumsAreConvolution
<1>1. GemmSpec => []GemmInv
  BY GemmStarts, GemmSteps, PTL DEF GemmSpec
<1> QED BY <1>1, GemmInvSums, PTL

(***************************************************************************)
(* The positions of a register that a column is read from are its own.     *)
(***************************************************************************)
LEMMA Neighbours ==
  ASSUME NEW v
  PROVE  /\ HAdd(v)[0] = v[0] \cup v[1] /\ HAdd(v)[1] = v[2] \cup v[3]
         /\ HAdd(v)[4] = v[4] \cup v[5] /\ HAdd(v)[5] = v[6] \cup v[7]
<1> DEFINE h(i) == 4 * (i \div 4) + 2 * (i % 2)
<1>1. h(0) = 0 /\ h(1) = 2 /\ h(4) = 4 /\ h(5) = 6
  OBVIOUS
<1>2. HAdd(v) = [i \in 0..7 |-> v[h(i)] \cup v[h(i) + 1]]
  BY DEF HAdd
<1>3. \A i \in 0..7 : HAdd(v)[i] = v[h(i)] \cup v[h(i) + 1]
  BY <1>2
<1> HIDE DEF h
<1>4. 0 \in 0..7 /\ 1 \in 0..7 /\ 4 \in 0..7 /\ 5 \in 0..7
  OBVIOUS
<1>5. 0 + 1 = 1 /\ 2 + 1 = 3 /\ 4 + 1 = 5 /\ 6 + 1 = 7
  OBVIOUS
<1> QED BY <1>1, <1>3, <1>4, <1>5

LEMMA Words4 ==
  /\ Dwords[0] = 0..3 /\ Dwords[1] = 4..7 /\ Dwords[2] = 8..11 /\ Dwords[3] = 12..15
  /\ Dwords[4] = 16..19 /\ Dwords[5] = 20..23 /\ Dwords[6] = 24..27 /\ Dwords[7] = 28..31
<1>1. \A i \in 0..7 : Dwords[i] = (4 * i)..(4 * i + 3)
  BY DEF Dwords
<1> QED BY <1>1

LEMMA Halves ==
  /\ HAdd(Dwords)[0] = 0..7 /\ HAdd(Dwords)[1] = 8..15
  /\ HAdd(Dwords)[4] = 16..23 /\ HAdd(Dwords)[5] = 24..31
<1>1. /\ 0..7 = 0..3 \cup 4..7 /\ 8..15 = 8..11 \cup 12..15
      /\ 16..23 = 16..19 \cup 20..23 /\ 24..31 = 24..27 \cup 28..31
  OBVIOUS
<1> QED BY <1>1, Words4, Neighbours

LEMMA Quarters == HAdd(HAdd(Dwords))[0] = 0..15 /\ HAdd(HAdd(Dwords))[4] = 16..31
<1>1. 0..15 = 0..7 \cup 8..15 /\ 16..31 = 16..23 \cup 24..31
  OBVIOUS
<1> QED BY <1>1, Halves, Neighbours

Wide16 == {"n4_col8", "n8_col4", "n16_col2", "n2_col16", "n4_col2", "n2_col4"}

LEMMA LanesOwn ==
  ASSUME NEW k \in Wide16, NEW c \in 0..(Columns(k) - 1)
  PROVE  LanesOf(k)[c] = (c * Bytes(k))..(c * Bytes(k) + Bytes(k) - 1)
<1>1. CASE k = "n4_col8"
  <2>1. Bytes(k) = 4 /\ Columns(k) = 8 /\ LanesOf(k) = N4Col8
    BY <1>1 DEF Bytes, Columns, LanesOf
  <2>2. c \in 0..7
    BY <2>1
  <2> QED BY <2>1, <2>2 DEF N4Col8, Dwords
<1>2. CASE k = "n8_col4"
  <2>1. Bytes(k) = 8 /\ Columns(k) = 4 /\ LanesOf(k) = N8Col4
    BY <1>2 DEF Bytes, Columns, LanesOf
  <2>2. c \in 0..3
    BY <2>1
  <2>3. N8Col4[c] = HAdd(Dwords)[<<0, 1, 4, 5>>[c + 1]]
    BY <2>2 DEF N8Col4
  <2>4. N8Col4[c] = (c * 8)..(c * 8 + 8 - 1)
    <3>1. CASE c = 0
      BY <2>3, <3>1, Halves
    <3>2. CASE c = 1
      BY <2>3, <3>2, Halves
    <3>3. CASE c = 2
      BY <2>3, <3>3, Halves
    <3>4. CASE c = 3
      BY <2>3, <3>4, Halves
    <3> QED BY <2>2, <3>1, <3>2, <3>3, <3>4
  <2> QED BY <2>1, <2>4
<1>3. CASE k = "n16_col2"
  <2>1. Bytes(k) = 16 /\ Columns(k) = 2 /\ LanesOf(k) = N16Col2
    BY <1>3 DEF Bytes, Columns, LanesOf
  <2>2. c \in 0..1
    BY <2>1
  <2>3. N16Col2[c] = HAdd(HAdd(Dwords))[<<0, 4>>[c + 1]]
    BY <2>2 DEF N16Col2
  <2>4. N16Col2[c] = (c * 16)..(c * 16 + 16 - 1)
    <3>1. CASE c = 0
      BY <2>3, <3>1, Quarters
    <3>2. CASE c = 1
      BY <2>3, <3>2, Quarters
    <3> QED BY <2>2, <3>1, <3>2
  <2> QED BY <2>1, <2>4
<1>4. CASE k = "n2_col16"
  <2>1. Bytes(k) = 2 /\ Columns(k) = 16 /\ LanesOf(k) = N2Col16
    BY <1>4 DEF Bytes, Columns, LanesOf
  <2>2. c \in 0..15
    BY <2>1
  <2>3. {2 * c, 2 * c + 1} = (c * 2)..(c * 2 + 2 - 1)
    BY <2>2
  <2> QED BY <2>1, <2>2, <2>3 DEF N2Col16
<1>5. CASE k = "n4_col2"
  <2>1. Bytes(k) = 4 /\ Columns(k) = 2 /\ LanesOf(k) = N4Col2
    BY <1>5 DEF Bytes, Columns, LanesOf
  <2>2. c \in 0..1
    BY <2>1
  <2> QED BY <2>1, <2>2 DEF N4Col2
<1>6. CASE k = "n2_col4"
  <2>1. Bytes(k) = 2 /\ Columns(k) = 4 /\ LanesOf(k) = N2Col4
    BY <1>6 DEF Bytes, Columns, LanesOf
  <2>2. c \in 0..3
    BY <2>1
  <2>3. {2 * c, 2 * c + 1} = (c * 2)..(c * 2 + 2 - 1)
    BY <2>2
  <2> QED BY <2>1, <2>2, <2>3 DEF N2Col4
<1> QED BY <1>1, <1>2, <1>3, <1>4, <1>5, <1>6 DEF Wide16

LEMMA SizesAre ==
  ASSUME NEW k \in Kernels PROVE Bytes(k) \in Nat \ {0} /\ Columns(k) \in Nat \ {0}
<1>1. k \in {"n4_col8", "n8_col4", "n16_col2", "n2_col16", "n4_col2", "n2_col4", "batch_n8"}
  BY SmallAssumption
<1> QED BY <1>1 DEF Bytes, Columns

(***************************************************************************)
(* The products of a cell.                                                 *)
(***************************************************************************)
CellSum(n, r, c, t) == {<<<<c * n + k, r * n + k>>, t>> : k \in 0..(n - 1)}

LEMMA CellSumIs ==
  ASSUME NEW n \in Nat, NEW r \in Nat, NEW c \in Nat, NEW t
  PROVE  /\ {x[1] : x \in CellSum(n, r, c, t)} = {<<c * n + k, r * n + k>> : k \in 0..(n - 1)}
         /\ Cardinality(CellSum(n, r, c, t)) = n
<1> DEFINE Term(k) == <<<<c * n + k, r * n + k>>, t>>
           S == 0..(n - 1)
           f == [k \in S |-> Term(k)]
           d == c * n
<1>1. CellSum(n, r, c, t) = {Term(k) : k \in S}
  BY DEF CellSum
<1>2. \A k \in S : Term(k)[1] = <<c * n + k, r * n + k>>
  OBVIOUS
<1>3. {x[1] : x \in CellSum(n, r, c, t)} = {<<c * n + k, r * n + k>> : k \in S}
  <2> HIDE DEF Term
  <2> QED BY <1>1, <1>2
<1>4. d \in Nat
  OBVIOUS
<1> HIDE DEF d
<1>5. ASSUME NEW j \in S, NEW k \in S, Term(j) = Term(k) PROVE j = k
  <2>1. d + j = d + k
    BY <1>5 DEF d
  <2> QED BY <1>4, <2>1
<1> HIDE DEF Term
<1>6. f \in Bijection(S, CellSum(n, r, c, t))
  <2>1. f \in [S -> CellSum(n, r, c, t)] /\ \A k \in S : f[k] = Term(k)
    BY <1>1
  <2> HIDE DEF f
  <2>2. \A j, k \in S : f[j] = f[k] => j = k
    BY <1>5, <2>1
  <2>3. \A e \in CellSum(n, r, c, t) : \E k \in S : f[k] = e
    BY <1>1, <2>1
  <2> HIDE DEF S
  <2> QED BY <2>1, <2>2, <2>3 DEF Bijection, Injection, Surjection, IsInjective
<1>7. IsFiniteSet(S) /\ Cardinality(S) = n
  BY FS_Interval
<1>8. Cardinality(CellSum(n, r, c, t)) = Cardinality(S)
  <2> HIDE DEF S, f
  <2>1. ExistsBijection(S, CellSum(n, r, c, t))
    BY <1>6 DEF ExistsBijection
  <2> QED BY <1>7, <2>1, FS_Bijection
<1> QED BY <1>3, <1>7, <1>8

(***************************************************************************)
(* The inductive invariant: the rows taken have the products of their      *)
(* cells, the others none.                                                 *)
(***************************************************************************)
Grid == (0..(rows - 1)) \X (0..(Columns(kern) - 1))
CellDone(c) == \E t : cells[c] = CellSum(Bytes(kern), c[1], c[2], t)

SmallInv ==
  /\ kern \in Kernels /\ isa \in Isas /\ rows \in Nat /\ nextRow \in 0..rows
  /\ DOMAIN cells = Grid
  /\ \A c \in Grid : c[1] < nextRow => CellDone(c)
  /\ \A c \in Grid : nextRow <= c[1] => cells[c] = {}

LEMMA GridIs ==
  ASSUME SmallInv, NEW c \in Grid
  PROVE  c[1] \in 0..(rows - 1) /\ c[2] \in 0..(Columns(kern) - 1) /\ c[1] \in Nat /\ c[2] \in Nat
<1>1. rows \in Nat /\ Columns(kern) \in Nat
  BY SizesAre DEF SmallInv
<1> QED BY <1>1 DEF Grid

LEMMA RowsDone ==
  ASSUME SmallInv, NEW m \in Nat, nextRow < m, m <= rows,
         DOMAIN cells' = DOMAIN cells,
         \A c \in Grid : c[1] \in nextRow..(m - 1) =>
           cells'[c] = cells[c] \cup CellSum(Bytes(kern), c[1], c[2], nextRow),
         \A c \in Grid : c[1] \notin nextRow..(m - 1) => cells'[c] = cells[c],
         nextRow' = m, UNCHANGED <<kern, isa, rows>>
  PROVE  SmallInv'
<1>0. rows \in Nat /\ nextRow \in Nat /\ Grid' = Grid /\ DOMAIN cells = Grid
  BY DEF SmallInv, Grid
<1>1. ASSUME NEW c \in Grid, c[1] < m PROVE CellDone(c)'
  <2>1. c[1] \in Nat
    BY GridIs
  <2>2. CASE c[1] < nextRow
    <3>1. c[1] \notin nextRow..(m - 1)
      BY <1>0, <2>1, <2>2
    <3>2. PICK t : cells[c] = CellSum(Bytes(kern), c[1], c[2], t)
      BY <2>2 DEF SmallInv, CellDone
    <3>3. cells'[c] = CellSum(Bytes(kern), c[1], c[2], t)
      BY <3>1, <3>2
    <3> QED BY <3>3 DEF CellDone
  <2>3. CASE nextRow <= c[1]
    <3>1. c[1] \in nextRow..(m - 1) /\ cells[c] = {}
      BY <1>0, <1>1, <2>1, <2>3 DEF SmallInv
    <3>2. cells'[c] = CellSum(Bytes(kern), c[1], c[2], nextRow)
      BY <3>1
    <3> QED BY <3>2 DEF CellDone
  <2> QED BY <1>0, <2>1, <2>2, <2>3
<1>2. ASSUME NEW c \in Grid, m <= c[1] PROVE cells'[c] = {}
  <2>1. c[1] \in Nat
    BY GridIs
  <2>2. c[1] \notin nextRow..(m - 1) /\ nextRow <= c[1]
    BY <1>0, <1>2, <2>1
  <2> QED BY <2>2 DEF SmallInv
<1>3. kern' \in Kernels /\ isa' \in Isas /\ rows' \in Nat /\ nextRow' \in 0..rows'
  BY <1>0 DEF SmallInv
<1>4. DOMAIN cells' = Grid'
  BY <1>0
<1> QED BY <1>0, <1>1, <1>2, <1>3, <1>4 DEF SmallInv

LEMMA SmallStarts == SmallInit => SmallInv
<1> SUFFICES ASSUME SmallInit PROVE SmallInv
  OBVIOUS
<1>1. /\ kern \in Kernels /\ isa \in Isas /\ rows \in Nat /\ nextRow = 0
      /\ cells = [c \in Grid |-> {}]
  BY SmallAssumption DEF SmallInit, Grid
<1>2. \A c \in Grid : c[1] \in Nat
  BY <1>1, SizesAre DEF Grid
<1>3. \A c \in Grid : ~(c[1] < nextRow)
  BY <1>1, <1>2
<1> QED BY <1>1, <1>3 DEF SmallInv

\* The places of a column among the bytes of the register, row by row.
LEMMA Repeated ==
  ASSUME NEW n \in Nat \ {0}, NEW c \in Nat, NEW r \in Nat, NEW t
  PROVE  {<<<<p, r * n + (p % n)>>, t>> : p \in (c * n)..(c * n + n - 1)} = CellSum(n, r, c, t)
<1> DEFINE Term(k) == <<<<c * n + k, r * n + k>>, t>>
           Got(p) == <<<<p, r * n + (p % n)>>, t>>
           P == (c * n)..(c * n + n - 1)
           K == 0..(n - 1)
           d == c * n
<1>0. d \in Nat
  OBVIOUS
<1>1. \A k \in K : (c * n + k) % n = k
  BY DivisionUnique
<1>2. \A k \in K : c * n + k \in P
  <2> HIDE DEF d
  <2>1. \A k \in K : d + k \in d..(d + n - 1)
    BY <1>0
  <2> QED BY <2>1 DEF d
<1>3. \A p \in P : \E k \in K : p = c * n + k
  <2> HIDE DEF d
  <2>1. \A p \in d..(d + n - 1) : p - d \in K /\ p = d + (p - d)
    BY <1>0
  <2> QED BY <2>1 DEF d
<1>4. \A k \in K : Got(c * n + k) = Term(k)
  BY <1>1
<1> HIDE DEF Got, Term
<1>5. {Got(p) : p \in P} = {Term(k) : k \in K}
  BY <1>2, <1>3, <1>4
<1> QED BY <1>5 DEF Got, Term, CellSum

LEMMA SmallSteps == SmallInv /\ [SmallNext]_smallVars => SmallInv'
<1> SUFFICES ASSUME SmallInv, [SmallNext]_smallVars PROVE SmallInv'
  OBVIOUS
<1> DEFINE n == Bytes(kern)
<1>0. /\ kern \in Kernels /\ rows \in Nat /\ nextRow \in Nat /\ n \in Nat \ {0} /\ DOMAIN cells = Grid
      /\ \A c \in Grid : c[1] \in Nat /\ c[1] < rows /\ c[2] \in 0..(Columns(kern) - 1) /\ c[2] \in Nat
  <2>1. \A c \in Grid : c[1] \in Nat /\ c[1] < rows /\ c[2] \in 0..(Columns(kern) - 1) /\ c[2] \in Nat
    BY GridIs DEF SmallInv
  <2> QED BY <2>1, SizesAre DEF SmallInv
<1> HIDE DEF n
<1>1. CASE VectorRow
  <2>1. kern \in Wide16
    BY <1>0, <1>1, SmallAssumption DEF VectorRow, Wide16
  <2>2. /\ nextRow < rows /\ nextRow' = nextRow + 1 /\ UNCHANGED <<kern, isa, rows>>
        /\ cells' = [c \in Grid |->
                       IF c[1] = nextRow
                       THEN cells[c] \cup {<<<<p, nextRow * n + (p % n)>>, nextRow>> : p \in LanesOf(kern)[c[2]]}
                       ELSE cells[c]]
    BY <1>0, <1>1 DEF VectorRow, n
  <2>3. ASSUME NEW c \in Grid, c[1] = nextRow
        PROVE  cells'[c] = cells[c] \cup CellSum(n, c[1], c[2], nextRow)
    <3>1. LanesOf(kern)[c[2]] = (c[2] * n)..(c[2] * n + n - 1)
      BY <1>0, <2>1, LanesOwn DEF n
    <3>2. {<<<<p, nextRow * n + (p % n)>>, nextRow>> : p \in (c[2] * n)..(c[2] * n + n - 1)}
            = CellSum(n, nextRow, c[2], nextRow)
      BY <1>0, Repeated, SMTT(30)
    <3> QED BY <2>2, <2>3, <3>1, <3>2
  <2> DEFINE m == nextRow + 1
  <2>5. m \in Nat /\ nextRow < m /\ m <= rows
    BY <1>0, <2>2, SMTT(30)
  <2>6. \A c \in Grid : c[1] \in nextRow..(m - 1) <=> c[1] = nextRow
    <3>1. m - 1 = nextRow /\ \A i \in Nat : i \in nextRow..nextRow <=> i = nextRow
      BY <1>0
    <3> HIDE DEF m
    <3> QED BY <1>0, <3>1
  <2>7. nextRow' = m /\ DOMAIN cells' = DOMAIN cells /\ \A c \in Grid : c[1] # nextRow => cells'[c] = cells[c]
    BY <1>0, <2>2
  <2> HIDE DEF m
  <2> QED BY <2>2, <2>3, <2>5, <2>6, <2>7, RowsDone DEF n
<1>2. CASE ScalarRow
  <2>2. /\ nextRow < rows /\ nextRow' = nextRow + 1 /\ UNCHANGED <<kern, isa, rows>>
        /\ cells' = [c \in Grid |->
                       IF c[1] = nextRow
                       THEN cells[c] \cup {<<<<c[2] * n + k, nextRow * n + k>>, nextRow>> : k \in 0..(n - 1)}
                       ELSE cells[c]]
    BY <1>0, <1>2 DEF ScalarRow, n
  <2>3. ASSUME NEW c \in Grid, c[1] = nextRow
        PROVE  cells'[c] = cells[c] \cup CellSum(n, c[1], c[2], nextRow)
    BY <2>2, <2>3 DEF CellSum
  <2> DEFINE m == nextRow + 1
  <2>5. m \in Nat /\ nextRow < m /\ m <= rows
    BY <1>0, <2>2, SMTT(30)
  <2>6. \A c \in Grid : c[1] \in nextRow..(m - 1) <=> c[1] = nextRow
    <3>1. m - 1 = nextRow /\ \A i \in Nat : i \in nextRow..nextRow <=> i = nextRow
      BY <1>0
    <3> HIDE DEF m
    <3> QED BY <1>0, <3>1
  <2>7. nextRow' = m /\ DOMAIN cells' = DOMAIN cells /\ \A c \in Grid : c[1] # nextRow => cells'[c] = cells[c]
    BY <1>0, <2>2
  <2> HIDE DEF m
  <2> QED BY <2>2, <2>3, <2>5, <2>6, <2>7, RowsDone DEF n
<1>3. ASSUME kern = "batch_n8" PROVE n = 8 /\ \A c \in Grid : c[2] = 0
  <2>1. n = 8 /\ Columns(kern) = 1
    BY <1>3 DEF Bytes, Columns, n
  <2> QED BY <1>0, <2>1
<1>4. CASE BatchFour
  <2> DEFINE Lane(c) == IF isa = "avx2" THEN N8Col4[c[1] - nextRow]
                          ELSE (8 * (c[1] - nextRow))..(8 * (c[1] - nextRow) + 7)
             m == nextRow + 4
  <2>1. /\ kern = "batch_n8" /\ nextRow + 3 < rows /\ nextRow' = nextRow + 4 /\ UNCHANGED <<kern, isa, rows>>
        /\ cells' = [c \in Grid |->
                       IF c[1] \in nextRow..(nextRow + 3)
                       THEN cells[c] \cup {<<<<p % 8, nextRow * 8 + p>>, nextRow>> : p \in Lane(c)}
                       ELSE cells[c]]
    BY <1>0, <1>4 DEF BatchFour
  <2>2. n = 8 /\ \A c \in Grid : c[2] = 0
    BY <1>3, <2>1
  <2>3. ASSUME NEW c \in Grid, c[1] \in nextRow..(nextRow + 3)
        PROVE  cells'[c] = cells[c] \cup CellSum(n, c[1], c[2], nextRow)
    <3> DEFINE j == c[1] - nextRow
               Term(k) == <<<<k, c[1] * 8 + k>>, nextRow>>
               Got(p) == <<<<p % 8, nextRow * 8 + p>>, nextRow>>
    <3>1. j \in 0..3 /\ c[1] = nextRow + j /\ c[1] \in Nat
      BY <1>0, <2>3
    <3>2. Lane(c) = (8 * j)..(8 * j + 7)
      <4>1. N8Col4[j] = (j * 8)..(j * 8 + 8 - 1)
        <5>1. "n8_col4" \in Wide16 /\ Columns("n8_col4") = 4 /\ Bytes("n8_col4") = 8 /\ LanesOf("n8_col4") = N8Col4
          BY DEF Wide16, Columns, Bytes, LanesOf
        <5>2. \A i \in 0..(Columns("n8_col4") - 1) :
                LanesOf("n8_col4")[i] = (i * Bytes("n8_col4"))..(i * Bytes("n8_col4") + Bytes("n8_col4") - 1)
          BY <5>1, LanesOwn
        <5> HIDE DEF j
        <5> QED BY <3>1, <5>1, <5>2
      <4>2. j * 8 = 8 * j /\ j * 8 + 8 - 1 = 8 * j + 7
        BY <3>1
      <4> QED BY <4>1, <4>2
    <3>3. ASSUME NEW k \in 0..7 PROVE 8 * j + k \in (8 * j)..(8 * j + 7) /\ Got(8 * j + k) = Term(k)
      <4>1. 8 * j + k \in (8 * j)..(8 * j + 7) /\ (8 * j + k) % 8 = k
        BY <3>1
      <4>2. nextRow * 8 + (8 * j + k) = c[1] * 8 + k
        BY <1>0, <3>1
      <4> QED BY <4>1, <4>2
    <3>4. \A p \in (8 * j)..(8 * j + 7) : \E k \in 0..7 : p = 8 * j + k
      <4>1. \A p \in (8 * j)..(8 * j + 7) : p - 8 * j \in 0..7 /\ p = 8 * j + (p - 8 * j)
        BY <3>1
      <4> QED BY <4>1
    <3>5. {Got(p) : p \in (8 * j)..(8 * j + 7)} = {Term(k) : k \in 0..7}
      <4> HIDE DEF Got, Term, j
      <4> QED BY <3>3, <3>4
    <3>6. CellSum(n, c[1], c[2], nextRow) = {Term(k) : k \in 0..7}
      <4>1. \A k \in 0..7 : <<<<0 * 8 + k, c[1] * 8 + k>>, nextRow>> = Term(k)
        OBVIOUS
      <4>2. CellSum(8, c[1], 0, nextRow) = {<<<<0 * 8 + k, c[1] * 8 + k>>, nextRow>> : k \in 0..7}
        BY DEF CellSum
      <4> QED BY <2>2, <4>1, <4>2
    <3>7. cells'[c] = cells[c] \cup {Got(p) : p \in Lane(c)}
      BY <2>1, <2>3
    <3> HIDE DEF Got, Term, Lane, j
    <3> QED BY <3>2, <3>5, <3>6, <3>7
  <2>5. m \in Nat /\ nextRow < m /\ m <= rows
    BY <1>0, <2>1, SMTT(30)
  <2>6. \A c \in Grid : c[1] \in nextRow..(m - 1) <=> c[1] \in nextRow..(nextRow + 3)
    BY <1>0
  <2>7. nextRow' = m /\ DOMAIN cells' = DOMAIN cells
        /\ \A c \in Grid : c[1] \notin nextRow..(nextRow + 3) => cells'[c] = cells[c]
    BY <1>0, <2>1
  <2> HIDE DEF m
  <2> QED BY <2>1, <2>3, <2>5, <2>6, <2>7, RowsDone DEF n
<1>5. CASE BatchOne
  <2> DEFINE m == nextRow + 1
             x == <<nextRow, 0>>
  <2>1. /\ kern = "batch_n8" /\ nextRow < rows /\ nextRow' = nextRow + 1 /\ UNCHANGED <<kern, isa, rows>>
        /\ cells' = [cells EXCEPT ![x] = @ \cup {<<<<k, nextRow * 8 + k>>, nextRow>> : k \in 0..7}]
    BY <1>5 DEF BatchOne
  <2>2. n = 8 /\ \A c \in Grid : c[2] = 0
    BY <1>3, <2>1
  <2>3. \A c \in Grid : c[1] = nextRow <=> c = x
    <3>1. \A c \in Grid : c = <<c[1], c[2]>>
      BY DEF Grid
    <3> QED BY <2>2, <3>1
  <2>4. ASSUME NEW c \in Grid, c[1] = nextRow
        PROVE  cells'[c] = cells[c] \cup CellSum(n, c[1], c[2], nextRow)
    <3>1. CellSum(8, nextRow, 0, nextRow) = {<<<<k, nextRow * 8 + k>>, nextRow>> : k \in 0..7}
      BY DEF CellSum
    <3>2. cells'[c] = cells[c] \cup {<<<<k, nextRow * 8 + k>>, nextRow>> : k \in 0..7}
      BY <1>0, <2>1, <2>3, <2>4
    <3> QED BY <2>2, <2>4, <3>1, <3>2
  <2>5. m \in Nat /\ nextRow < m /\ m <= rows
    BY <1>0, <2>1, SMTT(30)
  <2>6. \A c \in Grid : c[1] \in nextRow..(m - 1) <=> c[1] = nextRow
    <3>1. m - 1 = nextRow /\ \A i \in Nat : i \in nextRow..nextRow <=> i = nextRow
      BY <1>0
    <3> HIDE DEF m
    <3> QED BY <1>0, <3>1
  <2>7. nextRow' = m /\ DOMAIN cells' = DOMAIN cells /\ \A c \in Grid : c[1] # nextRow => cells'[c] = cells[c]
    BY <1>0, <2>1, <2>3
  <2> HIDE DEF m
  <2> QED BY <2>1, <2>4, <2>5, <2>6, <2>7, RowsDone DEF n
<1>6. CASE UNCHANGED smallVars
  BY <1>6 DEF smallVars, SmallInv, Grid, CellDone
<1> QED BY <1>1, <1>2, <1>4, <1>5, <1>6 DEF SmallNext

LEMMA SmallInvOwn == SmallInv => SmallSumsOwn
<1> SUFFICES ASSUME SmallInv, nextRow = rows, NEW c \in DOMAIN cells
             PROVE  /\ {x[1] : x \in cells[c]}
                         = {<<c[2] * Bytes(kern) + k, c[1] * Bytes(kern) + k>> : k \in 0..(Bytes(kern) - 1)}
                    /\ Cardinality(cells[c]) = Bytes(kern)
  BY DEF SmallSumsOwn
<1>1. c \in Grid /\ Bytes(kern) \in Nat
  BY SizesAre DEF SmallInv
<1>2. c[1] \in Nat /\ c[2] \in Nat /\ c[1] < nextRow
  BY <1>1, GridIs DEF SmallInv
<1>3. PICK t : cells[c] = CellSum(Bytes(kern), c[1], c[2], t)
  BY <1>1, <1>2 DEF SmallInv, CellDone
<1> DEFINE n == Bytes(kern)
           a == c[1]
           b == c[2]
           e == cells[c]
<1>4. n \in Nat /\ a \in Nat /\ b \in Nat /\ e = CellSum(n, a, b, t)
  BY <1>1, <1>2, <1>3
<1> HIDE DEF n, a, b, e
<1>5. /\ {x[1] : x \in CellSum(n, a, b, t)} = {<<b * n + k, a * n + k>> : k \in 0..(n - 1)}
      /\ Cardinality(CellSum(n, a, b, t)) = n
  BY <1>4, CellSumIs
<1>6. {x[1] : x \in e} = {<<b * n + k, a * n + k>> : k \in 0..(n - 1)} /\ Cardinality(e) = n
  BY <1>4, <1>5, Zenon
<1> QED BY <1>6 DEF n, a, b, e

(***************************************************************************)
(* The kernels for rows of 2 to 16 bytes, vectors, scalars and windows     *)
(* taken four at a time: each cell sums the products of its own column and *)
(* row, each once, for any number of rows.                                 *)
(***************************************************************************)
THEOREM ColumnsShareNoProduct == SmallSpec => []SmallSumsOwn
<1>1. SmallSpec => []SmallInv
  BY SmallStarts, SmallSteps, PTL DEF SmallSpec
<1> QED BY <1>1, SmallInvOwn, PTL

(***************************************************************************)
(* The terms of a kernel as one term for each position of the activations. *)
(***************************************************************************)
Tagged(T, m, own, tag) == T = {<<tag[k][1], tag[k][2], own[k], k>> : k \in 0..(m - 1)}
Pairs(m, own) == {<<own[k], k>> : k \in 0..(m - 1)}
OneTermEach(T, m, own) == \E tag : Tagged(T, m, own, tag)

LEMMA DistinctCount ==
  ASSUME NEW m \in Nat, NEW f, DOMAIN f = 0..(m - 1),
         \A j, k \in 0..(m - 1) : f[j] = f[k] => j = k
  PROVE  Cardinality({f[k] : k \in 0..(m - 1)}) = m
<1> DEFINE S == 0..(m - 1)
           R == {f[k] : k \in S}
           g == [k \in S |-> f[k]]
<1>1. IsFiniteSet(S) /\ Cardinality(S) = m
  BY FS_Interval
<1>2. \A j, k \in S : f[j] = f[k] => j = k
  OBVIOUS
<1> HIDE DEF S
<1>3. g \in [S -> R] /\ \A k \in S : g[k] = f[k]
  OBVIOUS
<1>4. \A e \in R : \E k \in S : g[k] = e
  BY <1>3
<1> HIDE DEF g, R
<1>5. g \in Bijection(S, R)
  BY <1>2, <1>3, <1>4 DEF Bijection, Injection, Surjection, IsInjective
<1>6. Cardinality(R) = Cardinality(S)
  BY <1>1, <1>5, FS_Bijection DEF ExistsBijection
<1> QED BY <1>1, <1>6 DEF R, S

LEMMA ImageFinite ==
  ASSUME NEW m \in Nat, NEW f, NEW R, R = {f[k] : k \in 0..(m - 1)}
  PROVE  IsFiniteSet(R)
<1> DEFINE S == 0..(m - 1)
           g == [k \in S |-> f[k]]
<1>1. IsFiniteSet(S)
  BY FS_Interval
<1>2. g \in Surjection(S, R)
  BY DEF Surjection
<1> QED BY <1>1, <1>2, FS_Surjection

LEMMA TermsCount ==
  ASSUME NEW m \in Nat, NEW own, NEW T, OneTermEach(T, m, own)
  PROVE  /\ {<<t[3], t[4]>> : t \in T} = Pairs(m, own) /\ Cardinality(T) = Cardinality(Pairs(m, own))
         /\ IsFiniteSet(T)
<1>1. PICK tag : Tagged(T, m, own, tag)
  BY DEF OneTermEach
<1> DEFINE S == 0..(m - 1)
           f == [k \in S |-> <<tag[k][1], tag[k][2], own[k], k>>]
           h == [k \in S |-> <<own[k], k>>]
<1>2. /\ DOMAIN f = S /\ T = {f[k] : k \in S} /\ \A k \in S : f[k][4] = k /\ f[k][3] = own[k]
      /\ \A j, k \in S : f[j] = f[k] => j = k
  BY <1>1 DEF Tagged
<1>3. /\ DOMAIN h = S /\ Pairs(m, own) = {h[k] : k \in S} /\ \A k \in S : h[k] = <<own[k], k>>
      /\ \A j, k \in S : h[j] = h[k] => j = k
  BY DEF Pairs
<1> HIDE DEF f, h
<1>4. Cardinality(T) = m
  BY <1>2, DistinctCount
<1>5. IsFiniteSet(T)
  <2>1. T = {f[k] : k \in 0..(m - 1)}
    BY <1>2
  <2> HIDE DEF S
  <2> QED BY <2>1, ImageFinite
<1>6. Cardinality(Pairs(m, own)) = m
  BY <1>3, DistinctCount
<1> HIDE DEF S
<1>7. {<<t[3], t[4]>> : t \in T} = {h[k] : k \in S}
  BY <1>2, <1>3
<1> QED BY <1>3, <1>4, <1>5, <1>6, <1>7

(***************************************************************************)
(* Loops over whole blocks of bytes.                                       *)
(***************************************************************************)
Plain(m) == [k \in 0..(m - 1) |-> k]

\* PlaceOf k of span long blocks is place k % span of block k \div span.
PlaceOfPair(nb, span) ==
  \A b \in 0..(nb - 1), j \in 0..(span - 1) :
    /\ b * span + j \in 0..(nb * span - 1)
    /\ (b * span + j) \div span = b /\ (b * span + j) % span = j
PairOfPlace(nb, span) ==
  \A k \in 0..(nb * span - 1) :
    /\ k \div span \in 0..(nb - 1) /\ k % span \in 0..(span - 1)
    /\ (k \div span) * span + (k % span) = k

LEMMA InBlocks ==
  ASSUME NEW nb \in Nat, NEW span \in Nat \ {0}
  PROVE  PlaceOfPair(nb, span) /\ PairOfPlace(nb, span)
<1>1. ASSUME NEW b \in 0..(nb - 1), NEW j \in 0..(span - 1)
      PROVE  /\ b * span + j \in 0..(nb * span - 1)
             /\ (b * span + j) \div span = b /\ (b * span + j) % span = j
  <2>1. b \in Nat /\ b + 1 \in Nat /\ b + 1 <= nb
    OBVIOUS
  <2>2. span * (b + 1) <= span * nb
    BY <2>1, ProductMonotone
  <2>3. span * (b + 1) = b * span + span /\ span * nb = nb * span /\ b * span \in Nat /\ nb * span \in Nat
    BY <2>1
  <2>4. b * span + j \in 0..(nb * span - 1)
    BY <2>2, <2>3
  <2> QED BY <2>1, <2>4, DivisionUnique
<1>2. ASSUME NEW k \in 0..(nb * span - 1)
      PROVE  /\ k \div span \in 0..(nb - 1) /\ k % span \in 0..(span - 1)
             /\ (k \div span) * span + (k % span) = k
  <2> DEFINE q == k \div span
             r == k % span
             m == nb * span
  <2>1. m \in Nat /\ k \in Nat /\ k < m
    OBVIOUS
  <2>2. q \in Nat /\ r \in 0..(span - 1) /\ k = q * span + r
    BY <2>1, DivisionOf
  <2> HIDE DEF q, r, m
  <2>3. q < nb
    <3> SUFFICES ASSUME nb <= q PROVE FALSE
      BY <2>2
    <3>1. span * nb <= span * q
      BY <2>2, ProductMonotone
    <3>2. span * nb = m /\ span * q = q * span /\ q * span \in Nat
      BY <2>2 DEF m
    <3> QED BY <2>1, <2>2, <3>1, <3>2
  <2> QED BY <2>2, <2>3 DEF q, r
<1> QED BY <1>1, <1>2 DEF PlaceOfPair, PairOfPlace

BlockTerms(nb, span, group, lane) ==
  {<<group[b], lane[j], b * span + j, b * span + j>> : b \in 0..(nb - 1), j \in 0..(span - 1)}

LEMMA BlockLoop ==
  ASSUME NEW nb \in Nat, NEW span \in Nat \ {0}, NEW group, NEW lane, NEW T,
         T = BlockTerms(nb, span, group, lane)
  PROVE  OneTermEach(T, nb * span, Plain(nb * span))
<1> DEFINE m == nb * span
           own == Plain(m)
           tag == [k \in 0..(m - 1) |-> <<group[k \div span], lane[k % span]>>]
           U == {<<tag[k][1], tag[k][2], own[k], k>> : k \in 0..(m - 1)}
<1>1. \A k \in 0..(m - 1) : own[k] = k /\ tag[k][1] = group[k \div span] /\ tag[k][2] = lane[k % span]
  BY DEF Plain
<1>2. /\ \A b \in 0..(nb - 1), j \in 0..(span - 1) :
            /\ b * span + j \in 0..(m - 1)
            /\ (b * span + j) \div span = b /\ (b * span + j) % span = j
      /\ \A k \in 0..(m - 1) :
            /\ k \div span \in 0..(nb - 1) /\ k % span \in 0..(span - 1)
            /\ (k \div span) * span + (k % span) = k
  <2>1. PlaceOfPair(nb, span) /\ PairOfPlace(nb, span)
    BY InBlocks
  <2> QED BY <2>1, Zenon DEF PlaceOfPair, PairOfPlace
<1> HIDE DEF m, own, tag
<1>3. ASSUME NEW t \in T PROVE t \in U
  <2>1. PICK b \in 0..(nb - 1), j \in 0..(span - 1) : t = <<group[b], lane[j], b * span + j, b * span + j>>
    BY DEF BlockTerms
  <2> DEFINE k == b * span + j
  <2>2. k \in 0..(m - 1) /\ k \div span = b /\ k % span = j
    BY <1>2
  <2> HIDE DEF k
  <2>3. t = <<tag[k][1], tag[k][2], own[k], k>>
    BY <1>1, <2>1, <2>2 DEF k
  <2> QED BY <2>2, <2>3
<1>4. ASSUME NEW t \in U PROVE t \in T
  <2>1. PICK k \in 0..(m - 1) : t = <<tag[k][1], tag[k][2], own[k], k>>
    OBVIOUS
  <2> DEFINE b == k \div span
             j == k % span
  <2>2. b \in 0..(nb - 1) /\ j \in 0..(span - 1) /\ b * span + j = k
    BY <1>2
  <2>3. t = <<group[b], lane[j], k, k>>
    BY <1>1, <2>1
  <2> HIDE DEF b, j
  <2>4. t = <<group[b], lane[j], b * span + j, b * span + j>>
    BY <2>2, <2>3
  <2> QED BY <2>2, <2>4 DEF BlockTerms
<1>5. T = U
  BY <1>3, <1>4
<1> QED BY <1>5 DEF OneTermEach, Tagged, m, own

LEMMA VecIs ==
  /\ Vec \in Nat \ {0} /\ Word \in Nat \ {0} /\ Vec = 4 * Word /\ Half = 2 * Word /\ Half \div 2 = Word
  /\ Zmm = 2 * Vec /\ Flush \in Nat \ {0}
<1>1. Vec \in Nat \ {0} /\ Vec % 4 = 0 /\ Flush \in Nat \ {0}
  BY DotAssumption
<1>2. Word \in Nat /\ Vec = Word * 4 + 0
  BY <1>1, DivisionOf DEF Word
<1>3. Half = 2 * Word /\ Half \div 2 = Word
  BY <1>2 DEF Half
<1> QED BY <1>1, <1>2, <1>3 DEF Zmm

LEMMA Avx2Bytes ==
  ASSUME NEW n \in Nat
  PROVE  OneTermEach(I8Avx2(n), (n \div Vec) * Vec, Plain((n \div Vec) * Vec))
<1> DEFINE nb == n \div Vec
           group == [b \in 0..(nb - 1) |-> b \div Flush]
           lane == [j \in 0..(Vec - 1) |-> j \div 2]
<1>1. nb \in Nat /\ Vec \in Nat \ {0}
  BY VecIs, DivisionBounds
<1>2. (\A b \in 0..(nb - 1) : group[b] = b \div Flush) /\ (\A j \in 0..(Vec - 1) : lane[j] = j \div 2)
  OBVIOUS
<1> HIDE DEF group, lane
<1>4. I8Avx2(n) = BlockTerms(nb, Vec, group, lane)
  BY <1>2 DEF I8Avx2, BlockTerms
<1> HIDE DEF nb
<1>3. OneTermEach(I8Avx2(n), nb * Vec, Plain(nb * Vec))
  BY <1>1, <1>4, BlockLoop
<1> QED BY <1>3 DEF nb

LEMMA NeonBytes ==
  ASSUME NEW n \in Nat, NEW dotprod \in BOOLEAN
  PROVE  OneTermEach(I8Neon(n, dotprod), (n \div Word) * Word, Plain((n \div Word) * Word))
<1> DEFINE nb == n \div Word
           group == [b \in 0..(nb - 1) |-> IF dotprod THEN Wide ELSE b \div Flush]
           lane == [j \in 0..(Word - 1) |-> j]
<1>1. nb \in Nat /\ Word \in Nat \ {0}
  BY VecIs, DivisionBounds
<1>2. /\ \A b \in 0..(nb - 1) : group[b] = IF dotprod THEN Wide ELSE b \div Flush
      /\ \A j \in 0..(Word - 1) : lane[j] = j
  OBVIOUS
<1> HIDE DEF group, lane
<1>4. I8Neon(n, dotprod) = BlockTerms(nb, Word, group, lane)
  BY <1>2 DEF I8Neon, BlockTerms
<1> HIDE DEF nb
<1>3. OneTermEach(I8Neon(n, dotprod), nb * Word, Plain(nb * Word))
  BY <1>1, <1>4, BlockLoop
<1> QED BY <1>3 DEF nb

(***************************************************************************)
(* Loads of registers: each names the positions it covers.                 *)
(***************************************************************************)
At(lane, P) == {<<Wide, lane, p, p>> : p \in P}

LEMMA LanesWhole ==
  ASSUME NEW m \in Nat, NEW lane, NEW T, T = {<<Wide, lane[p], p, p>> : p \in 0..(m - 1)}
  PROVE  OneTermEach(T, m, Plain(m))
<1> DEFINE own == Plain(m)
           tag == [k \in 0..(m - 1) |-> <<Wide, lane[k]>>]
<1>1. \A k \in 0..(m - 1) : own[k] = k /\ tag[k][1] = Wide /\ tag[k][2] = lane[k]
  BY DEF Plain
<1> HIDE DEF own, tag
<1>2. T = {<<tag[k][1], tag[k][2], own[k], k>> : k \in 0..(m - 1)}
  BY <1>1
<1> QED BY <1>2 DEF OneTermEach, Tagged, own

LEMMA ScalarBytes ==
  ASSUME NEW n \in Nat
  PROVE  OneTermEach(I8Scalar(n), (n \div 1) * 1, Plain((n \div 1) * 1))
<1> DEFINE lane == [p \in 0..(n - 1) |-> 0]
<1>1. I8Scalar(n) = {<<Wide, lane[p], p, p>> : p \in 0..(n - 1)}
  BY DEF I8Scalar
<1>2. (n \div 1) * 1 = n
  OBVIOUS
<1> HIDE DEF lane
<1>3. OneTermEach(I8Scalar(n), n, Plain(n))
  BY <1>1, LanesWhole
<1> QED BY <1>2, <1>3

LEMMA LoadsAt ==
  ASSUME NEW lane, NEW S, NEW len, NEW P,
         \A i \in S, k \in 0..(len - 1) : i + k \in P,
         \A p \in P : \E i \in S, k \in 0..(len - 1) : p = i + k
  PROVE  Loads(lane, S, len) = At(lane, P)
<1>1. ASSUME NEW t \in Loads(lane, S, len) PROVE t \in At(lane, P)
  BY DEF Loads, At
<1>2. ASSUME NEW t \in At(lane, P) PROVE t \in Loads(lane, S, len)
  <2>1. PICK p \in P : t = <<Wide, lane, p, p>>
    BY DEF At
  <2>2. PICK i \in S, k \in 0..(len - 1) : p = i + k
    OBVIOUS
  <2> QED BY <2>1, <2>2 DEF Loads
<1> QED BY <1>1, <1>2

\* The starts of the whole registers of d bytes from base on.
StartsFrom(base, m, d) == {i \in base..m : (i - base) % d = 0 /\ i + d <= m}

Run(base, c, d) == {base + q * d : q \in 0..(c - 1)}

LEMMA StartsAre ==
  ASSUME NEW base \in Nat, NEW m \in Nat, base <= m, NEW d \in Nat \ {0}, NEW c, c = (m - base) \div d
  PROVE  StartsFrom(base, m, d) = Run(base, c, d) /\ Cardinality(StartsFrom(base, m, d)) = c
<1> DEFINE x == m - base
           S == StartsFrom(base, m, d)
           f == [q \in 0..(c - 1) |-> base + q * d]
<1>1. x \in Nat /\ m = base + x
  OBVIOUS
<1>2. c \in Nat /\ d * c <= x /\ x < d * c + d
  BY <1>1, DivisionBounds
<1> HIDE DEF x
<1>3. ASSUME NEW i \in S PROVE \E q \in 0..(c - 1) : i = base + q * d
  <2> DEFINE y == i - base
             q == y \div d
             e == q * d
  <2>1. y \in Nat /\ i = base + y /\ y % d = 0 /\ y + d <= x
    BY <1>1 DEF StartsFrom
  <2> HIDE DEF y
  <2>2. q \in Nat /\ y = q * d + 0
    BY <2>1, DivisionOf
  <2> HIDE DEF q
  <2>3. e \in Nat /\ y = e /\ e = d * q
    BY <2>2
  <2> HIDE DEF e
  <2>4. q < c
    <3> SUFFICES ASSUME c <= q PROVE FALSE
      BY <1>2, <2>2
    <3>1. d * c <= d * q
      BY <1>2, <2>2, ProductMonotone
    <3>2. d * c \in Nat
      BY <1>2
    <3> QED BY <1>1, <1>2, <2>1, <2>3, <3>1, <3>2
  <2>5. q \in 0..(c - 1)
    BY <1>2, <2>2, <2>4
  <2>6. i = base + q * d
    BY <2>1, <2>3 DEF e
  <2> QED BY <2>5, <2>6
<1>4. ASSUME NEW q \in 0..(c - 1) PROVE base + q * d \in S /\ f[q] = base + q * d
  <2> DEFINE e == q * d
  <2>1. q \in Nat /\ q + 1 \in Nat /\ q + 1 <= c
    BY <1>2
  <2>2. d * (q + 1) <= d * c
    BY <1>2, <2>1, ProductMonotone
  <2>3. d * (q + 1) = e + d /\ e \in Nat /\ d * c \in Nat
    BY <1>2, <2>1
  <2>4. (q * d + 0) % d = 0 /\ q * d + 0 = e
    BY <2>1, DivisionUnique
  <2> HIDE DEF e
  <2>5. base + e \in base..m /\ (base + e) - base = e /\ base + e + d <= m
    BY <1>1, <1>2, <2>2, <2>3
  <2>6. e % d = 0
    BY <2>4
  <2>7. base + e \in S
    BY <2>5, <2>6 DEF StartsFrom
  <2> QED BY <2>7 DEF e
<1>5. S = {base + q * d : q \in 0..(c - 1)}
  BY <1>3, <1>4
<1>6. \A j, k \in 0..(c - 1) : f[j] = f[k] => j = k
  <2> TAKE j, k \in 0..(c - 1)
  <2> HAVE f[j] = f[k]
  <2>1. j \in Nat /\ k \in Nat /\ j * d \in Nat /\ k * d \in Nat
    BY <1>2
  <2>2. j * d + 0 = k * d + 0
    BY <1>4, <2>1
  <2>3. (j * d + 0) \div d = j /\ (k * d + 0) \div d = k
    BY <2>1, DivisionUnique
  <2> QED BY <2>2, <2>3
<1>7. DOMAIN f = 0..(c - 1) /\ {f[k] : k \in 0..(c - 1)} = S
  BY <1>4, <1>5
<1> HIDE DEF f, S
<1>8. Cardinality({f[k] : k \in 0..(c - 1)}) = c
  BY <1>2, <1>6, <1>7, DistinctCount
<1> QED BY <1>5, <1>7, <1>8 DEF S, Run

\* One register after the other covers a run of positions.
LEMMA RunAt ==
  ASSUME NEW base \in Nat, NEW c \in Nat, NEW d \in Nat \ {0}, NEW lane,
         NEW end, end = base + c * d
  PROVE  Loads(lane, Run(base, c, d), d) = At(lane, base..(end - 1))
<1> DEFINE S == {base + q * d : q \in 0..(c - 1)}
           m == c * d
           P == base..(base + m - 1)
<1>1. m \in Nat
  OBVIOUS
<1>2. PlaceOfPair(c, d) /\ PairOfPlace(c, d)
  BY InBlocks
<1>3. ASSUME NEW i \in S, NEW k \in 0..(d - 1) PROVE i + k \in P
  <2>1. PICK q \in 0..(c - 1) : i = base + q * d
    OBVIOUS
  <2>2. q * d + k \in 0..(m - 1)
    BY <1>2 DEF PlaceOfPair
  <2> DEFINE e == q * d
  <2>3. e \in Nat
    OBVIOUS
  <2> HIDE DEF m, e
  <2> QED BY <1>1, <2>1, <2>2, <2>3 DEF e
<1>4. ASSUME NEW p \in P PROVE \E i \in S, k \in 0..(d - 1) : p = i + k
  <2> DEFINE y == p - base
             q == y \div d
             r == y % d
             e == q * d
  <2>1. y \in 0..(m - 1) /\ p = base + y
    BY <1>1
  <2> HIDE DEF y
  <2>2. q \in 0..(c - 1) /\ r \in 0..(d - 1) /\ e + r = y
    BY <1>2, <2>1 DEF PairOfPlace
  <2>3. e \in Nat
    BY <2>2
  <2>4. base + e \in S
    BY <2>2
  <2> HIDE DEF q, r, e, S
  <2>5. p = (base + e) + r
    BY <2>1, <2>2, <2>3
  <2> QED BY <2>2, <2>4, <2>5
<1> HIDE DEF S, P
<1>5. Loads(lane, S, d) = At(lane, P)
  BY <1>3, <1>4, LoadsAt
<1>6. base + m - 1 = end - 1
  BY <1>1
<1> QED BY <1>5, <1>6 DEF S, P, Run

\* What is left after the last whole register.
LEMMA TailAt ==
  ASSUME NEW last \in Nat, NEW m \in Nat, last <= m, NEW lane
  PROVE  Loads(lane, {last}, m - last) = At(lane, last..(m - 1))
<1>1. \A i \in {last}, k \in 0..((m - last) - 1) : i + k \in last..(m - 1)
  OBVIOUS
<1>2. \A p \in last..(m - 1) : \E i \in {last}, k \in 0..((m - last) - 1) : p = i + k
  <2> TAKE p \in last..(m - 1)
  <2>1. p - last \in 0..((m - last) - 1) /\ p = last + (p - last)
    OBVIOUS
  <2> QED BY <2>1
<1> DEFINE S == {last}
           P == last..(m - 1)
           len == m - last
<1>3. (\A i \in S, k \in 0..(len - 1) : i + k \in P) /\ (\A p \in P : \E i \in S, k \in 0..(len - 1) : p = i + k)
  BY <1>1, <1>2
<1> HIDE DEF S, P, len
<1>4. Loads(lane, S, len) = At(lane, P)
  BY <1>3, LoadsAt
<1> QED BY <1>4 DEF S, P, len

LEMMA SharedBytes ==
  ASSUME NEW n \in Nat
  PROVE  OneTermEach(I8VnniShared(n), (n \div Vec) * Vec, Plain((n \div Vec) * Vec))
<1> DEFINE m == (n \div Vec) * Vec
           c == m \div Zmm
           end == c * Zmm
           once == {i \in 0..m : i % Zmm = 0 /\ i + Zmm <= m}
           lane == [p \in 0..(m - 1) |-> IF p < end THEN 0 ELSE 1]
<1>1. m \in Nat /\ Zmm \in Nat \ {0}
  BY VecIs, DivisionBounds
<1>2. I8VnniShared(n) = Loads(0, once, Zmm) \cup Loads(1, {Cardinality(once) * Zmm}, m - Cardinality(once) * Zmm)
  BY DEF I8VnniShared
<1> HIDE DEF m
<1>3. once = StartsFrom(0, m, Zmm) /\ m - 0 = m
  BY <1>1 DEF StartsFrom
<1>4. once = Run(0, c, Zmm) /\ Cardinality(once) = c
  <2>1. c = (m - 0) \div Zmm /\ 0 \in Nat /\ 0 <= m
    BY <1>1, <1>3
  <2> HIDE DEF c, once
  <2> QED BY <1>1, <1>3, <2>1, StartsAre
<1>5. c \in Nat /\ Zmm * c <= m
  BY <1>1, DivisionBounds
<1> HIDE DEF c, once
<1>6. end \in Nat /\ end <= m
  BY <1>1, <1>5
<1>7. Loads(0, once, Zmm) = At(0, 0..(end - 1))
  <2>1. end = 0 + c * Zmm
    BY <1>1, <1>5
  <2>2. Loads(0, Run(0, c, Zmm), Zmm) = At(0, 0..(end - 1))
    BY <1>1, <1>5, <2>1, RunAt
  <2> QED BY <1>4, <2>2
<1> HIDE DEF end
<1>8. Loads(1, {end}, m - end) = At(1, end..(m - 1))
  BY <1>1, <1>6, TailAt
<1>9. I8VnniShared(n) = At(0, 0..(end - 1)) \cup At(1, end..(m - 1))
  BY <1>2, <1>4, <1>7, <1>8 DEF end
<1>10. \A p \in 0..(m - 1) : lane[p] = IF p < end THEN 0 ELSE 1
  OBVIOUS
<1> HIDE DEF lane
<1>11. I8VnniShared(n) = {<<Wide, lane[p], p, p>> : p \in 0..(m - 1)}
  <2>1. \A p : p \in 0..(end - 1) <=> p \in 0..(m - 1) /\ p < end
    BY <1>1, <1>6
  <2>2. \A p : p \in end..(m - 1) <=> p \in 0..(m - 1) /\ ~(p < end)
    BY <1>1, <1>6
  <2> QED BY <1>9, <1>10, <2>1, <2>2 DEF At
<1>12. OneTermEach(I8VnniShared(n), m, Plain(m))
  BY <1>1, <1>11, LanesWhole
<1> QED BY <1>12 DEF m

LEMMA VnniBytes ==
  ASSUME NEW n \in Nat
  PROVE  OneTermEach(I8Vnni(n), (n \div Vec) * Vec, Plain((n \div Vec) * Vec))
<1> DEFINE m == (n \div Vec) * Vec
           D == 2 * Zmm
           a == m \div D
           after == a * D
           c == (m - after) \div Zmm
           end == after + c * Zmm
           twice == {i \in 0..m : i % D = 0 /\ i + D <= m}
           once == {i \in after..m : (i - after) % Zmm = 0 /\ i + Zmm <= m}
           lane == [p \in 0..(m - 1) |-> IF p < after THEN (IF p % D < Zmm THEN 0 ELSE 1)
                                         ELSE IF p < end THEN 2 ELSE 3]
           P0 == {p \in 0..(after - 1) : p % D < Zmm}
           P1 == {p \in 0..(after - 1) : ~(p % D < Zmm)}
<1>1. m \in Nat /\ Zmm \in Nat \ {0} /\ D \in Nat \ {0} /\ D = Zmm + Zmm
  BY VecIs, DivisionBounds
<1>2. a \in Nat /\ D * a <= m
  <2>1. m \in Nat /\ D \in Nat \ {0}
    BY <1>1
  <2> HIDE DEF m, D
  <2> QED BY <2>1, DivisionBounds
<1> HIDE DEF m
<1>3. twice = StartsFrom(0, m, D) /\ m - 0 = m
  BY <1>1 DEF StartsFrom
<1> HIDE DEF D
<1>4. twice = Run(0, a, D) /\ Cardinality(twice) = a
  <2>1. a = (m - 0) \div D /\ 0 \in Nat /\ 0 <= m
    BY <1>1, <1>3
  <2> HIDE DEF a, twice
  <2> QED BY <1>1, <1>3, <2>1, StartsAre
<1> HIDE DEF a, twice
<1>5. after \in Nat /\ after <= m
  BY <1>1, <1>2
<1>6. Cardinality(twice) * 2 * Zmm = after
  BY <1>1, <1>2, <1>4 DEF D
<1> HIDE DEF after
<1>7. once = StartsFrom(after, m, Zmm)
  BY DEF StartsFrom
<1>8. once = Run(after, c, Zmm) /\ Cardinality(once) = c
  BY <1>1, <1>5, <1>7, StartsAre
<1>9. c \in Nat /\ Zmm * c <= m - after
  <2>1. m - after \in Nat
    BY <1>1, <1>5
  <2> QED BY <1>1, <2>1, DivisionBounds
<1> HIDE DEF c
<1>10. end \in Nat /\ after <= end /\ end <= m
  BY <1>1, <1>5, <1>9
<1>11. after + Cardinality(once) * Zmm = end
  BY <1>8
<1>12. I8Vnni(n) = Loads(0, twice, Zmm) \cup Loads(1, {i + Zmm : i \in twice}, Zmm) \cup Loads(2, once, Zmm)
                   \cup Loads(3, {end}, m - end)
  BY <1>6, <1>11 DEF I8Vnni, m, twice, D
<1> HIDE DEF once
<1>13. PlaceOfPair(a, D) /\ PairOfPlace(a, D)
  BY <1>1, <1>2, InBlocks
<1>14. /\ \A q \in 0..(a - 1), j \in 0..(D - 1) : q * D + j \in 0..(after - 1) /\ (q * D + j) % D = j
       /\ \A p \in 0..(after - 1) :
             p \div D \in 0..(a - 1) /\ p % D \in 0..(D - 1) /\ (p \div D) * D + (p % D) = p
  BY <1>13, Zenon DEF PlaceOfPair, PairOfPlace, after
<1>15. \A i \in twice : \E q \in 0..(a - 1) : i = q * D /\ i \in Nat
  <2> TAKE i \in twice
  <2>1. PICK q \in 0..(a - 1) : i = 0 + q * D
    BY <1>4 DEF Run
  <2>2. q * D \in Nat /\ 0 + q * D = q * D
    BY <1>1, <1>2
  <2> QED BY <2>1, <2>2
<1>16. \A q \in 0..(a - 1) : q * D \in twice /\ q * D \in Nat
  <2> TAKE q \in 0..(a - 1)
  <2>1. q * D \in Nat /\ 0 + q * D = q * D
    BY <1>1, <1>2
  <2> QED BY <1>4, <2>1 DEF Run
<1>17. Loads(0, twice, Zmm) = At(0, P0)
  <2>1. ASSUME NEW i \in twice, NEW k \in 0..(Zmm - 1) PROVE i + k \in P0
    <3>1. PICK q \in 0..(a - 1) : i = q * D
      BY <1>15
    <3>2. k \in 0..(D - 1) /\ k < Zmm
      BY <1>1
    <3> QED BY <1>14, <3>1, <3>2
  <2>2. ASSUME NEW p \in P0 PROVE \E i \in twice, k \in 0..(Zmm - 1) : p = i + k
    <3>1. p \div D \in 0..(a - 1) /\ p % D \in 0..(D - 1) /\ (p \div D) * D + (p % D) = p /\ p % D < Zmm
      BY <1>14
    <3>2. (p \div D) * D \in twice
      BY <1>16, <3>1
    <3>3. p % D \in 0..(Zmm - 1)
      BY <1>1, <3>1
    <3> QED BY <3>1, <3>2, <3>3
  <2> HIDE DEF P0
  <2> QED BY <2>1, <2>2, LoadsAt
<1>18. Loads(1, {i + Zmm : i \in twice}, Zmm) = At(1, P1)
  <2>1. ASSUME NEW e \in {i + Zmm : i \in twice}, NEW k \in 0..(Zmm - 1) PROVE e + k \in P1
    <3>1. PICK i \in twice : e = i + Zmm
      OBVIOUS
    <3>2. PICK q \in 0..(a - 1) : i = q * D /\ i \in Nat
      BY <1>15
    <3>3. Zmm + k \in 0..(D - 1) /\ ~(Zmm + k < Zmm)
      BY <1>1
    <3>4. e + k = i + (Zmm + k)
      BY <1>1, <3>1, <3>2
    <3>5. q * D + (Zmm + k) \in 0..(after - 1) /\ (q * D + (Zmm + k)) % D = Zmm + k
      BY <1>14, <3>3
    <3> QED BY <3>2, <3>3, <3>4, <3>5
  <2>2. ASSUME NEW p \in P1 PROVE \E e \in {i + Zmm : i \in twice}, k \in 0..(Zmm - 1) : p = e + k
    <3> DEFINE i == (p \div D) * D
               r == p % D
    <3>1. p \div D \in 0..(a - 1) /\ r \in 0..(D - 1) /\ i + r = p /\ ~(r < Zmm)
      BY <1>14
    <3>2. i \in twice /\ i \in Nat
      BY <1>16, <3>1
    <3> HIDE DEF i, r
    <3>3. r - Zmm \in 0..(Zmm - 1) /\ p = (i + Zmm) + (r - Zmm)
      BY <1>1, <3>1, <3>2
    <3> QED BY <3>2, <3>3
  <2> HIDE DEF P1
  <2> QED BY <2>1, <2>2, LoadsAt
<1>19. Loads(2, once, Zmm) = At(2, after..(end - 1))
  <2>1. Loads(2, Run(after, c, Zmm), Zmm) = At(2, after..(end - 1))
    BY <1>1, <1>5, <1>9, RunAt
  <2> QED BY <1>8, <2>1
<1> HIDE DEF end
<1>20. Loads(3, {end}, m - end) = At(3, end..(m - 1))
  BY <1>1, <1>10, TailAt
<1>21. I8Vnni(n) = At(0, P0) \cup At(1, P1) \cup At(2, after..(end - 1)) \cup At(3, end..(m - 1))
  BY <1>12, <1>17, <1>18, <1>19, <1>20
<1>22. \A p \in 0..(m - 1) : lane[p] = IF p < after THEN (IF p % D < Zmm THEN 0 ELSE 1)
                                        ELSE IF p < end THEN 2 ELSE 3
  OBVIOUS
<1> HIDE DEF lane
<1>23. I8Vnni(n) = {<<Wide, lane[p], p, p>> : p \in 0..(m - 1)}
  <2>1. \A p : p \in P0 <=> p \in 0..(m - 1) /\ p < after /\ p % D < Zmm
    BY <1>1, <1>5
  <2>2. \A p : p \in P1 <=> p \in 0..(m - 1) /\ p < after /\ ~(p % D < Zmm)
    BY <1>1, <1>5
  <2>3. \A p : p \in after..(end - 1) <=> p \in 0..(m - 1) /\ ~(p < after) /\ p < end
    BY <1>1, <1>5, <1>10
  <2>4. \A p : p \in end..(m - 1) <=> p \in 0..(m - 1) /\ ~(p < after) /\ ~(p < end)
    BY <1>1, <1>5, <1>10
  <2> HIDE DEF P0, P1
  <2> QED BY <1>21, <1>22, <2>1, <2>2, <2>3, <2>4 DEF At
<1>24. OneTermEach(I8Vnni(n), m, Plain(m))
  BY <1>1, <1>23, LanesWhole
<1> QED BY <1>24 DEF m

(***************************************************************************)
(* Ternary weights: position j of group g of block b.                      *)
(***************************************************************************)
Fields(m) == [k \in 0..(m - 1) |-> Field(k)]
Spots(nb) == (0..(nb - 1)) \X (0..3) \X (0..(Vec - 1))
PlaceOf(x) == x[1] * 4 * Vec + x[2] * Vec + x[3]
FieldAt(x) == <<x[1] * Vec + x[3], x[2]>>
SpotOf(k) == <<k \div (4 * Vec), (k % (4 * Vec)) \div Vec, k % Vec>>
Spread(nb, entry) == {<<entry[x][1], entry[x][2], FieldAt(x), PlaceOf(x)>> : x \in Spots(nb)}

SpotOfPosition(nb, m) ==
  \A x \in Spots(nb) : PlaceOf(x) \in 0..(m - 1) /\ SpotOf(PlaceOf(x)) = x /\ Field(PlaceOf(x)) = FieldAt(x)
PositionOfSpot(nb, m) ==
  \A k \in 0..(m - 1) : SpotOf(k) \in Spots(nb) /\ PlaceOf(SpotOf(k)) = k

LEMMA SpotsDecode ==
  ASSUME NEW nb \in Nat, NEW m, m = nb * (4 * Vec)
  PROVE  SpotOfPosition(nb, m) /\ PositionOfSpot(nb, m)
<1> DEFINE V == Vec
           F == 4 * V
<1>1. V \in Nat \ {0} /\ F \in Nat \ {0} /\ F = 4 * V
  BY VecIs
<1>2. m = nb * F
  OBVIOUS
<1>3. PlaceOfPair(nb, F) /\ PairOfPlace(nb, F) /\ PlaceOfPair(4, V) /\ PairOfPlace(4, V)
  <2> HIDE DEF F
  <2> QED BY <1>1, InBlocks
<1>4. /\ \A b \in 0..(nb - 1), y \in 0..(F - 1) :
           b * F + y \in 0..(m - 1) /\ (b * F + y) \div F = b /\ (b * F + y) % F = y
      /\ \A k \in 0..(m - 1) : k \div F \in 0..(nb - 1) /\ k % F \in 0..(F - 1) /\ (k \div F) * F + (k % F) = k
  <2> HIDE DEF F
  <2> QED BY <1>2, <1>3 DEF PlaceOfPair, PairOfPlace
<1>5. /\ \A g \in 0..3, j \in 0..(V - 1) :
           g * V + j \in 0..(F - 1) /\ (g * V + j) \div V = g /\ (g * V + j) % V = j
      /\ \A y \in 0..(F - 1) : y \div V \in 0..3 /\ y % V \in 0..(V - 1) /\ (y \div V) * V + (y % V) = y
  <2>1. 0..(4 - 1) = 0..3 /\ F = 4 * V
    OBVIOUS
  <2>2. PlaceOfPair(4, V) /\ PairOfPlace(4, V)
    BY <1>3
  <2> HIDE DEF F, V
  <2>3. \A g \in 0..(4 - 1), j \in 0..(V - 1) :
          g * V + j \in 0..(4 * V - 1) /\ (g * V + j) \div V = g /\ (g * V + j) % V = j
    BY <2>2 DEF PlaceOfPair
  <2>4. \A y \in 0..(4 * V - 1) : y \div V \in 0..(4 - 1) /\ y % V \in 0..(V - 1) /\ (y \div V) * V + (y % V) = y
    BY <2>2 DEF PairOfPlace
  <2> QED BY <2>1, <2>3, <2>4, Zenon
<1>6. ASSUME NEW b \in Nat, NEW g \in 0..3, NEW j \in 0..(V - 1)
      PROVE  /\ b * 4 * V + g * V + j = b * F + (g * V + j)
             /\ (b * F + (g * V + j)) % V = j
  <2> DEFINE e == b * V
             h == g * V
             q == 4 * b + g
  <2>1. e \in Nat /\ h \in Nat /\ q \in Nat
    BY <1>1
  <2>2. b * 4 * V = 4 * e /\ b * F = 4 * e /\ q * V = 4 * e + h
    BY <1>1
  <2>3. (q * V + j) % V = j
    BY <1>1, <2>1, DivisionUnique
  <2> HIDE DEF e, h, q
  <2>4. 4 * e + h + j = 4 * e + (h + j) /\ 4 * e + (h + j) = q * V + j
    BY <1>1, <2>1, <2>2
  <2> QED BY <2>2, <2>3, <2>4 DEF h
<1> HIDE DEF F, V
<1>7. ASSUME NEW x \in Spots(nb)
      PROVE  PlaceOf(x) \in 0..(m - 1) /\ SpotOf(PlaceOf(x)) = x /\ Field(PlaceOf(x)) = FieldAt(x)
  <2> DEFINE b == x[1]
             g == x[2]
             j == x[3]
             y == g * V + j
             k == b * F + y
  <2>1. b \in 0..(nb - 1) /\ g \in 0..3 /\ j \in 0..(V - 1) /\ x = <<b, g, j>> /\ b \in Nat
    BY DEF Spots, V
  <2> HIDE DEF b, g, j
  <2>2. y \in 0..(F - 1) /\ y \div V = g /\ k % V = j /\ b * 4 * V + g * V + j = k
    BY <1>5, <1>6, <2>1
  <2> HIDE DEF y
  <2>3. k \in 0..(m - 1) /\ k \div F = b /\ k % F = y
    BY <1>4, <2>1, <2>2
  <2> HIDE DEF k
  <2>4. PlaceOf(x) = k
    BY <2>2 DEF PlaceOf, V, b, g, j
  <2>5. SpotOf(k) = <<b, g, j>>
    BY <2>2, <2>3 DEF SpotOf, V, F
  <2>6. Field(k) = <<b * V + j, g>>
    BY <2>2, <2>3 DEF Field, V, F
  <2>7. FieldAt(x) = <<b * V + j, g>>
    BY DEF FieldAt, V, b, g, j
  <2> QED BY <2>1, <2>3, <2>4, <2>5, <2>6, <2>7
<1>8. ASSUME NEW k \in 0..(m - 1) PROVE SpotOf(k) \in Spots(nb) /\ PlaceOf(SpotOf(k)) = k
  <2> DEFINE b == k \div F
             y == k % F
             g == y \div V
             j == y % V
  <2>1. b \in 0..(nb - 1) /\ y \in 0..(F - 1) /\ b * F + y = k /\ b \in Nat
    BY <1>4
  <2> HIDE DEF b, y
  <2>2. g \in 0..3 /\ j \in 0..(V - 1) /\ g * V + j = y
    BY <1>5, <2>1
  <2> HIDE DEF g, j
  <2>3. b * 4 * V + g * V + j = k /\ k % V = j
    BY <1>6, <2>1, <2>2
  <2>4. SpotOf(k) = <<b, g, j>>
    BY <2>3 DEF SpotOf, V, F, b, g, y
  <2>5. <<b, g, j>> \in Spots(nb)
    BY <2>1, <2>2 DEF Spots, V
  <2>6. PlaceOf(<<b, g, j>>) = k
    BY <2>3 DEF PlaceOf, V
  <2> QED BY <2>4, <2>5, <2>6
<1> QED BY <1>7, <1>8 DEF SpotOfPosition, PositionOfSpot

LEMMA SpreadWhole ==
  ASSUME NEW nb \in Nat, NEW entry, NEW T, T = Spread(nb, entry), NEW m, m = nb * (4 * Vec)
  PROVE  OneTermEach(T, m, Fields(m))
<1> DEFINE own == Fields(m)
           tag == [k \in 0..(m - 1) |-> entry[SpotOf(k)]]
           U == {<<tag[k][1], tag[k][2], own[k], k>> : k \in 0..(m - 1)}
<1>1. \A k \in 0..(m - 1) : own[k] = Field(k) /\ tag[k] = entry[SpotOf(k)]
  BY DEF Fields
<1>2. SpotOfPosition(nb, m) /\ PositionOfSpot(nb, m)
  BY SpotsDecode
<1> HIDE DEF own, tag
<1>3. ASSUME NEW t \in T PROVE t \in U
  <2>1. PICK x \in Spots(nb) : t = <<entry[x][1], entry[x][2], FieldAt(x), PlaceOf(x)>>
    BY DEF Spread
  <2> DEFINE k == PlaceOf(x)
  <2>2. k \in 0..(m - 1) /\ SpotOf(k) = x /\ Field(k) = FieldAt(x)
    BY <1>2 DEF SpotOfPosition
  <2> HIDE DEF k
  <2>3. t = <<tag[k][1], tag[k][2], own[k], k>>
    BY <1>1, <2>1, <2>2 DEF k
  <2> QED BY <2>2, <2>3
<1>4. ASSUME NEW t \in U PROVE t \in T
  <2>1. PICK k \in 0..(m - 1) : t = <<tag[k][1], tag[k][2], own[k], k>>
    OBVIOUS
  <2> DEFINE x == SpotOf(k)
  <2>2. x \in Spots(nb) /\ PlaceOf(x) = k
    BY <1>2 DEF PositionOfSpot
  <2>3. tag[k] = entry[x] /\ own[k] = Field(k)
    BY <1>1
  <2> HIDE DEF x
  <2>4. Field(k) = FieldAt(x)
    BY <1>2, <2>2 DEF SpotOfPosition
  <2>5. t = <<entry[x][1], entry[x][2], FieldAt(x), PlaceOf(x)>>
    BY <2>1, <2>2, <2>3, <2>4
  <2> QED BY <2>2, <2>5 DEF Spread
<1>5. T = U
  BY <1>3, <1>4
<1> QED BY <1>5 DEF OneTermEach, Tagged, own

Entry(entry, x) == <<entry[x][1], entry[x][2], FieldAt(x), PlaceOf(x)>>

LEMMA SpotParts ==
  ASSUME NEW nb \in Nat
  PROVE  /\ \A b \in 0..(nb - 1), g \in 0..3, j \in 0..(Vec - 1) :
               /\ <<b, g, j>> \in Spots(nb)
               /\ FieldAt(<<b, g, j>>) = <<b * Vec + j, g>>
               /\ PlaceOf(<<b, g, j>>) = b * 4 * Vec + g * Vec + j
         /\ \A x \in Spots(nb) : \E b \in 0..(nb - 1), g \in 0..3, j \in 0..(Vec - 1) : x = <<b, g, j>>
BY DEF Spots, FieldAt, PlaceOf

LEMMA Avx2Fields ==
  ASSUME NEW n \in Nat
  PROVE  OneTermEach(I2Avx2(n), (n \div (4 * Vec)) * (4 * Vec), Fields((n \div (4 * Vec)) * (4 * Vec)))
<1> DEFINE nb == n \div (4 * Vec)
           m == nb * (4 * Vec)
           T == I2Avx2(n)
           lane == [k \in 0..(Vec - 1) |-> k \div 2]
           entry == [x \in Spots(nb) |-> <<x[1] \div Flush, x[3] \div 2>>]
<1>1. nb \in Nat
  <2>1. 4 * Vec \in Nat \ {0}
    BY VecIs
  <2> QED BY <2>1, DivisionBounds
<1>2. T = UNION {I2Step(b \div Flush, lane, b) : b \in 0..(nb - 1)}
  BY DEF I2Avx2
<1>3. \A k \in 0..(Vec - 1) : lane[k] = k \div 2
  OBVIOUS
<1>4. \A b \in 0..(nb - 1), g \in 0..3, j \in 0..(Vec - 1) :
        LET x == <<b, g, j>>
        IN  x \in Spots(nb) /\ Entry(entry, x) = <<b \div Flush, lane[j], <<b * Vec + j, g>>, b * 4 * Vec + g * Vec + j>>
  <2> HIDE DEF nb
  <2> TAKE b \in 0..(nb - 1), g \in 0..3, j \in 0..(Vec - 1)
  <2> DEFINE x == <<b, g, j>>
  <2>1. x \in Spots(nb) /\ FieldAt(x) = <<b * Vec + j, g>> /\ PlaceOf(x) = b * 4 * Vec + g * Vec + j
    BY <1>1, SpotParts
  <2>2. entry[x] = <<b \div Flush, j \div 2>>
    BY <2>1
  <2> HIDE DEF entry, lane
  <2> QED BY <1>3, <2>1, <2>2 DEF Entry
<1> HIDE DEF T, lane, entry, nb
<1>5. ASSUME NEW t \in T PROVE t \in Spread(nb, entry)
  <2>1. PICK b \in 0..(nb - 1) : t \in I2Step(b \div Flush, lane, b)
    BY <1>2
  <2>2. PICK j \in 0..(Vec - 1), g \in 0..3 :
          t = <<b \div Flush, lane[j], <<b * Vec + j, g>>, b * 4 * Vec + g * Vec + j>>
    BY <2>1 DEF I2Step
  <2>3. <<b, g, j>> \in Spots(nb) /\ t = Entry(entry, <<b, g, j>>)
    BY <1>4, <2>2
  <2> QED BY <2>3 DEF Spread, Entry
<1>6. ASSUME NEW t \in Spread(nb, entry) PROVE t \in T
  <2>1. PICK x \in Spots(nb) : t = Entry(entry, x)
    BY DEF Spread, Entry
  <2>2. PICK b \in 0..(nb - 1), g \in 0..3, j \in 0..(Vec - 1) : x = <<b, g, j>>
    BY <1>1, SpotParts
  <2>3. t \in I2Step(b \div Flush, lane, b)
    BY <1>4, <2>1, <2>2 DEF I2Step
  <2> QED BY <1>2, <2>3
<1>7. T = Spread(nb, entry)
  BY <1>5, <1>6
<1>8. OneTermEach(T, m, Fields(m))
  BY <1>1, <1>7, SpreadWhole
<1> QED BY <1>8 DEF m, nb, T

(***************************************************************************)
(* NEON takes half a block in a step.                                      *)
(***************************************************************************)
HalfEntry(dotprod, b, j) ==
  <<IF dotprod THEN Wide ELSE (2 * b + (j \div Half)) \div Flush, (j % Half) % (Half \div 2)>>
HalfEntries(dotprod, nb) == [x \in Spots(nb) |-> HalfEntry(dotprod, x[1], x[3])]
HalfTerms(dotprod, nb) ==
  {<<IF dotprod THEN Wide ELSE u \div Flush, k % (Half \div 2),
     <<u * Half + k, g>>, NeonBase(u) + g * Vec + k>> :
     u \in 0..(2 * nb - 1), k \in 0..(Half - 1), g \in 0..3}

\* Half h of block b.
LEMMA HalfIs ==
  ASSUME NEW b \in Nat, NEW h \in 0..1, NEW k \in 0..(Half - 1)
  PROVE  /\ (2 * b + h) * Half + k = b * Vec + (h * Half + k)
         /\ NeonBase(2 * b + h) = b * 4 * Vec + h * Half
         /\ h * Half + k \in 0..(Vec - 1)
         /\ (h * Half + k) \div Half = h /\ (h * Half + k) % Half = k
<1>1. Half \in Nat \ {0} /\ Vec = 2 * Half
  BY VecIs
<1>2. (b * 2 + h) \div 2 = b /\ (b * 2 + h) % 2 = h /\ b * 2 + h = 2 * b + h
  BY DivisionUnique
<1>3. (h * Half + k) \div Half = h /\ (h * Half + k) % Half = k
  BY <1>1, DivisionUnique
<1>4. CASE h = 0
  BY <1>1, <1>2, <1>3, <1>4 DEF NeonBase
<1>5. CASE h = 1
  BY <1>1, <1>2, <1>3, <1>5 DEF NeonBase
<1> QED BY <1>4, <1>5

LEMMA HalvesWhole ==
  ASSUME NEW nb \in Nat, NEW dotprod \in BOOLEAN
  PROVE  OneTermEach(HalfTerms(dotprod, nb), nb * (4 * Vec), Fields(nb * (4 * Vec)))
<1> DEFINE T == HalfTerms(dotprod, nb)
           entry == HalfEntries(dotprod, nb)
           m == nb * (4 * Vec)
           Term(u, k, g) == <<IF dotprod THEN Wide ELSE u \div Flush, k % (Half \div 2),
                              <<u * Half + k, g>>, NeonBase(u) + g * Vec + k>>
<1>1. Half \in Nat \ {0} /\ Vec = 2 * Half /\ Vec \in Nat
  BY VecIs
<1>2. ASSUME NEW b \in 0..(nb - 1), NEW h \in 0..1, NEW k \in 0..(Half - 1), NEW g \in 0..3
      PROVE  /\ <<b, g, h * Half + k>> \in Spots(nb)
             /\ Entry(entry, <<b, g, h * Half + k>>) = Term(2 * b + h, k, g)
  <2> DEFINE j == h * Half + k
             x == <<b, g, j>>
             u == 2 * b + h
  <2>1. /\ b \in Nat /\ u * Half + k = b * Vec + j /\ NeonBase(u) = b * 4 * Vec + h * Half
        /\ j \in 0..(Vec - 1) /\ j \div Half = h /\ j % Half = k
    <3>1. b \in Nat
      OBVIOUS
    <3> QED BY <3>1, HalfIs
  <2>2. h * Half \in Nat /\ g * Vec \in Nat /\ b * 4 * Vec \in Nat /\ k \in Nat
    BY <1>1, <2>1
  <2>3. NeonBase(u) + g * Vec + k = b * 4 * Vec + g * Vec + j
    <3> DEFINE p == h * Half
               q == g * Vec
               r == b * 4 * Vec
    <3>1. p \in Nat /\ q \in Nat /\ r \in Nat /\ k \in Nat /\ j = p + k /\ NeonBase(u) = r + p
      BY <2>1, <2>2
    <3> HIDE DEF p, q, r, j, u
    <3>2. NeonBase(u) + q + k = r + q + j
      BY <3>1
    <3> QED BY <3>2 DEF q, r
  <2> HIDE DEF j
  <2>4. x \in Spots(nb) /\ FieldAt(x) = <<b * Vec + j, g>> /\ PlaceOf(x) = b * 4 * Vec + g * Vec + j
    <3>1. j \in 0..(Vec - 1)
      BY <2>1
    <3> HIDE DEF j, u
    <3> QED BY <3>1, SpotParts, ZenonT(60)
  <2>5. entry[x] = HalfEntry(dotprod, b, j)
    BY <2>4 DEF HalfEntries
  <2>6. HalfEntry(dotprod, b, j) = <<IF dotprod THEN Wide ELSE u \div Flush, k % (Half \div 2)>>
    BY <2>1 DEF HalfEntry
  <2> HIDE DEF u, entry
  <2>7. Entry(entry, x) = Term(u, k, g)
    BY <2>1, <2>3, <2>4, <2>5, <2>6 DEF Entry
  <2> QED BY <2>4, <2>7 DEF u, j
<1> HIDE DEF entry
<1>3. ASSUME NEW t \in T PROVE t \in Spread(nb, entry)
  <2>1. PICK u \in 0..(2 * nb - 1), k \in 0..(Half - 1), g \in 0..3 : t = Term(u, k, g)
    BY DEF HalfTerms
  <2> DEFINE b == u \div 2
             h == u % 2
  <2>2. b \in 0..(nb - 1) /\ h \in 0..1 /\ u = 2 * b + h
    OBVIOUS
  <2> HIDE DEF Term, b, h
  <2>3. <<b, g, h * Half + k>> \in Spots(nb) /\ Entry(entry, <<b, g, h * Half + k>>) = t
    BY <1>2, <2>1, <2>2
  <2> QED BY <2>3 DEF Spread, Entry
<1>4. ASSUME NEW t \in Spread(nb, entry) PROVE t \in T
  <2>1. PICK x \in Spots(nb) : t = Entry(entry, x)
    BY DEF Spread, Entry
  <2>2. PICK b \in 0..(nb - 1), g \in 0..3, j \in 0..(Vec - 1) : x = <<b, g, j>>
    BY SpotParts
  <2> DEFINE h == j \div Half
             k == j % Half
  <2>3. h \in Nat /\ k \in 0..(Half - 1) /\ j = h * Half + k
    <3>1. j \in Nat
      BY <1>1
    <3> QED BY <1>1, <3>1, DivisionOf
  <2>4. h \in 0..1
    <3>1. j < 2 * Half /\ j \in Nat
      BY <1>1
    <3> HIDE DEF h, k
    <3> SUFFICES ASSUME 2 <= h PROVE FALSE
      BY <2>3
    <3>2. Half * 2 <= Half * h
      BY <1>1, <2>3, ProductMonotone
    <3>3. Half * h = h * Half /\ h * Half \in Nat
      BY <1>1, <2>3
    <3> QED BY <1>1, <2>3, <3>1, <3>2, <3>3
  <2> HIDE DEF h, k, Term
  <2>5. t = Term(2 * b + h, k, g)
    BY <1>2, <2>1, <2>2, <2>3, <2>4
  <2>6. 2 * b + h \in 0..(2 * nb - 1)
    BY <2>4
  <2> QED BY <2>3, <2>5, <2>6 DEF HalfTerms, Term
<1> HIDE DEF T
<1>5. T = Spread(nb, entry)
  BY <1>3, <1>4
<1>6. OneTermEach(T, m, Fields(m))
  BY <1>5, SpreadWhole
<1> QED BY <1>6 DEF m, T

\* A whole number of blocks has twice as many halves.
LEMMA HalvesOf ==
  ASSUME NEW n \in Nat, n % (4 * Vec) = 0
  PROVE  n \div (4 * Vec) \in Nat /\ n \div (2 * Vec) = 2 * (n \div (4 * Vec))
<1> DEFINE F == 4 * Vec
           G == 2 * Vec
           nb == n \div F
<1>1. F \in Nat \ {0} /\ G \in Nat \ {0} /\ F = 2 * G
  BY VecIs
<1> HIDE DEF F, G
<1>2. nb \in Nat /\ n = nb * F + 0
  BY <1>1, DivisionOf DEF F
<1> HIDE DEF nb
<1>3. n = (2 * nb) * G + 0
  BY <1>1, <1>2
<1>4. ((2 * nb) * G + 0) \div G = 2 * nb
  <2>1. 2 * nb \in Nat /\ 0 \in 0..(G - 1)
    BY <1>1, <1>2
  <2> QED BY <1>1, <2>1, DivisionUnique
<1> QED BY <1>2, <1>3, <1>4 DEF nb, F, G

LEMMA NeonFields ==
  ASSUME NEW n \in Nat, n % (4 * Vec) = 0, NEW dotprod \in BOOLEAN
  PROVE  OneTermEach(I2Neon(n, dotprod), (n \div (4 * Vec)) * (4 * Vec), Fields((n \div (4 * Vec)) * (4 * Vec)))
<1> DEFINE nb == n \div (4 * Vec)
<1>1. nb \in Nat /\ n \div (2 * Vec) = 2 * nb
  BY HalvesOf
<1>2. I2Neon(n, dotprod) = HalfTerms(dotprod, nb)
  BY <1>1 DEF I2Neon, HalfTerms
<1> HIDE DEF nb
<1>3. OneTermEach(HalfTerms(dotprod, nb), nb * (4 * Vec), Fields(nb * (4 * Vec)))
  BY <1>1, HalvesWhole
<1> QED BY <1>2, <1>3 DEF nb

\* Stepping by 16 and 112 bytes from a base taken once per group reaches the same place.
LEMMA ColumnBase ==
  ASSUME NEW u \in Nat
  PROVE  NeonColBase(u) = NeonBase(u)
<1> DEFINE j == u % Flush
           a == u \div Flush
           i == j \div 2
           h == j % 2
<1>1. Flush \in Nat \ {0} /\ Flush % 2 = 0
  BY DotAssumption
<1>2. PICK f \in Nat : Flush = 2 * f
  <2>1. Flush \div 2 \in Nat /\ Flush = 2 * (Flush \div 2)
    BY <1>1
  <2> QED BY <2>1
<1>3. a \in Nat /\ j \in Nat /\ u = a * Flush + j
  BY <1>1, DivisionOf
<1>4. i \in Nat /\ h \in 0..1 /\ j = 2 * i + h
  <2>1. j \in Nat
    BY <1>3
  <2> HIDE DEF j
  <2> QED BY <2>1
<1> HIDE DEF i, h
<1>5. (j + 1) \div 2 = i + h
  <2> HIDE DEF j
  <2> QED BY <1>3, <1>4
<1>6. j \div 2 = i
  BY DEF i
<1> DEFINE e == a * f
<1>7. e \in Nat /\ u - j = 2 * e /\ u = 2 * (e + i) + h
  <2>1. e \in Nat /\ a * Flush = 2 * e
    <3>1. a \in Nat /\ f \in Nat /\ Flush = 2 * f
      BY <1>2, <1>3
    <3> HIDE DEF a
    <3> QED BY <3>1, SMTT(30)
  <2> HIDE DEF e, j
  <2> QED BY <1>3, <1>4, <2>1
<1> HIDE DEF e, j, a
<1>8. (2 * e) \div 2 = e /\ (2 * e) % 2 = 0
  BY <1>7
<1>9. u \div 2 = e + i /\ u % 2 = h
  BY <1>4, <1>7
<1>10. Half \in Nat /\ Vec = 2 * Half
  BY VecIs
<1>11. NeonBase(2 * e) = e * 4 * Vec
  BY <1>7, <1>8, <1>10 DEF NeonBase
<1>12. NeonBase(u) = (e + i) * 4 * Vec + h * Half
  BY <1>9 DEF NeonBase
<1>13. NeonColBase(u) = NeonBase(u - j) + (i + h) * Half + i * (4 * Vec - Half)
  BY <1>5, <1>6 DEF NeonColBase, j
<1>14. e * 4 * Vec + (i + h) * Half + i * (4 * Vec - Half) = (e + i) * 4 * Vec + h * Half
  BY <1>4, <1>7, <1>10
<1> QED BY <1>7, <1>11, <1>12, <1>13, <1>14

LEMMA NeonColFields ==
  ASSUME NEW n \in Nat, n % (4 * Vec) = 0, NEW dotprod \in BOOLEAN
  PROVE  OneTermEach(I2NeonCols(n, dotprod), (n \div (4 * Vec)) * (4 * Vec), Fields((n \div (4 * Vec)) * (4 * Vec)))
<1>1. \A u \in 0..(n \div (2 * Vec) - 1) : NeonColBase(u) = NeonBase(u)
  BY ColumnBase
<1>2. I2NeonCols(n, dotprod) = I2Neon(n, dotprod)
  BY <1>1 DEF I2NeonCols, I2Neon
<1> QED BY <1>2, NeonFields

(***************************************************************************)
(* VNNI takes two blocks at a time, their words permuted.                  *)
(***************************************************************************)
LEMMA PermuteIs ==
  ASSUME NEW a, NEW index, NEW b, NEW i \in 0..7
  PROVE  Permute(a, index, b)[i] = IF index[i] < 8 THEN a[index[i]] ELSE b[index[i] - 8]
BY DEF Permute

LEMMA PermsAre ==
  \A i \in 0..7 : /\ PermLo[i] = (IF i < 4 THEN i ELSE i + 4)
                  /\ PermHi[i] = (IF i < 4 THEN i + 4 ELSE i + 8)
BY DEF PermLo, PermHi

LEMMA WordOf ==
  \A i \in 0..7 : /\ i \div 4 \in 0..1 /\ i % 4 \in 0..3
                  /\ i < 4 => i \div 4 = 0 /\ i % 4 = i
                  /\ ~(i < 4) => i \div 4 = 1 /\ i % 4 = i - 4
OBVIOUS

LEMMA ActWordsAre ==
  ASSUME NEW b \in Nat, NEW g \in 0..3, NEW i \in 0..7
  PROVE  ActWords(b)[g][i] = 16 * (b + (i \div 4)) + 4 * g + (i % 4)
<1> DEFINE Y(r) == [k \in 0..7 |-> 16 * b + 8 * r + k]
           index == IF g % 2 = 0 THEN PermLo ELSE PermHi
           u == g \div 2
           e == index[i]
<1>1. ActWords(b)[g] = Permute(Y(u), index, Y(u + 2))
  BY DEF ActWords
<1>2. \A r \in Nat : \A k \in 0..7 : Y(r)[k] = 16 * b + 8 * r + k
  OBVIOUS
<1> HIDE DEF Y, index
<1>3. ActWords(b)[g][i] = IF e < 8 THEN Y(u)[e] ELSE Y(u + 2)[e - 8]
  BY <1>1, PermuteIs
<1>4. u \in Nat /\ g % 2 \in 0..1 /\ g = 2 * u + (g % 2)
  OBVIOUS
<1>5. e = IF g % 2 = 0 THEN (IF i < 4 THEN i ELSE i + 4) ELSE (IF i < 4 THEN i + 4 ELSE i + 8)
  BY PermsAre DEF index
<1>6. /\ i < 4 => i \div 4 = 0 /\ i % 4 = i
      /\ ~(i < 4) => i \div 4 = 1 /\ i % 4 = i - 4
  BY WordOf
<1> HIDE DEF u, e
<1>7. CASE i < 4
  <2>1. e \in 0..7 /\ e < 8 /\ e = i + 4 * (g % 2)
    BY <1>4, <1>5, <1>7
  <2>2. ActWords(b)[g][i] = 16 * b + 8 * u + e
    BY <1>2, <1>3, <1>4, <2>1
  <2> QED BY <1>4, <1>6, <1>7, <2>1, <2>2
<1>8. CASE ~(i < 4)
  <2>1. e - 8 \in 0..7 /\ ~(e < 8) /\ e - 8 = i - 4 + 4 * (g % 2)
    BY <1>4, <1>5, <1>8
  <2>2. ActWords(b)[g][i] = 16 * b + 8 * (u + 2) + (e - 8)
    <3>1. u + 2 \in Nat
      BY <1>4
    <3> QED BY <1>2, <1>3, <2>1, <3>1
  <2> QED BY <1>4, <1>6, <1>8, <2>1, <2>2
<1> QED BY <1>7, <1>8

LEMMA WeightWordsAre ==
  ASSUME NEW b \in Nat, NEW r \in 0..3, NEW i \in 0..7
  PROVE  WeightWords(b)[r][i] = <<4 * (b + (r \div 2)) + (i % 4), 2 * (r % 2) + (i \div 4)>>
<1> DEFINE G(g) == [k \in 0..7 |-> <<4 * b + k, g>>]
           index == IF r < 2 THEN PermLo ELSE PermHi
           u == 2 * (r % 2)
           e == index[i]
<1>1. WeightWords(b)[r] = Permute(G(u), index, G(u + 1))
  BY DEF WeightWords
<1>2. \A g \in Nat : \A k \in 0..7 : G(g)[k] = <<4 * b + k, g>>
  OBVIOUS
<1> HIDE DEF G, index
<1>3. WeightWords(b)[r][i] = IF e < 8 THEN G(u)[e] ELSE G(u + 1)[e - 8]
  BY <1>1, PermuteIs
<1>4. u \in Nat /\ u + 1 \in Nat /\ r \div 2 \in 0..1 /\ (r < 2 <=> r \div 2 = 0) /\ u = 2 * (r % 2)
  OBVIOUS
<1>5. e = IF r < 2 THEN (IF i < 4 THEN i ELSE i + 4) ELSE (IF i < 4 THEN i + 4 ELSE i + 8)
  BY PermsAre DEF index
<1>6. /\ i < 4 => i \div 4 = 0 /\ i % 4 = i
      /\ ~(i < 4) => i \div 4 = 1 /\ i % 4 = i - 4
  BY WordOf
<1> HIDE DEF u, e
<1>7. CASE i < 4
  <2>1. e \in 0..7 /\ e < 8 /\ e = i + 4 * (r \div 2)
    BY <1>4, <1>5, <1>7
  <2>2. WeightWords(b)[r][i] = <<4 * b + e, u>>
    BY <1>2, <1>3, <1>4, <2>1
  <2>3. 4 * b + e = 4 * (b + (r \div 2)) + (i % 4) /\ u = 2 * (r % 2) + (i \div 4)
    BY <1>4, <1>6, <1>7, <2>1
  <2> QED BY <2>2, <2>3
<1>8. CASE ~(i < 4)
  <2>1. e - 8 \in 0..7 /\ ~(e < 8) /\ e - 8 = i - 4 + 4 * (r \div 2)
    BY <1>4, <1>5, <1>8
  <2>2. WeightWords(b)[r][i] = <<4 * b + (e - 8), u + 1>>
    BY <1>2, <1>3, <1>4, <2>1
  <2>3. 4 * b + (e - 8) = 4 * (b + (r \div 2)) + (i % 4) /\ u + 1 = 2 * (r % 2) + (i \div 4)
    BY <1>4, <1>6, <1>8, <2>1
  <2> QED BY <2>2, <2>3
<1> QED BY <1>7, <1>8

\* Byte t of word w of group g of block b: byte j of the group.
WordPlace(b, g, w, t, j) ==
  /\ (4 * b + w) * Word + t = b * Vec + j
  /\ (16 * b + 4 * g + w) * Word + t = b * 4 * Vec + g * Vec + j
  /\ j \in 0..(Vec - 1)

LEMMA WordAt ==
  ASSUME NEW b \in Nat, NEW g \in 0..3, NEW w \in 0..3, NEW t \in 0..(Word - 1), NEW j, j = w * Word + t
  PROVE  WordPlace(b, g, w, t, j)
<1>1. Word \in Nat \ {0} /\ Vec = 4 * Word
  BY VecIs
<1> DEFINE e == b * Word
           h == g * Word
           l == w * Word
<1>2. e \in Nat /\ h \in Nat /\ l \in Nat /\ t \in Nat
  BY <1>1
<1>3. (4 * b + w) * Word = 4 * e + l /\ b * Vec = 4 * e
  BY <1>1
<1>4. (16 * b + 4 * g + w) * Word = 16 * e + 4 * h + l /\ b * 4 * Vec = 16 * e /\ g * Vec = 4 * h
  BY <1>1
<1>5. l + t \in 0..(Vec - 1)
  <2>1. Word * (w + 1) <= Word * 4
    BY <1>1, ProductMonotone
  <2>2. Word * (w + 1) = l + Word
    BY <1>1
  <2> QED BY <1>1, <1>2, <2>1, <2>2
<1>6. j = l + t
  OBVIOUS
<1> HIDE DEF e, h, l
<1>7. 4 * e + l + t = 4 * e + (l + t) /\ 16 * e + 4 * h + l + t = 16 * e + 4 * h + (l + t)
  BY <1>2
<1> QED BY <1>3, <1>4, <1>5, <1>6, <1>7 DEF WordPlace

\* A last block without a partner is taken by the step of AVX2.
Odd(nb, b) == nb % 2 = 1 /\ b = nb - 1
RowEntries(nb) == [x \in Spots(nb) |-> IF Odd(nb, x[1]) THEN <<Wide, 4>> ELSE <<Wide, x[2]>>]
ColEntries(nb) ==
  [x \in Spots(nb) |-> IF Odd(nb, x[1]) THEN <<Wide, 4>> ELSE <<Wide, 2 * (x[1] % 2) + (x[2] \div 2)>>]
PairPart(P, nb, entry) == P = {Entry(entry, x) : x \in {y \in Spots(nb) : ~Odd(nb, y[1])}}

LEMMA WithOdd ==
  ASSUME NEW n \in Nat, NEW nb \in Nat, nb = n \div (4 * Vec), NEW entry, NEW P, PairPart(P, nb, entry),
         \A x \in Spots(nb) : Odd(nb, x[1]) => entry[x] = <<Wide, 4>>
  PROVE  I2Odd(n) \cup P = Spread(nb, entry)
<1> DEFINE lane == [k \in 0..(Vec - 1) |-> 4]
<1>1. I2Odd(n) = IF nb % 2 = 1 THEN I2Step(Wide, lane, nb - 1) ELSE {}
  BY DEF I2Odd
<1>2. \A j \in 0..(Vec - 1) : lane[j] = 4
  OBVIOUS
<1> HIDE DEF lane
<1>3. ASSUME NEW g \in 0..3, NEW j \in 0..(Vec - 1), nb % 2 = 1
      PROVE  /\ <<nb - 1, g, j>> \in Spots(nb) /\ Odd(nb, nb - 1)
             /\ Entry(entry, <<nb - 1, g, j>>)
                  = <<Wide, lane[j], <<(nb - 1) * Vec + j, g>>, (nb - 1) * 4 * Vec + g * Vec + j>>
  <2> DEFINE b == nb - 1
             x == <<b, g, j>>
  <2>1. b \in 0..(nb - 1) /\ Odd(nb, b)
    BY <1>3 DEF Odd
  <2> HIDE DEF b
  <2>2. x \in Spots(nb) /\ FieldAt(x) = <<b * Vec + j, g>> /\ PlaceOf(x) = b * 4 * Vec + g * Vec + j
    BY <2>1 DEF Spots, FieldAt, PlaceOf
  <2>3. entry[x] = <<Wide, 4>>
    BY <2>1, <2>2
  <2>4. Entry(entry, x) = <<Wide, lane[j], <<b * Vec + j, g>>, b * 4 * Vec + g * Vec + j>>
    BY <1>2, <2>2, <2>3 DEF Entry
  <2> QED BY <2>1, <2>2, <2>4 DEF b
<1>4. ASSUME NEW t \in I2Odd(n) PROVE t \in Spread(nb, entry)
  <2>1. nb % 2 = 1 /\ t \in I2Step(Wide, lane, nb - 1)
    BY <1>1
  <2>2. PICK j \in 0..(Vec - 1), g \in 0..3 :
          t = <<Wide, lane[j], <<(nb - 1) * Vec + j, g>>, (nb - 1) * 4 * Vec + g * Vec + j>>
    BY <2>1 DEF I2Step
  <2>3. <<nb - 1, g, j>> \in Spots(nb) /\ t = Entry(entry, <<nb - 1, g, j>>)
    BY <1>3, <2>1, <2>2
  <2> QED BY <2>3 DEF Spread, Entry
<1>5. ASSUME NEW t \in P PROVE t \in Spread(nb, entry)
  BY DEF PairPart, Spread, Entry
<1>6. ASSUME NEW t \in Spread(nb, entry) PROVE t \in I2Odd(n) \cup P
  <2>1. PICK x \in Spots(nb) : t = Entry(entry, x)
    BY DEF Spread, Entry
  <2>2. CASE Odd(nb, x[1])
    <3>1. PICK b \in 0..(nb - 1), g \in 0..3, j \in 0..(Vec - 1) : x = <<b, g, j>>
      BY SpotParts
    <3>2. nb % 2 = 1 /\ x = <<nb - 1, g, j>>
      BY <2>2, <3>1 DEF Odd
    <3>3. t = <<Wide, lane[j], <<(nb - 1) * Vec + j, g>>, (nb - 1) * 4 * Vec + g * Vec + j>>
      BY <1>3, <2>1, <3>2
    <3>4. t \in I2Step(Wide, lane, nb - 1)
      BY <3>3 DEF I2Step
    <3> QED BY <1>1, <3>2, <3>4
  <2>3. CASE ~Odd(nb, x[1])
    BY <2>1, <2>3 DEF PairPart
  <2> QED BY <2>2, <2>3
<1> QED BY <1>4, <1>5, <1>6

PairStarts(nb) == {b \in 0..nb : b % 2 = 0 /\ b + 2 <= nb}
RowTerm(b, g, i, t) == <<Wide, g, <<(4 * b + i) * Word + t, g>>, ActWords(b)[g][i] * Word + t>>
ColTerm(b, r, i, t) ==
  <<Wide, r, <<WeightWords(b)[r][i][1] * Word + t, WeightWords(b)[r][i][2]>>, (16 * b + 8 * r + i) * Word + t>>

\* Block d of a pair.
LEMMA PairBlock ==
  ASSUME NEW nb \in Nat, NEW b \in PairStarts(nb), NEW d \in 0..1, NEW c, c = b + d
  PROVE  b \in Nat /\ c \in 0..(nb - 1) /\ c \in Nat /\ c % 2 = d /\ ~Odd(nb, c)
<1>1. b \in Nat /\ b % 2 = 0 /\ b + 2 <= nb
  BY DEF PairStarts
<1>2. c % 2 = d
  BY <1>1
<1> QED BY <1>1, <1>2 DEF Odd

\* The pair of a block.
LEMMA PairOfBlock ==
  ASSUME NEW nb \in Nat, NEW c \in 0..(nb - 1), ~Odd(nb, c)
  PROVE  c % 2 \in 0..1 /\ c - (c % 2) \in PairStarts(nb)
<1>1. c % 2 \in 0..1 /\ (c - (c % 2)) % 2 = 0 /\ c - (c % 2) \in 0..nb
  OBVIOUS
<1>2. c - (c % 2) + 2 <= nb
  BY <1>1 DEF Odd
<1> QED BY <1>1, <1>2 DEF PairStarts

\* The word and the byte of a position within Vec.
LEMMA WordOfByte ==
  ASSUME NEW j \in 0..(Vec - 1)
  PROVE  j \div Word \in 0..3 /\ j % Word \in 0..(Word - 1) /\ j = (j \div Word) * Word + (j % Word)
<1> DEFINE w == j \div Word
           t == j % Word
<1>1. Word \in Nat \ {0} /\ Vec = 4 * Word /\ j \in Nat /\ j < 4 * Word
  BY VecIs
<1>2. w \in Nat /\ t \in 0..(Word - 1) /\ j = w * Word + t
  BY <1>1, DivisionOf
<1> HIDE DEF w, t
<1>3. w \in 0..3
  <2> SUFFICES ASSUME 4 <= w PROVE FALSE
    BY <1>2
  <2>1. Word * 4 <= Word * w
    BY <1>1, <1>2, ProductMonotone
  <2>2. Word * w = w * Word /\ w * Word \in Nat
    BY <1>1, <1>2
  <2> QED BY <1>1, <1>2, <2>1, <2>2
<1> QED BY <1>2, <1>3 DEF w, t

LEMMA RowTermAt ==
  ASSUME NEW nb \in Nat, NEW b \in PairStarts(nb), NEW g \in 0..3, NEW i \in 0..7, NEW t \in 0..(Word - 1),
         NEW x, x = <<b + (i \div 4), g, (i % 4) * Word + t>>
  PROVE  x \in Spots(nb) /\ ~Odd(nb, x[1]) /\ RowTerm(b, g, i, t) = Entry(RowEntries(nb), x)
<1> DEFINE d == i \div 4
           w == i % 4
           c == b + d
           j == w * Word + t
<1>1. d \in 0..1 /\ w \in 0..3 /\ i = 4 * d + w
  OBVIOUS
<1>2. ActWords(b)[g][i] = 16 * (b + d) + 4 * g + w
  <2>1. b \in Nat
    BY DEF PairStarts
  <2> QED BY <2>1, ActWordsAre
<1> HIDE DEF d, w
<1>3. c = b + d /\ d \in 0..1 /\ w \in 0..3
  BY <1>1
<1> HIDE DEF c
<1>4. b \in Nat /\ c \in 0..(nb - 1) /\ ~Odd(nb, c) /\ c \in Nat
  BY <1>3, PairBlock
<1>5. j = w * Word + t
  OBVIOUS
<1> HIDE DEF j
<1>6. WordPlace(c, g, w, t, j)
  BY <1>3, <1>4, <1>5, WordAt, ZenonT(40)
<1>7. x = <<c, g, j>>
  BY DEF c, d, w, j
<1>8. x \in Spots(nb) /\ FieldAt(x) = <<c * Vec + j, g>> /\ PlaceOf(x) = c * 4 * Vec + g * Vec + j
  BY <1>4, <1>6, <1>7 DEF WordPlace, Spots, FieldAt, PlaceOf
<1>9. RowEntries(nb)[x] = <<Wide, g>> /\ ~Odd(nb, x[1])
  BY <1>4, <1>7, <1>8 DEF RowEntries
<1>10. 4 * b + i = 4 * c + w
  BY <1>1, <1>4 DEF c
<1>11. ActWords(b)[g][i] = 16 * c + 4 * g + w
  BY <1>2 DEF c
<1>12. RowTerm(b, g, i, t) = <<Wide, g, <<c * Vec + j, g>>, c * 4 * Vec + g * Vec + j>>
  BY <1>6, <1>10, <1>11 DEF WordPlace, RowTerm
<1> QED BY <1>8, <1>9, <1>12 DEF Entry

LEMMA ColTermAt ==
  ASSUME NEW nb \in Nat, NEW b \in PairStarts(nb), NEW r \in 0..3, NEW i \in 0..7, NEW t \in 0..(Word - 1),
         NEW x, x = <<b + (r \div 2), 2 * (r % 2) + (i \div 4), (i % 4) * Word + t>>
  PROVE  x \in Spots(nb) /\ ~Odd(nb, x[1]) /\ ColTerm(b, r, i, t) = Entry(ColEntries(nb), x)
<1> DEFINE d == r \div 2
           e == r % 2
           f == i \div 4
           w == i % 4
           c == b + d
           g == 2 * e + f
           j == w * Word + t
<1>1. /\ d \in 0..1 /\ e \in 0..1 /\ r = 2 * d + e
      /\ f \in 0..1 /\ w \in 0..3 /\ i = 4 * f + w
  OBVIOUS
<1>2. WeightWords(b)[r][i] = <<4 * (b + d) + w, 2 * e + f>>
  <2>1. b \in Nat
    BY DEF PairStarts
  <2> QED BY <2>1, WeightWordsAre
<1>3. x = <<c, g, j>>
  OBVIOUS
<1> HIDE DEF d, e, f, w
<1>4. g \in 0..3 /\ g \div 2 = e
  BY <1>1
<1>5. c = b + d /\ g = 2 * e + f /\ d \in 0..1 /\ w \in 0..3
  BY <1>1
<1> HIDE DEF c, g
<1>6. b \in Nat /\ c \in 0..(nb - 1) /\ ~Odd(nb, c) /\ c \in Nat /\ c % 2 = d
  BY <1>5, PairBlock
<1>7. j = w * Word + t
  OBVIOUS
<1> HIDE DEF j
<1>8. WordPlace(c, g, w, t, j)
  BY <1>4, <1>5, <1>6, <1>7, WordAt, ZenonT(40)
<1>9. x \in Spots(nb) /\ FieldAt(x) = <<c * Vec + j, g>> /\ PlaceOf(x) = c * 4 * Vec + g * Vec + j
  BY <1>3, <1>4, <1>6, <1>8 DEF WordPlace, Spots, FieldAt, PlaceOf
<1>10. 2 * (c % 2) + (g \div 2) = r
  BY <1>1, <1>4, <1>6
<1>11. ColEntries(nb)[x] = <<Wide, r>> /\ ~Odd(nb, x[1])
  <2>1. x[1] = c /\ x[2] = g
    BY <1>3
  <2>2. ColEntries(nb)[x] = <<Wide, 2 * (c % 2) + (g \div 2)>>
    BY <1>6, <1>9, <2>1 DEF ColEntries
  <2> QED BY <1>6, <1>10, <2>1, <2>2
<1>12. 16 * b + 8 * r + i = 16 * c + 4 * g + w
  BY <1>1, <1>5, <1>6
<1>13. WeightWords(b)[r][i] = <<4 * c + w, g>>
  BY <1>2, <1>5
<1>14. ColTerm(b, r, i, t) = <<Wide, r, <<c * Vec + j, g>>, c * 4 * Vec + g * Vec + j>>
  BY <1>8, <1>12, <1>13 DEF WordPlace, ColTerm
<1> QED BY <1>9, <1>11, <1>14 DEF Entry

RowTerms(nb) ==
  {RowTerm(b, g, i, t) : b \in PairStarts(nb), g \in 0..3, i \in 0..7, t \in 0..(Word - 1)}
ColTerms(nb) ==
  {ColTerm(b, r, i, t) : b \in PairStarts(nb), r \in 0..3, i \in 0..7, t \in 0..(Word - 1)}

LEMMA RowsInPairs ==
  ASSUME NEW nb \in Nat
  PROVE  PairPart(RowTerms(nb), nb, RowEntries(nb))
<1> DEFINE Q == {Entry(RowEntries(nb), x) : x \in {y \in Spots(nb) : ~Odd(nb, y[1])}}
<1>1. ASSUME NEW u \in RowTerms(nb) PROVE u \in Q
  <2>1. PICK b \in PairStarts(nb), g \in 0..3, i \in 0..7, t \in 0..(Word - 1) : u = RowTerm(b, g, i, t)
    BY DEF RowTerms
  <2> DEFINE x == <<b + (i \div 4), g, (i % 4) * Word + t>>
  <2>2. x \in Spots(nb) /\ ~Odd(nb, x[1]) /\ u = Entry(RowEntries(nb), x)
    <3>1. \A y : y = x => y \in Spots(nb) /\ ~Odd(nb, y[1]) /\ RowTerm(b, g, i, t) = Entry(RowEntries(nb), y)
      BY RowTermAt, ZenonT(60)
    <3> HIDE DEF x
    <3> QED BY <2>1, <3>1
  <2> HIDE DEF x
  <2> QED BY <2>2
<1>2. ASSUME NEW u \in Q PROVE u \in RowTerms(nb)
  <2>1. PICK x \in Spots(nb) : ~Odd(nb, x[1]) /\ u = Entry(RowEntries(nb), x)
    OBVIOUS
  <2>2. PICK c \in 0..(nb - 1), g \in 0..3, j \in 0..(Vec - 1) : x = <<c, g, j>>
    BY SpotParts
  <2> DEFINE d == c % 2
             b == c - d
             w == j \div Word
             t == j % Word
             i == 4 * d + w
  <2>3. d \in 0..1 /\ b \in PairStarts(nb) /\ c \in Nat
    BY <2>1, <2>2, PairOfBlock
  <2>4. w \in 0..3 /\ t \in 0..(Word - 1) /\ j = w * Word + t
    BY WordOfByte
  <2>5. c = b + d
    BY <2>3
  <2> HIDE DEF d, b, w, t
  <2>6. i \in 0..7 /\ i \div 4 = d /\ i % 4 = w
    BY <2>3, <2>4
  <2>7. x = <<b + (i \div 4), g, (i % 4) * Word + t>>
    BY <2>2, <2>4, <2>5, <2>6
  <2> HIDE DEF i
  <2>8. RowTerm(b, g, i, t) = u
    BY <2>1, <2>3, <2>4, <2>6, <2>7, RowTermAt
  <2> QED BY <2>3, <2>4, <2>6, <2>8 DEF RowTerms
<1> QED BY <1>1, <1>2 DEF PairPart

LEMMA ColsInPairs ==
  ASSUME NEW nb \in Nat
  PROVE  PairPart(ColTerms(nb), nb, ColEntries(nb))
<1> DEFINE Q == {Entry(ColEntries(nb), x) : x \in {y \in Spots(nb) : ~Odd(nb, y[1])}}
<1>1. ASSUME NEW u \in ColTerms(nb) PROVE u \in Q
  <2>1. PICK b \in PairStarts(nb), r \in 0..3, i \in 0..7, t \in 0..(Word - 1) : u = ColTerm(b, r, i, t)
    BY DEF ColTerms
  <2> DEFINE x == <<b + (r \div 2), 2 * (r % 2) + (i \div 4), (i % 4) * Word + t>>
  <2>2. x \in Spots(nb) /\ ~Odd(nb, x[1]) /\ u = Entry(ColEntries(nb), x)
    <3>1. \A y : y = x => y \in Spots(nb) /\ ~Odd(nb, y[1]) /\ ColTerm(b, r, i, t) = Entry(ColEntries(nb), y)
      BY ColTermAt, ZenonT(60)
    <3> HIDE DEF x
    <3> QED BY <2>1, <3>1
  <2> HIDE DEF x
  <2> QED BY <2>2
<1>2. ASSUME NEW u \in Q PROVE u \in ColTerms(nb)
  <2>1. PICK x \in Spots(nb) : ~Odd(nb, x[1]) /\ u = Entry(ColEntries(nb), x)
    OBVIOUS
  <2>2. PICK c \in 0..(nb - 1), g \in 0..3, j \in 0..(Vec - 1) : x = <<c, g, j>>
    BY SpotParts
  <2> DEFINE d == c % 2
             b == c - d
             e == g \div 2
             f == g % 2
             w == j \div Word
             t == j % Word
             r == 2 * d + e
             i == 4 * f + w
  <2>3. d \in 0..1 /\ b \in PairStarts(nb) /\ c \in Nat
    BY <2>1, <2>2, PairOfBlock
  <2>4. w \in 0..3 /\ t \in 0..(Word - 1) /\ j = w * Word + t
    BY WordOfByte
  <2>5. c = b + d
    BY <2>3
  <2>6. e \in 0..1 /\ f \in 0..1 /\ g = 2 * e + f
    OBVIOUS
  <2> HIDE DEF d, b, w, t, e, f
  <2>7. i \in 0..7 /\ i \div 4 = f /\ i % 4 = w
    BY <2>4, <2>6
  <2>8. r \in 0..3 /\ r \div 2 = d /\ r % 2 = e
    BY <2>3, <2>6
  <2>9. x = <<b + (r \div 2), 2 * (r % 2) + (i \div 4), (i % 4) * Word + t>>
    BY <2>2, <2>4, <2>5, <2>6, <2>7, <2>8
  <2> HIDE DEF i, r
  <2>10. ColTerm(b, r, i, t) = u
    BY <2>1, <2>3, <2>4, <2>7, <2>8, <2>9, ColTermAt
  <2> QED BY <2>3, <2>4, <2>7, <2>8, <2>10 DEF ColTerms
<1> QED BY <1>1, <1>2 DEF PairPart

LEMMA RowFields ==
  ASSUME NEW n \in Nat
  PROVE  OneTermEach(I2VnniRows(n), (n \div (4 * Vec)) * (4 * Vec), Fields((n \div (4 * Vec)) * (4 * Vec)))
<1> DEFINE nb == n \div (4 * Vec)
<1>1. nb \in Nat
  <2>1. 4 * Vec \in Nat \ {0}
    BY VecIs
  <2> QED BY <2>1, DivisionBounds
<1>2. I2VnniRows(n) = I2Odd(n) \cup RowTerms(nb)
  BY DEF I2VnniRows, RowTerms, RowTerm, I2Pairs, PairStarts
<1>3. nb = n \div (4 * Vec)
  OBVIOUS
<1> HIDE DEF nb
<1>4. PairPart(RowTerms(nb), nb, RowEntries(nb))
  BY <1>1, RowsInPairs
<1>5. \A x \in Spots(nb) : Odd(nb, x[1]) => RowEntries(nb)[x] = <<Wide, 4>>
  BY DEF RowEntries
<1>6. I2VnniRows(n) = Spread(nb, RowEntries(nb))
  BY <1>1, <1>2, <1>3, <1>4, <1>5, WithOdd
<1>7. OneTermEach(I2VnniRows(n), nb * (4 * Vec), Fields(nb * (4 * Vec)))
  BY <1>1, <1>6, SpreadWhole
<1> QED BY <1>3, <1>7

LEMMA ColFields ==
  ASSUME NEW n \in Nat
  PROVE  OneTermEach(I2VnniCols(n), (n \div (4 * Vec)) * (4 * Vec), Fields((n \div (4 * Vec)) * (4 * Vec)))
<1> DEFINE nb == n \div (4 * Vec)
<1>1. nb \in Nat
  <2>1. 4 * Vec \in Nat \ {0}
    BY VecIs
  <2> QED BY <2>1, DivisionBounds
<1>2. I2VnniCols(n) = I2Odd(n) \cup ColTerms(nb)
  BY DEF I2VnniCols, ColTerms, ColTerm, I2Pairs, PairStarts
<1>3. nb = n \div (4 * Vec)
  OBVIOUS
<1> HIDE DEF nb
<1>4. PairPart(ColTerms(nb), nb, ColEntries(nb))
  BY <1>1, ColsInPairs
<1>5. \A x \in Spots(nb) : Odd(nb, x[1]) => ColEntries(nb)[x] = <<Wide, 4>>
  BY DEF ColEntries
<1>6. I2VnniCols(n) = Spread(nb, ColEntries(nb))
  BY <1>1, <1>2, <1>3, <1>4, <1>5, WithOdd
<1>7. OneTermEach(I2VnniCols(n), nb * (4 * Vec), Fields(nb * (4 * Vec)))
  BY <1>1, <1>6, SpreadWhole
<1> QED BY <1>3, <1>7

(***************************************************************************)
(* The kernel a call ends in.                                              *)
(***************************************************************************)
Arm == {"neon", "dotprod"}

LEMMA IsaIs ==
  ASSUME NEW c \in Calls
  PROVE  /\ c.family \in {"i8", "i2"} /\ c.n \in Nat /\ c.nrc \in Nat
         /\ IsaOf(c) \in {"avx2", "vnni", "neon", "dotprod", "scalar"}
         /\ c.family = "i2" => IsaOf(c) # "scalar" /\ c.n % (4 * Vec) = 0
BY DotAssumption DEF IsaOf

LEMMA BytesWhole ==
  ASSUME NEW n \in Nat, NEW form, NEW code \in {"avx2", "vnni", "neon", "dotprod", "scalar"},
         NEW m, m = (n \div Unit("i8", code)) * Unit("i8", code)
  PROVE  OneTermEach(Terms("i8", form, code, n), m, Plain(m))
<1>1. Terms("i8", form, code, n) = I8Terms(form, code, n)
  BY DEF Terms
<1>2. CASE code = "avx2"
  <2>1. Unit("i8", code) = Vec /\ I8Terms(form, code, n) = I8Avx2(n)
    BY <1>2 DEF Unit, I8Terms
  <2> QED BY <1>1, <2>1, Avx2Bytes
<1>3. CASE code = "vnni"
  <2>1. Unit("i8", code) = Vec /\ I8Terms(form, code, n) = IF form = "1x1" THEN I8Vnni(n) ELSE I8VnniShared(n)
    BY <1>3 DEF Unit, I8Terms
  <2> QED BY <1>1, <2>1, VnniBytes, SharedBytes
<1>4. CASE code \in Arm
  <2>1. (code = "dotprod") \in BOOLEAN
    OBVIOUS
  <2>2. Unit("i8", code) = Word /\ I8Terms(form, code, n) = I8Neon(n, code = "dotprod")
    BY <1>4 DEF Unit, I8Terms, Arm
  <2>3. OneTermEach(I8Neon(n, code = "dotprod"), (n \div Word) * Word, Plain((n \div Word) * Word))
    BY <2>1, NeonBytes
  <2> QED BY <1>1, <2>2, <2>3
<1>5. CASE code = "scalar"
  <2>1. Unit("i8", code) = 1 /\ I8Terms(form, code, n) = I8Scalar(n)
    BY <1>5 DEF Unit, I8Terms
  <2> QED BY <1>1, <2>1, ScalarBytes
<1> QED BY <1>2, <1>3, <1>4, <1>5 DEF Arm

LEMMA FieldsWhole ==
  ASSUME NEW n \in Nat, n % (4 * Vec) = 0, NEW form, NEW code \in {"avx2", "vnni", "neon", "dotprod"},
         NEW m, m = (n \div Unit("i2", code)) * Unit("i2", code)
  PROVE  OneTermEach(Terms("i2", form, code, n), m, Fields(m))
<1>1. Terms("i2", form, code, n) = I2Terms(form, code, n) /\ Unit("i2", code) = 4 * Vec
  BY DEF Terms, Unit
<1>2. CASE code = "avx2"
  <2>1. I2Terms(form, code, n) = I2Avx2(n)
    BY <1>2 DEF I2Terms
  <2> QED BY <1>1, <2>1, Avx2Fields
<1>3. CASE code = "vnni"
  <2>1. I2Terms(form, code, n) = IF form = "Nx1" THEN I2VnniCols(n) ELSE I2VnniRows(n)
    BY <1>3 DEF I2Terms
  <2> QED BY <1>1, <2>1, RowFields, ColFields
<1>4. CASE code \in Arm
  <2> DEFINE widen == code = "dotprod"
  <2>1. widen \in BOOLEAN
    OBVIOUS
  <2>2. I2Terms(form, code, n) = IF form = "Nx1" THEN I2NeonCols(n, widen) ELSE I2Neon(n, widen)
    BY <1>4 DEF I2Terms, Arm
  <2> HIDE DEF widen
  <2>3. /\ OneTermEach(I2NeonCols(n, widen), (n \div (4 * Vec)) * (4 * Vec), Fields((n \div (4 * Vec)) * (4 * Vec)))
        /\ OneTermEach(I2Neon(n, widen), (n \div (4 * Vec)) * (4 * Vec), Fields((n \div (4 * Vec)) * (4 * Vec)))
    BY <2>1, NeonFields, NeonColFields
  <2> QED BY <1>1, <2>2, <2>3
<1> QED BY <1>2, <1>3, <1>4 DEF Arm

LEMMA PairsOfCall ==
  ASSUME call \in Calls
  PROVE  /\ {<<t[3], t[4]>> : t \in KernelTerms} = Reference(call.family, IsaOf(call), call.n)
         /\ Cardinality(KernelTerms) = Cardinality(Reference(call.family, IsaOf(call), call.n))
         /\ IsFiniteSet(KernelTerms)
<1> DEFINE f == call.family
           code == IsaOf(call)
           n == call.n
           m == (n \div Unit(f, code)) * Unit(f, code)
           own == IF f = "i2" THEN Fields(m) ELSE Plain(m)
           T == KernelTerms
<1>1. /\ f \in {"i8", "i2"} /\ n \in Nat /\ code \in {"avx2", "vnni", "neon", "dotprod", "scalar"}
      /\ f = "i2" => code # "scalar" /\ n % (4 * Vec) = 0
  BY IsaIs
<1>2. T = Terms(f, Shape(call), code, n)
  BY DEF KernelTerms
<1>3. m = (n \div Unit(f, code)) * Unit(f, code)
  OBVIOUS
<1>4. Reference(f, code, n) = {<<IF f = "i2" THEN Field(k) ELSE k, k>> : k \in 0..(m - 1)}
  BY DEF Reference
<1>5. m \in Nat
  <2>1. Unit(f, code) \in Nat \ {0}
    BY <1>1, VecIs DEF Unit
  <2>2. n \div Unit(f, code) \in Nat
    BY <1>1, <2>1, DivisionBounds
  <2> QED BY <2>1, <2>2
<1>6. own = IF f = "i2" THEN Fields(m) ELSE Plain(m)
  OBVIOUS
<1> HIDE DEF f, code, n, m, own, T
<1>7. OneTermEach(T, m, own)
  <2>1. CASE f = "i2"
    <3>1. code \in {"avx2", "vnni", "neon", "dotprod"} /\ n % (4 * Vec) = 0
      BY <1>1, <2>1
    <3>2. OneTermEach(Terms("i2", Shape(call), code, n), m, Fields(m))
      BY <1>1, <1>3, <2>1, <3>1, FieldsWhole
    <3> QED BY <1>2, <1>6, <2>1, <3>2
  <2>2. CASE f = "i8"
    <3>1. OneTermEach(Terms("i8", Shape(call), code, n), m, Plain(m))
      BY <1>1, <1>3, <2>2, BytesWhole
    <3> QED BY <1>2, <1>6, <2>2, <3>1
  <2> QED BY <1>1, <2>1, <2>2
<1>8. Pairs(m, own) = Reference(f, code, n)
  BY <1>1, <1>4, <1>6 DEF Pairs, Fields, Plain
<1>9. /\ {<<t[3], t[4]>> : t \in T} = Pairs(m, own) /\ Cardinality(T) = Cardinality(Pairs(m, own))
      /\ IsFiniteSet(T)
  BY <1>5, <1>7, TermsCount
<1> QED BY <1>8, <1>9 DEF f, code, n, T

(***************************************************************************)
(* The outputs before the next row or column are written, each once and    *)
(* from its own operands, the others are not.  A kernel that does not look *)
(* at what is left of nrc stays at whole parallels.                        *)
(***************************************************************************)
OwnOperands(o) == IF Shape(call) = "Nx1" THEN <<0, o>> ELSE <<o, 0>>
WrittenOnce(f, o) == \E s \in 0..o : f[o] = {<<s, OwnOperands(o)>>}
InParallels == Shape(call) # "1x1" /\ ~TakesRest(call)

DotInv ==
  /\ call \in Calls
  /\ at \in 0..call.nrc
  /\ InParallels => at % ParallelSize = 0
  /\ DOMAIN out = 0..(call.nrc + ParallelSize - 1)
  /\ \A o \in DOMAIN out : IF o < at THEN WrittenOnce(out, o) ELSE out[o] = {}

LEMMA WholeParallels ==
  ASSUME call \in Calls, InParallels
  PROVE  call.nrc % ParallelSize = 0
BY DotAssumption DEF InParallels, Shape, DispatchI8, DispatchI2

LEMMA NextParallel ==
  ASSUME NEW P \in Nat \ {0}, NEW a \in Nat, NEW n \in Nat, a % P = 0, n % P = 0, a < n
  PROVE  a + P <= n /\ (a + P) % P = 0
<1>1. PICK i \in Nat : a = i * P
  <2>1. a \div P \in Nat /\ a = (a \div P) * P + 0
    BY DivisionOf
  <2> QED BY <2>1
<1>2. PICK j \in Nat : n = j * P
  <2>1. n \div P \in Nat /\ n = (n \div P) * P + 0
    BY DivisionOf
  <2> QED BY <2>1
<1>3. i + 1 <= j
  <2> SUFFICES ASSUME j <= i PROVE FALSE
    BY <1>1, <1>2
  <2>1. P * j <= P * i
    BY <1>1, <1>2, ProductMonotone
  <2> QED BY <1>1, <1>2, <2>1
<1>4. P * (i + 1) <= P * j
  <2>1. i + 1 \in Nat /\ j \in Nat
    BY <1>1, <1>2
  <2> QED BY <1>3, <2>1, ProductMonotone
<1>5. P * (i + 1) = a + P /\ P * j = n
  BY <1>1, <1>2
<1>6. (a + P) % P = 0
  <2>1. a + P = (i + 1) * P + 0 /\ i + 1 \in Nat /\ 0 \in 0..(P - 1)
    BY <1>1
  <2>2. ((i + 1) * P + 0) % P = 0
    BY <2>1, DivisionUnique
  <2> QED BY <2>1, <2>2
<1> QED BY <1>4, <1>5, <1>6

LEMMA WriteKeeps ==
  ASSUME DotInv, NEW many \in Nat \ {0}, NEW own, at < call.nrc,
         at + many <= call.nrc, InParallels => (at + many) % ParallelSize = 0,
         \A o \in DOMAIN out : own[o] = OwnOperands(o), Write(many, own)
  PROVE  DotInv'
<1>1. call' = call /\ at' = at + many /\ DOMAIN out' = DOMAIN out
  BY DEF Write
<1>2. at \in Nat /\ many \in Nat /\ at' \in 0..call'.nrc
  BY <1>1, DotAssumption DEF DotInv
<1>3. InParallels' <=> InParallels
  BY <1>1 DEF InParallels, TakesRest, Shape, IsaOf
<1>4. ASSUME NEW o \in DOMAIN out PROVE IF o < at' THEN WrittenOnce(out, o)' ELSE out'[o] = {}
  <2>1. OwnOperands(o)' = OwnOperands(o)
    BY <1>1 DEF OwnOperands, Shape
  <2>2. o \in Nat
    BY DotAssumption DEF DotInv
  <2>3. out'[o] = IF o \in at..(at + many - 1) THEN out[o] \cup {<<at, own[o]>>} ELSE out[o]
    BY DEF Write
  <2>4. IF o < at THEN WrittenOnce(out, o) ELSE out[o] = {}
    BY DEF DotInv
  <2>5. CASE o < at
    <3>1. out'[o] = out[o] /\ o < at'
      BY <1>1, <1>2, <2>2, <2>3, <2>5
    <3> QED BY <2>1, <2>4, <2>5, <3>1 DEF WrittenOnce
  <2>6. CASE o \in at..(at + many - 1)
    <3>1. out[o] = {} /\ at \in 0..o /\ o < at'
      BY <1>1, <1>2, <2>2, <2>4, <2>6
    <3>2. out'[o] = {<<at, OwnOperands(o)>>}
      BY <2>3, <2>6, <3>1
    <3> QED BY <2>1, <3>1, <3>2 DEF WrittenOnce
  <2>7. CASE ~(o < at) /\ o \notin at..(at + many - 1)
    <3>1. out'[o] = {} /\ ~(o < at')
      BY <1>1, <1>2, <2>2, <2>3, <2>4, <2>7
    <3> QED BY <3>1
  <2> QED BY <2>5, <2>6, <2>7
<1> QED BY <1>1, <1>2, <1>3, <1>4 DEF DotInv

LEMMA OwnRowIs ==
  ASSUME Shape(call) # "Nx1" PROVE \A o \in DOMAIN out : OwnRow[o] = OwnOperands(o)
BY DEF OwnRow, OwnOperands

LEMMA OwnColumnIs ==
  ASSUME Shape(call) = "Nx1" PROVE \A o \in DOMAIN out : OwnColumn[o] = OwnOperands(o)
BY DEF OwnColumn, OwnOperands

\* A step of a whole parallel, and one that takes no more than is left.
LEMMA ParallelStep ==
  ASSUME DotInv, InParallels, at < call.nrc
  PROVE  at + ParallelSize <= call.nrc /\ (at + ParallelSize) % ParallelSize = 0 /\ ParallelSize \in Nat \ {0}
<1>1. ParallelSize \in Nat \ {0} /\ at \in Nat /\ call.nrc \in Nat /\ at % ParallelSize = 0
  BY DotAssumption DEF DotInv
<1>2. call.nrc % ParallelSize = 0
  BY WholeParallels DEF DotInv
<1> QED BY <1>1, <1>2, NextParallel

LEMMA SmallerOfTwo ==
  ASSUME NEW a \in Nat, NEW b \in Nat
  PROVE  Min({a, b}) = IF a <= b THEN a ELSE b
BY DEF Min

LEMMA DotInductive ==
  ASSUME DotInv, [DotNext]_dotVars
  PROVE  DotInv'
<1>0. ParallelSize \in Nat \ {0} /\ at \in Nat /\ call \in Calls /\ call.nrc \in Nat
  BY DotAssumption DEF DotInv
<1>1. ASSUME ~InParallels, at < call.nrc
      PROVE  1 \in Nat \ {0} /\ at + 1 <= call.nrc /\ (InParallels => (at + 1) % ParallelSize = 0)
  BY <1>0, <1>1
<1>2. CASE I8Rows1x1
  <2>1. Shape(call) = "1x1" /\ at < call.nrc /\ Write(1, OwnRow) /\ ~InParallels
    BY <1>2 DEF I8Rows1x1, Running, InParallels
  <2> QED BY <1>1, <2>1, OwnRowIs, WriteKeeps
<1>3. CASE I2Rows1x1
  <2>1. Shape(call) = "1x1" /\ at < call.nrc /\ Write(1, OwnRow) /\ ~InParallels
    BY <1>3 DEF I2Rows1x1, Running, InParallels
  <2> QED BY <1>1, <2>1, OwnRowIs, WriteKeeps
<1>4. CASE I8Rows1xN
  <2>1. Shape(call) = "1xN" /\ at < call.nrc /\ Write(IF IsaOf(call) = "scalar" THEN 1 ELSE ParallelSize, OwnRow)
    BY <1>4 DEF I8Rows1xN, Running
  <2>2. CASE IsaOf(call) = "scalar"
    <3>1. ~InParallels
      BY <2>2 DEF InParallels, TakesRest
    <3> QED BY <1>1, <2>1, <2>2, <3>1, OwnRowIs, WriteKeeps
  <2>3. CASE IsaOf(call) # "scalar"
    <3>1. InParallels
      BY <2>1, <2>3 DEF InParallels, TakesRest
    <3>2. Write(ParallelSize, OwnRow)
      BY <2>1, <2>3
    <3> QED BY <2>1, <3>1, <3>2, ParallelStep, OwnRowIs, WriteKeeps
  <2> QED BY <2>2, <2>3
<1>5. CASE I2Rows1xN
  <2>1. Shape(call) = "1xN" /\ at < call.nrc /\ Write(ParallelSize, OwnRow) /\ call.family = "i2"
    BY <1>5 DEF I2Rows1xN, Running
  <2>2. InParallels
    BY <1>0, <2>1, IsaIs DEF InParallels, TakesRest
  <2> QED BY <2>1, <2>2, ParallelStep, OwnRowIs, WriteKeeps
<1>6. CASE I8ColsNx1
  <2>1. /\ Shape(call) = "Nx1" /\ at < call.nrc /\ call.family = "i8"
        /\ Write(IF IsaOf(call) = "scalar" THEN 1 ELSE ParallelSize, OwnColumn)
    BY <1>6 DEF I8ColsNx1, Running
  <2>2. CASE IsaOf(call) = "scalar"
    <3>1. ~InParallels
      BY <2>2 DEF InParallels, TakesRest
    <3> QED BY <1>1, <2>1, <2>2, <3>1, OwnColumnIs, WriteKeeps
  <2>3. CASE IsaOf(call) # "scalar"
    <3>1. InParallels
      BY <2>1, <2>3 DEF InParallels, TakesRest
    <3>2. Write(ParallelSize, OwnColumn)
      BY <2>1, <2>3
    <3> QED BY <2>1, <3>1, <3>2, ParallelStep, OwnColumnIs, WriteKeeps
  <2> QED BY <2>2, <2>3
<1>7. CASE I2ColsNx1
  <2>1. /\ Shape(call) = "Nx1" /\ at < call.nrc /\ call.family = "i2"
        /\ Write(IF IsaOf(call) = "vnni" THEN Min({I2ColBlock, call.nrc - at}) ELSE ParallelSize, OwnColumn)
    BY <1>7 DEF I2ColsNx1, Running
  <2>2. CASE IsaOf(call) = "vnni"
    <3> DEFINE many == Min({I2ColBlock, call.nrc - at})
    <3>1. many \in Nat \ {0} /\ at + many <= call.nrc
      <4>1. I2ColBlock \in Nat \ {0} /\ call.nrc - at \in Nat \ {0}
        BY <1>0, <2>1, DotAssumption
      <4> QED BY <1>0, <4>1, SmallerOfTwo
    <3>2. ~InParallels /\ Write(many, OwnColumn)
      BY <2>1, <2>2 DEF InParallels, TakesRest
    <3> HIDE DEF many
    <3> QED BY <2>1, <3>1, <3>2, OwnColumnIs, WriteKeeps
  <2>3. CASE IsaOf(call) # "vnni"
    <3>1. InParallels
      BY <1>0, <2>1, <2>3, IsaIs DEF InParallels, TakesRest
    <3>2. Write(ParallelSize, OwnColumn)
      BY <2>1, <2>3
    <3> QED BY <2>1, <3>1, <3>2, ParallelStep, OwnColumnIs, WriteKeeps
  <2> QED BY <2>2, <2>3
<1>8. CASE UNCHANGED dotVars
  BY <1>8 DEF dotVars, DotInv, InParallels, WrittenOnce, OwnOperands, TakesRest, Shape, IsaOf
<1> QED BY <1>2, <1>3, <1>4, <1>5, <1>6, <1>7, <1>8 DEF DotNext

LEMMA DotInitial == DotInit => DotInv
<1> SUFFICES ASSUME DotInit PROVE DotInv
  OBVIOUS
<1>1. call \in Calls /\ call.nrc \in Nat /\ ParallelSize \in Nat \ {0} /\ at = 0
  BY DotAssumption DEF DotInit
<1>2. DOMAIN out = 0..(call.nrc + ParallelSize - 1) /\ \A o \in DOMAIN out : out[o] = {}
  BY DEF DotInit
<1>3. at % ParallelSize = 0
  BY <1>1
<1>4. \A o \in DOMAIN out : ~(o < at)
  BY <1>1, <1>2
<1> QED BY <1>1, <1>2, <1>3, <1>4 DEF DotInv

LEMMA DotInvImplies == DotInv => OutputsWhole
<1> SUFFICES ASSUME DotInv PROVE OutputsWhole
  OBVIOUS
<1>1. EveryPairOnce
  BY PairsOfCall DEF DotInv, EveryPairOnce
<1>2. ASSUME Returned PROVE \A o \in 0..(call.nrc - 1) :
                              \E s \in 0..o : out[o] = {<<s, IF Shape(call) = "Nx1" THEN <<0, o>> ELSE <<o, 0>> >>}
  <2>1. call.nrc \in Nat /\ at = call.nrc /\ ParallelSize \in Nat \ {0}
    BY <1>2, DotAssumption DEF DotInv, Returned
  <2> TAKE o \in 0..(call.nrc - 1)
  <2>2. o \in DOMAIN out /\ o < at
    BY <2>1 DEF DotInv
  <2> QED BY <2>2 DEF DotInv, WrittenOnce, OwnOperands
<1>3. ASSUME Returned PROVE \A o \in DOMAIN out : o >= call.nrc => out[o] = {}
  <2>1. call.nrc \in Nat /\ at = call.nrc /\ ParallelSize \in Nat \ {0}
    BY <1>3, DotAssumption DEF DotInv, Returned
  <2> SUFFICES ASSUME NEW o \in DOMAIN out, o >= call.nrc PROVE out[o] = {}
    OBVIOUS
  <2>2. o \in Nat /\ ~(o < at)
    BY <2>1 DEF DotInv
  <2> QED BY <2>2 DEF DotInv
<1> QED BY <1>1, <1>2, <1>3 DEF OutputsWhole, OutputsOwn

THEOREM CallsReturnSums == DotSpec => []OutputsWhole
<1>1. DotInit => DotInv
  BY DotInitial
<1>2. DotInv /\ [DotNext]_dotVars => DotInv'
  BY DotInductive
<1>3. DotInv => OutputsWhole
  BY DotInvImplies
<1> QED BY <1>1, <1>2, <1>3, PTL DEF DotSpec

(***************************************************************************)
(* A sum over a finite set, taken an element after the other.              *)
(***************************************************************************)
Chosen(s) == CHOOSE x \in s : TRUE

Adds(S, g, h) == \A s \in SUBSET S : s # {} => h[s] = g[Chosen(s)] + h[s \ {Chosen(s)}]

LEMMA SameSums ==
  ASSUME NEW S, IsFiniteSet(S), NEW g, NEW h, NEW k, h[{}] = k[{}], Adds(S, g, h), Adds(S, g, k)
  PROVE  \A s \in SUBSET S : h[s] = k[s]
<1> DEFINE Same == {n \in Nat : \A s \in SUBSET S : Cardinality(s) = n => h[s] = k[s]}
<1>1. \A s \in SUBSET S : IsFiniteSet(s) /\ Cardinality(s) \in Nat
  BY FS_Subset, FS_CardinalityType
<1>2. 0 \in Same
  BY <1>1, FS_EmptySet
<1>3. ASSUME NEW n \in Nat, n \in Same PROVE n + 1 \in Same
  <2> SUFFICES ASSUME NEW s \in SUBSET S, Cardinality(s) = n + 1 PROVE h[s] = k[s]
    OBVIOUS
  <2>1. s # {}
    BY <1>3, FS_EmptySet
  <2>2. Chosen(s) \in s
    BY <2>1 DEF Chosen
  <2>3. s \ {Chosen(s)} \in SUBSET S /\ Cardinality(s \ {Chosen(s)}) = n
    <3>1. IsFiniteSet(s)
      BY <1>1
    <3>2. Cardinality(s \ {Chosen(s)}) = Cardinality(s) - 1
      BY <2>2, <3>1, FS_RemoveElement
    <3> QED BY <1>3, <3>2
  <2>4. h[s \ {Chosen(s)}] = k[s \ {Chosen(s)}]
    BY <1>3, <2>3
  <2> QED BY <2>1, <2>4 DEF Adds
<1> HIDE DEF Same
<1>4. \A n \in Nat : n \in Same
  BY <1>2, <1>3, NatSetInduction
<1> QED BY <1>1, <1>4 DEF Same

Narrow(T) == {t \in T : t[1] # Wide}
LaneOf(t) == <<t[1], t[2]>>
LanesIn(T) == {LaneOf(t) : t \in Narrow(T)}
InLane(T, l) == {t \in Narrow(T) : LaneOf(t) = l}
InLanes(T, s) == {t \in Narrow(T) : LaneOf(t) \in s}
Summing(f, T, w, y) ==
  f = [s \in SUBSET LanesIn(T) |->
        IF s = {} THEN 0
        ELSE Wrap16(Cardinality(InLane(T, Chosen(s))) * w * y) + f[s \ {Chosen(s)}]]

LEMMA ValueIs ==
  ASSUME NEW T, NEW w, NEW y
  PROVE  Value(T, w, y) = (CHOOSE f : Summing(f, T, w, y))[LanesIn(T)] + Cardinality(T \ Narrow(T)) * w * y
BY DEF Value, MapThenSumSet, MapThenFoldSet, Summing, Chosen, LanesIn, InLane, LaneOf, Narrow

LEMMA DisjointCount ==
  ASSUME NEW A, IsFiniteSet(A), NEW B, IsFiniteSet(B), A \cap B = {}
  PROVE  /\ Cardinality(A \cup B) = Cardinality(A) + Cardinality(B)
         /\ Cardinality(A) \in Nat /\ Cardinality(B) \in Nat
<1>1. Cardinality(A) \in Nat /\ Cardinality(B) \in Nat
  BY FS_CardinalityType
<1>2. Cardinality(A \cap B) = 0
  BY FS_EmptySet
<1>3. Cardinality(A \cup B) = Cardinality(A) + Cardinality(B) - Cardinality(A \cap B)
  BY FS_Union
<1> QED BY <1>1, <1>2, <1>3

LEMMA LanesApart ==
  ASSUME NEW T, IsFiniteSet(T), NEW s, NEW x \in s
  PROVE  /\ Cardinality(InLanes(T, s)) = Cardinality(InLane(T, x)) + Cardinality(InLanes(T, s \ {x}))
         /\ Cardinality(InLane(T, x)) \in Nat /\ Cardinality(InLanes(T, s \ {x})) \in Nat
<1> DEFINE A == InLane(T, x)
           B == InLanes(T, s \ {x})
<1>1. InLanes(T, s) = A \cup B /\ A \cap B = {}
  BY DEF InLanes, InLane
<1>2. A \subseteq T /\ B \subseteq T
  BY DEF InLanes, InLane, Narrow
<1> HIDE DEF A, B
<1>3. IsFiniteSet(A) /\ IsFiniteSet(B)
  BY <1>2, FS_Subset
<1>4. Cardinality(A \cup B) = Cardinality(A) + Cardinality(B) /\ Cardinality(A) \in Nat /\ Cardinality(B) \in Nat
  BY <1>1, <1>3, DisjointCount
<1> QED BY <1>1, <1>4 DEF A, B

\* When no lane wraps, the result is the sum of all products.
Fits(T, w, y) ==
  \A l \in LanesIn(T) : Wrap16(Cardinality(InLane(T, l)) * w * y) = Cardinality(InLane(T, l)) * w * y

LEMMA ValueExact ==
  ASSUME NEW T, IsFiniteSet(T), NEW w \in Int, NEW y \in Int, Fits(T, w, y)
  PROVE  Value(T, w, y) = Cardinality(T) * w * y
<1> DEFINE S == LanesIn(T)
           k == [s \in SUBSET S |-> Cardinality(InLanes(T, s)) * w * y]
           g == [l \in S |-> Wrap16(Cardinality(InLane(T, l)) * w * y)]
           f == CHOOSE h : Summing(h, T, w, y)
<1>1. IsFiniteSet(S)
  <2> DEFINE q == [t \in Narrow(T) |-> LaneOf(t)]
  <2>1. IsFiniteSet(Narrow(T))
    BY FS_Subset DEF Narrow
  <2>2. q \in Surjection(Narrow(T), S)
    BY DEF Surjection, LanesIn
  <2> QED BY <2>1, <2>2, FS_Surjection
<1>2. k[{}] = 0
  <2>1. InLanes(T, {}) = {} /\ Cardinality({}) = 0
    BY FS_EmptySet DEF InLanes
  <2> QED BY <2>1
<1>3. ASSUME NEW s \in SUBSET S, s # {}
      PROVE  /\ Chosen(s) \in S /\ s \ {Chosen(s)} \in SUBSET S
             /\ k[s] = g[Chosen(s)] + k[s \ {Chosen(s)}]
             /\ g[Chosen(s)] = Wrap16(Cardinality(InLane(T, Chosen(s))) * w * y)
  <2> DEFINE x == Chosen(s)
  <2>1. x \in s /\ x \in S /\ s \ {x} \in SUBSET S
    BY <1>3 DEF Chosen
  <2> HIDE DEF x, S
  <2> DEFINE a == Cardinality(InLane(T, x))
             b == Cardinality(InLanes(T, s \ {x}))
  <2>2. Cardinality(InLanes(T, s)) = a + b /\ a \in Nat /\ b \in Nat
    BY <2>1, LanesApart
  <2>3. Wrap16(a * w * y) = a * w * y
    BY <2>1 DEF Fits, S
  <2>4. g[x] = Wrap16(a * w * y) /\ k[s \ {x}] = b * w * y /\ k[s] = Cardinality(InLanes(T, s)) * w * y
    BY <2>1
  <2> HIDE DEF a, b, g, k
  <2>5. (a + b) * w * y = a * w * y + b * w * y
    BY <2>2
  <2>6. k[s] = g[x] + k[s \ {x}]
    BY <2>2, <2>3, <2>4, <2>5
  <2> QED BY <2>1, <2>4, <2>6 DEF x, a
<1>4. Summing(k, T, w, y)
  <2> DEFINE body(s) == IF s = {} THEN 0
                        ELSE Wrap16(Cardinality(InLane(T, Chosen(s))) * w * y) + k[s \ {Chosen(s)}]
  <2>1. k = [s \in SUBSET S |-> k[s]]
    OBVIOUS
  <2> HIDE DEF k
  <2>2. \A s \in SUBSET S : k[s] = body(s)
    BY <1>2, <1>3
  <2>3. k = [s \in SUBSET S |-> body(s)]
    BY <2>1, <2>2
  <2> QED BY <2>3 DEF Summing
<1>5. Summing(f, T, w, y)
  BY <1>4
<1>6. f[{}] = 0 /\ \A s \in SUBSET S : s # {} => f[s] = g[Chosen(s)] + f[s \ {Chosen(s)}]
  <2> HIDE DEF f, g, k
  <2>1. \A s \in SUBSET S :
          f[s] = IF s = {} THEN 0 ELSE Wrap16(Cardinality(InLane(T, Chosen(s))) * w * y) + f[s \ {Chosen(s)}]
    BY <1>5 DEF Summing
  <2> QED BY <1>3, <2>1
<1> HIDE DEF f, g, k
<1>7. f[S] = k[S]
  <2>1. f[{}] = k[{}] /\ Adds(S, g, f) /\ Adds(S, g, k)
    BY <1>2, <1>3, <1>6 DEF Adds
  <2> HIDE DEF S
  <2>2. \A s \in SUBSET S : f[s] = k[s]
    BY <1>1, <2>1, SameSums
  <2> QED BY <2>2
<1>8. k[S] = Cardinality(Narrow(T)) * w * y
  <2>1. InLanes(T, S) = Narrow(T)
    BY DEF InLanes, LanesIn
  <2> QED BY <2>1 DEF k
<1>9. /\ Cardinality(T) = Cardinality(Narrow(T)) + Cardinality(T \ Narrow(T))
      /\ Cardinality(Narrow(T)) \in Nat /\ Cardinality(T \ Narrow(T)) \in Nat
  <2> DEFINE A == Narrow(T)
             B == T \ Narrow(T)
  <2>1. A \cup B = T /\ A \cap B = {} /\ A \subseteq T /\ B \subseteq T
    BY DEF Narrow
  <2> HIDE DEF A, B
  <2>2. IsFiniteSet(A) /\ IsFiniteSet(B)
    BY <2>1, FS_Subset
  <2>3. Cardinality(A \cup B) = Cardinality(A) + Cardinality(B) /\ Cardinality(A) \in Nat /\ Cardinality(B) \in Nat
    BY <2>1, <2>2, DisjointCount
  <2> QED BY <2>1, <2>3 DEF A, B
<1> DEFINE a == Cardinality(Narrow(T))
           b == Cardinality(T \ Narrow(T))
<1>10. Value(T, w, y) = a * w * y + b * w * y
  BY <1>7, <1>8, ValueIs DEF f
<1> HIDE DEF a, b
<1>11. a * w * y + b * w * y = (a + b) * w * y
  BY <1>9 DEF a, b
<1> QED BY <1>9, <1>10, <1>11 DEF a, b

(***************************************************************************)
(* The products of a lane between two widenings: one, two or eight of each *)
(* step.                                                                   *)
(***************************************************************************)
LEMMA CoveredBy ==
  ASSUME NEW P, IsFiniteSet(P), NEW G, G = [p \in P |-> G[p]], NEW A, A \subseteq {G[p] : p \in P}
  PROVE  Cardinality(A) \in Nat /\ Cardinality(A) <= Cardinality(P)
<1> DEFINE I == {G[p] : p \in P}
<1>1. G \in Surjection(P, I)
  <2>1. [p \in P |-> G[p]] \in [P -> I]
    OBVIOUS
  <2>2. G \in [P -> I]
    BY <2>1
  <2> QED BY <2>2 DEF Surjection
<1> HIDE DEF I
<1>2. IsFiniteSet(I) /\ Cardinality(I) <= Cardinality(P) /\ A \subseteq I
  BY <1>1, FS_Surjection DEF I
<1>3. IsFiniteSet(A) /\ Cardinality(A) <= Cardinality(I)
  BY <1>2, FS_Subset
<1>4. Cardinality(A) \in Nat /\ Cardinality(I) \in Nat /\ Cardinality(P) \in Nat
  BY <1>2, <1>3, FS_CardinalityType
<1> QED BY <1>2, <1>3, <1>4

BytesOfLane == (0..(Flush - 1)) \X (0..1)
FieldsOfLane == (0..(Flush - 1)) \X ((0..1) \X (0..3))

LEMMA LaneSizes ==
  /\ IsFiniteSet(BytesOfLane) /\ Cardinality(BytesOfLane) = 2 * Flush
  /\ IsFiniteSet(FieldsOfLane) /\ Cardinality(FieldsOfLane) = 8 * Flush
<1> DEFINE A == 0..(Flush - 1)
           B == 0..1
           C == 0..3
<1>1. Flush \in Nat \ {0}
  BY VecIs
<1>2. IsFiniteSet(A) /\ Cardinality(A) = Flush
  BY <1>1, FS_Interval
<1>3. IsFiniteSet(B) /\ Cardinality(B) = 2
  <2>1. \A a, b \in Int : IsFiniteSet(a..b) /\ Cardinality(a..b) = IF a > b THEN 0 ELSE b - a + 1
    BY FS_Interval
  <2>2. 0 \in Int /\ 1 \in Int /\ ~(0 > 1) /\ 1 - 0 + 1 = 2
    OBVIOUS
  <2> QED BY <2>1, <2>2
<1>4. IsFiniteSet(C) /\ Cardinality(C) = 4
  <2>1. \A a, b \in Int : IsFiniteSet(a..b) /\ Cardinality(a..b) = IF a > b THEN 0 ELSE b - a + 1
    BY FS_Interval
  <2>2. 0 \in Int /\ 3 \in Int /\ ~(0 > 3) /\ 3 - 0 + 1 = 4
    OBVIOUS
  <2> QED BY <2>1, <2>2
<1>5. BytesOfLane = A \X B /\ FieldsOfLane = A \X (B \X C)
  BY DEF BytesOfLane, FieldsOfLane
<1> HIDE DEF A, B, C
<1>6. IsFiniteSet(A \X B) /\ Cardinality(A \X B) = Flush * 2
  BY <1>2, <1>3, FS_Product
<1>7. IsFiniteSet(B \X C) /\ Cardinality(B \X C) = 2 * 4
  BY <1>3, <1>4, FS_Product
<1>8. IsFiniteSet(A \X (B \X C)) /\ Cardinality(A \X (B \X C)) = Flush * (2 * 4)
  BY <1>2, <1>7, FS_Product
<1> QED BY <1>1, <1>5, <1>6, <1>8

AtMost(T, c) == \A l \in LanesIn(T) : Cardinality(InLane(T, l)) \in Nat /\ Cardinality(InLane(T, l)) <= c

\* Where a step lies in its group.
LEMMA InGroup ==
  ASSUME NEW b \in Nat
  PROVE  b % Flush \in 0..(Flush - 1) /\ b = (b \div Flush) * Flush + (b % Flush)
BY VecIs, DivisionOf

LEMMA Avx2BytesPerLane ==
  ASSUME NEW n \in Nat
  PROVE  AtMost(I8Avx2(n), 2 * Flush)
<1> SUFFICES ASSUME NEW l \in LanesIn(I8Avx2(n))
             PROVE  Cardinality(InLane(I8Avx2(n), l)) \in Nat /\ Cardinality(InLane(I8Avx2(n), l)) <= 2 * Flush
  BY DEF AtMost
<1> DEFINE place(p) == (l[1] * Flush + p[1]) * Vec + (2 * l[2] + p[2])
           G == [p \in BytesOfLane |-> <<l[1], l[2], place(p), place(p)>>]
<1>1. ASSUME NEW t \in InLane(I8Avx2(n), l) PROVE \E p \in BytesOfLane : t = G[p]
  <2>1. PICK b \in 0..(n \div Vec - 1), k \in 0..(Vec - 1) : t = <<b \div Flush, k \div 2, b * Vec + k, b * Vec + k>>
    BY DEF InLane, Narrow, I8Avx2
  <2>2. l = <<b \div Flush, k \div 2>>
    BY <2>1 DEF InLane, LaneOf
  <2> DEFINE p == <<b % Flush, k % 2>>
  <2>3. b \in Nat /\ k \in Nat
    BY VecIs
  <2>4. b % Flush \in 0..(Flush - 1) /\ b = l[1] * Flush + (b % Flush)
    BY <2>2, <2>3, InGroup
  <2>5. k % 2 \in 0..1 /\ k = 2 * l[2] + (k % 2)
    BY <2>2, <2>3
  <2>6. p \in BytesOfLane /\ place(p) = b * Vec + k
    BY <2>4, <2>5 DEF BytesOfLane
  <2> QED BY <2>1, <2>2, <2>6
<1> HIDE DEF G
<1>2. InLane(I8Avx2(n), l) \subseteq {G[p] : p \in BytesOfLane}
  BY <1>1
<1>3. G = [p \in BytesOfLane |-> G[p]]
  BY DEF G
<1> QED BY <1>2, <1>3, LaneSizes, CoveredBy

LEMMA NeonBytesPerLane ==
  ASSUME NEW n \in Nat
  PROVE  AtMost(I8Neon(n, FALSE), 2 * Flush)
<1> DEFINE T == I8Neon(n, FALSE)
<1> SUFFICES ASSUME NEW l \in LanesIn(T)
             PROVE  Cardinality(InLane(T, l)) \in Nat /\ Cardinality(InLane(T, l)) <= 2 * Flush
  BY DEF AtMost
<1> DEFINE place(p) == (l[1] * Flush + p[1]) * Word + l[2]
           G == [p \in BytesOfLane |-> <<l[1], l[2], place(p), place(p)>>]
<1>1. ASSUME NEW t \in InLane(T, l) PROVE \E p \in BytesOfLane : t = G[p]
  <2>1. PICK b \in 0..(n \div Word - 1), k \in 0..(Word - 1) : t = <<b \div Flush, k, b * Word + k, b * Word + k>>
    BY DEF InLane, Narrow, I8Neon
  <2>2. l = <<b \div Flush, k>>
    BY <2>1 DEF InLane, LaneOf
  <2> DEFINE p == <<b % Flush, 0>>
  <2>3. b \in Nat /\ k \in Nat
    BY VecIs
  <2>4. b % Flush \in 0..(Flush - 1) /\ b = l[1] * Flush + (b % Flush)
    BY <2>2, <2>3, InGroup
  <2>5. p \in BytesOfLane /\ place(p) = b * Word + k
    BY <2>2, <2>4 DEF BytesOfLane
  <2> QED BY <2>1, <2>2, <2>5
<1> HIDE DEF G, T
<1>2. InLane(T, l) \subseteq {G[p] : p \in BytesOfLane}
  BY <1>1
<1>3. G = [p \in BytesOfLane |-> G[p]]
  BY DEF G
<1> QED BY <1>2, <1>3, LaneSizes, CoveredBy

LEMMA Avx2FieldsPerLane ==
  ASSUME NEW n \in Nat
  PROVE  AtMost(I2Avx2(n), 8 * Flush)
<1> DEFINE T == I2Avx2(n)
           lane == [k \in 0..(Vec - 1) |-> k \div 2]
<1> SUFFICES ASSUME NEW l \in LanesIn(T)
             PROVE  Cardinality(InLane(T, l)) \in Nat /\ Cardinality(InLane(T, l)) <= 8 * Flush
  BY DEF AtMost
<1> DEFINE stepOf(p) == l[1] * Flush + p[1]
           byte(p) == 2 * l[2] + p[2][1]
           G == [p \in FieldsOfLane |->
                  <<l[1], l[2], <<stepOf(p) * Vec + byte(p), p[2][2]>>, stepOf(p) * 4 * Vec + p[2][2] * Vec + byte(p)>>]
<1>1. ASSUME NEW t \in InLane(T, l) PROVE \E p \in FieldsOfLane : t = G[p]
  <2>1. PICK b \in 0..(n \div (4 * Vec) - 1) : t \in I2Step(b \div Flush, lane, b)
    BY DEF InLane, Narrow, I2Avx2
  <2>2. PICK k \in 0..(Vec - 1), g \in 0..3 :
          t = <<b \div Flush, lane[k], <<b * Vec + k, g>>, b * 4 * Vec + g * Vec + k>>
    BY <2>1 DEF I2Step
  <2>3. l = <<b \div Flush, k \div 2>> /\ lane[k] = k \div 2
    BY <2>2 DEF InLane, LaneOf
  <2> DEFINE p == <<b % Flush, <<k % 2, g>> >>
  <2>4. b \in Nat /\ k \in Nat
    BY VecIs
  <2>5. b % Flush \in 0..(Flush - 1) /\ b = l[1] * Flush + (b % Flush)
    BY <2>3, <2>4, InGroup
  <2>6. k % 2 \in 0..1 /\ k = 2 * l[2] + (k % 2)
    BY <2>3, <2>4
  <2>7. p \in FieldsOfLane /\ stepOf(p) = b /\ byte(p) = k /\ p[2][2] = g
    BY <2>5, <2>6 DEF FieldsOfLane
  <2> HIDE DEF stepOf, byte, p, lane
  <2> QED BY <2>2, <2>3, <2>7
<1> HIDE DEF G, T
<1>2. InLane(T, l) \subseteq {G[p] : p \in FieldsOfLane}
  BY <1>1
<1>3. G = [p \in FieldsOfLane |-> G[p]]
  BY DEF G
<1> QED BY <1>2, <1>3, LaneSizes, CoveredBy

LEMMA NeonFieldsPerLane ==
  ASSUME NEW n \in Nat
  PROVE  AtMost(I2Neon(n, FALSE), 8 * Flush)
<1> DEFINE T == I2Neon(n, FALSE)
<1> SUFFICES ASSUME NEW l \in LanesIn(T)
             PROVE  Cardinality(InLane(T, l)) \in Nat /\ Cardinality(InLane(T, l)) <= 8 * Flush
  BY DEF AtMost
<1> DEFINE stepOf(p) == l[1] * Flush + p[1]
           byte(p) == p[2][1] * Word + l[2]
           G == [p \in FieldsOfLane |->
                  <<l[1], l[2], <<stepOf(p) * Half + byte(p), p[2][2]>>, NeonBase(stepOf(p)) + p[2][2] * Vec + byte(p)>>]
<1>1. ASSUME NEW t \in InLane(T, l) PROVE \E p \in FieldsOfLane : t = G[p]
  <2>1. PICK u \in 0..(n \div (2 * Vec) - 1), k \in 0..(Half - 1), g \in 0..3 :
          t = <<u \div Flush, k % (Half \div 2), <<u * Half + k, g>>, NeonBase(u) + g * Vec + k>>
    BY DEF InLane, Narrow, I2Neon
  <2>2. Half \div 2 = Word /\ Word \in Nat \ {0} /\ Half = 2 * Word
    BY VecIs
  <2>3. l = <<u \div Flush, k % Word>>
    BY <2>1, <2>2 DEF InLane, LaneOf
  <2> DEFINE d == k \div Word
             p == <<u % Flush, <<d, g>> >>
  <2>4. u \in Nat /\ k \in Nat /\ k < 2 * Word
    BY <2>2
  <2>5. u % Flush \in 0..(Flush - 1) /\ u = l[1] * Flush + (u % Flush)
    BY <2>3, <2>4, InGroup
  <2>6. d \in 0..1 /\ k = d * Word + l[2]
    <3>1. d \in Nat /\ k % Word \in 0..(Word - 1) /\ k = d * Word + (k % Word)
      BY <2>2, <2>4, DivisionOf
    <3> HIDE DEF d
    <3>2. d < 2
      <4> SUFFICES ASSUME 2 <= d PROVE FALSE
        BY <3>1
      <4>1. Word * 2 <= Word * d
        BY <2>2, <3>1, ProductMonotone
      <4>2. Word * d = d * Word /\ d * Word \in Nat
        BY <2>2, <3>1
      <4> QED BY <2>2, <2>4, <3>1, <4>1, <4>2
    <3> QED BY <2>3, <3>1, <3>2
  <2> HIDE DEF d
  <2>7. p \in FieldsOfLane /\ stepOf(p) = u /\ byte(p) = k /\ p[2][2] = g
    BY <2>5, <2>6 DEF FieldsOfLane
  <2>8. t = <<l[1], l[2], <<u * Half + k, g>>, NeonBase(u) + g * Vec + k>>
    BY <2>1, <2>2, <2>3
  <2> HIDE DEF stepOf, byte, p
  <2> QED BY <2>7, <2>8
<1> HIDE DEF G, T
<1>2. InLane(T, l) \subseteq {G[p] : p \in FieldsOfLane}
  BY <1>1
<1>3. G = [p \in FieldsOfLane |-> G[p]]
  BY DEF G
<1> QED BY <1>2, <1>3, LaneSizes, CoveredBy

LEMMA NoWrap ==
  ASSUME NEW v \in Int, -32768 <= v, v <= 32767
  PROVE  Wrap16(v) = v
BY DEF Wrap16

LEMMA BytesNoWrap ==
  ASSUME NEW c \in Nat, c <= 2 * Flush, NEW w \in {-8, 8}, NEW y \in {-8, 8}
  PROVE  Wrap16(c * w * y) = c * w * y
<1>1. c <= 510
  BY DotAssumption
<1>2. c * w * y \in Int /\ -32768 <= c * w * y /\ c * w * y <= 32767
  <2>1. CASE w = 8 /\ y = 8
    BY <1>1, <2>1
  <2>2. CASE w = 8 /\ y = -8
    BY <1>1, <2>2
  <2>3. CASE w = -8 /\ y = 8
    BY <1>1, <2>3
  <2>4. CASE w = -8 /\ y = -8
    BY <1>1, <2>4
  <2> QED BY <2>1, <2>2, <2>3, <2>4
<1> QED BY <1>2, NoWrap

LEMMA FieldsNoWrap ==
  ASSUME NEW c \in Nat, c <= 8 * Flush, NEW w \in {1, 2}, NEW y \in {-8, 8}
  PROVE  Wrap16(c * w * y) = c * w * y
<1>1. c <= 2040
  BY DotAssumption
<1>2. c * w * y \in Int /\ -32768 <= c * w * y /\ c * w * y <= 32767
  <2>1. CASE w = 1 /\ y = 8
    BY <1>1, <2>1
  <2>2. CASE w = 1 /\ y = -8
    BY <1>1, <2>2
  <2>3. CASE w = 2 /\ y = 8
    BY <1>1, <2>3
  <2>4. CASE w = 2 /\ y = -8
    BY <1>1, <2>4
  <2> QED BY <2>1, <2>2, <2>3, <2>4
<1> QED BY <1>2, NoWrap

\* Kernels whose lanes have 32 bits.
AllWide(T) == \A t \in T : t[1] = Wide

LEMMA WideFits ==
  ASSUME NEW T, AllWide(T), NEW w, NEW y
  PROVE  Fits(T, w, y)
BY DEF AllWide, Fits, LanesIn, Narrow

LEMMA WideBytes ==
  ASSUME NEW n \in Nat
  PROVE  AllWide(I8Vnni(n)) /\ AllWide(I8VnniShared(n)) /\ AllWide(I8Scalar(n)) /\ AllWide(I8Neon(n, TRUE))
<1>1. ASSUME NEW lane, NEW starts, NEW len PROVE AllWide(Loads(lane, starts, len))
  BY DEF AllWide, Loads
<1>2. AllWide(I8Vnni(n))
  BY <1>1 DEF AllWide, I8Vnni
<1>3. AllWide(I8VnniShared(n))
  BY <1>1 DEF AllWide, I8VnniShared
<1>4. AllWide(I8Scalar(n)) /\ AllWide(I8Neon(n, TRUE))
  BY DEF AllWide, I8Scalar, I8Neon
<1> QED BY <1>2, <1>3, <1>4

LEMMA WideFields ==
  ASSUME NEW n \in Nat
  PROVE  AllWide(I2VnniRows(n)) /\ AllWide(I2VnniCols(n)) /\ AllWide(I2Neon(n, TRUE)) /\ AllWide(I2NeonCols(n, TRUE))
<1>1. AllWide(I2Odd(n))
  BY DEF AllWide, I2Odd, I2Step
<1>2. AllWide(I2VnniRows(n)) /\ AllWide(I2VnniCols(n))
  BY <1>1 DEF AllWide, I2VnniRows, I2VnniCols
<1>3. AllWide(I2Neon(n, TRUE)) /\ AllWide(I2NeonCols(n, TRUE))
  BY DEF AllWide, I2Neon, I2NeonCols
<1> QED BY <1>2, <1>3

LEMMA NarrowBytesFit ==
  ASSUME NEW n \in Nat, NEW form, NEW code \in {"avx2", "vnni", "neon", "dotprod", "scalar"}
  PROVE  LET T == Terms("i8", form, code, n)
         IN  /\ AllWide(T) \/ AtMost(T, 2 * Flush)
             /\ code = "vnni" => AllWide(T)
<1>1. Terms("i8", form, code, n) = I8Terms(form, code, n)
  BY DEF Terms
<1>2. CASE code = "avx2"
  BY <1>1, <1>2, Avx2BytesPerLane DEF I8Terms
<1>3. CASE code = "vnni"
  BY <1>1, <1>3, WideBytes DEF I8Terms
<1>4. CASE code = "neon"
  <2>1. I8Terms(form, code, n) = I8Neon(n, FALSE)
    BY <1>4 DEF I8Terms
  <2> QED BY <1>1, <1>4, <2>1, NeonBytesPerLane
<1>5. CASE code = "dotprod"
  <2>1. I8Terms(form, code, n) = I8Neon(n, TRUE)
    BY <1>5 DEF I8Terms
  <2> QED BY <1>1, <1>5, <2>1, WideBytes
<1>6. CASE code = "scalar"
  BY <1>1, <1>6, WideBytes DEF I8Terms
<1> QED BY <1>2, <1>3, <1>4, <1>5, <1>6

LEMMA NarrowFieldsFit ==
  ASSUME NEW n \in Nat, NEW form, NEW code \in {"avx2", "vnni", "neon", "dotprod"}
  PROVE  LET T == Terms("i2", form, code, n)
         IN  /\ AllWide(T) \/ AtMost(T, 8 * Flush)
             /\ code = "vnni" => AllWide(T)
<1>1. Terms("i2", form, code, n) = I2Terms(form, code, n)
  BY DEF Terms
<1>2. CASE code = "avx2"
  BY <1>1, <1>2, Avx2FieldsPerLane DEF I2Terms
<1>3. CASE code = "vnni"
  BY <1>1, <1>3, WideFields DEF I2Terms
<1>4. CASE code = "neon"
  <2>1. I2Terms(form, code, n) = IF form = "Nx1" THEN I2NeonCols(n, FALSE) ELSE I2Neon(n, FALSE)
    BY <1>4 DEF I2Terms
  <2>2. I2NeonCols(n, FALSE) = I2Neon(n, FALSE)
    <3>1. \A u \in 0..(n \div (2 * Vec) - 1) : NeonColBase(u) = NeonBase(u)
      BY ColumnBase
    <3> QED BY <3>1 DEF I2NeonCols, I2Neon
  <2> QED BY <1>1, <1>4, <2>1, <2>2, NeonFieldsPerLane
<1>5. CASE code = "dotprod"
  <2>1. I2Terms(form, code, n) = IF form = "Nx1" THEN I2NeonCols(n, TRUE) ELSE I2Neon(n, TRUE)
    BY <1>5 DEF I2Terms
  <2> QED BY <1>1, <1>5, <2>1, WideFields
<1> QED BY <1>2, <1>3, <1>4, <1>5

\* The lanes of a call: wide, or with no more products than two bytes or eight fields of each step.
LEMMA LanesOfCall ==
  ASSUME call \in Calls
  PROVE  /\ call.family = "i8" => AllWide(KernelTerms) \/ AtMost(KernelTerms, 2 * Flush)
         /\ call.family = "i2" => AllWide(KernelTerms) \/ AtMost(KernelTerms, 8 * Flush)
         /\ IsaOf(call) = "vnni" => AllWide(KernelTerms)
<1>1. /\ call.family \in {"i8", "i2"} /\ call.n \in Nat
      /\ IsaOf(call) \in {"avx2", "vnni", "neon", "dotprod", "scalar"}
      /\ call.family = "i2" => IsaOf(call) # "scalar"
  BY IsaIs
<1>2. KernelTerms = Terms(call.family, Shape(call), IsaOf(call), call.n)
  BY DEF KernelTerms
<1>3. CASE call.family = "i8"
  BY <1>1, <1>2, <1>3, NarrowBytesFit
<1>4. CASE call.family = "i2"
  BY <1>1, <1>2, <1>4, NarrowFieldsFit
<1> QED BY <1>1, <1>3, <1>4

LEMMA ExactWithin8 ==
  ASSUME call \in Calls
  PROVE  Exact(8)
<1>1. call.family \in {"i8", "i2"} /\ IsFiniteSet(KernelTerms)
  BY IsaIs, PairsOfCall
<1>2. ASSUME NEW w \in Weights(call.family, 8), NEW y \in {-8, 8}
      PROVE  Value(KernelTerms, w, y) = Cardinality(KernelTerms) * w * y
  <2>1. w \in Int /\ y \in Int
    BY DEF Weights
  <2>2. CASE AllWide(KernelTerms)
    BY <1>1, <2>1, <2>2, WideFits, ValueExact
  <2>3. CASE call.family = "i8" /\ AtMost(KernelTerms, 2 * Flush)
    <3>1. w \in {-8, 8}
      BY <2>3 DEF Weights
    <3>2. Fits(KernelTerms, w, y)
      BY <2>3, <3>1, BytesNoWrap DEF Fits, AtMost
    <3> QED BY <1>1, <2>1, <3>2, ValueExact
  <2>4. CASE call.family = "i2" /\ AtMost(KernelTerms, 8 * Flush)
    <3>1. w \in {1, 2}
      BY <2>4 DEF Weights
    <3>2. Fits(KernelTerms, w, y)
      BY <2>4, <3>1, FieldsNoWrap DEF Fits, AtMost
    <3> QED BY <1>1, <2>1, <3>2, ValueExact
  <2> QED BY <1>1, <2>2, <2>3, <2>4, LanesOfCall
<1> QED BY <1>2 DEF Exact

LEMMA ExactWhenWide ==
  ASSUME call \in Calls, AllWide(KernelTerms)
  PROVE  Exact(127)
<1>1. IsFiniteSet(KernelTerms)
  BY PairsOfCall
<1>2. ASSUME NEW w \in Weights(call.family, 127), NEW y \in {-127, 127}
      PROVE  Value(KernelTerms, w, y) = Cardinality(KernelTerms) * w * y
  <2>1. w \in Int /\ y \in Int
    BY DEF Weights
  <2> QED BY <1>1, <2>1, WideFits, ValueExact
<1> QED BY <1>2 DEF Exact

(***************************************************************************)
(* Whatever the row's length and the call, operands within 8 wrap no lane  *)
(* of 16 bits, and a VNNI kernel has no such lane: results are exact.      *)
(***************************************************************************)
THEOREM NarrowCallsExact == DotSpec => []NarrowIsExact
<1>1. DotInv => NarrowIsExact
  <2> SUFFICES ASSUME DotInv PROVE NarrowIsExact
    OBVIOUS
  <2>1. call \in Calls /\ Exact(8)
    BY ExactWithin8 DEF DotInv
  <2>2. ASSUME call.isa = "vnni", call.family = "i8" \/ call.forced \/ Shape(call) # "Nx1" PROVE Exact(127)
    <3>1. IsaOf(call) = "vnni"
      <4>1. call.family \in {"i8", "i2"}
        BY <2>1, IsaIs
      <4> QED BY <2>2, <4>1 DEF IsaOf
    <3> QED BY <2>1, <3>1, LanesOfCall, ExactWhenWide
  <2> QED BY <2>1, <2>2 DEF NarrowIsExact
<1>2. DotInit => DotInv
  BY DotInitial
<1>3. DotInv /\ [DotNext]_dotVars => DotInv'
  BY DotInductive
<1> QED BY <1>1, <1>2, <1>3, PTL DEF DotSpec

==============================================================================
