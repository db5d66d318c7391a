--------------------------- MODULE DataInduction ---------------------------
(***************************************************************************)
(* Induction over the natural numbers, and functions defined by recursion  *)
(* over them, stated with sets and functions instead of operators.  The    *)
(* proofs of what the pure algorithms of the code compute rest on these.   *)
(***************************************************************************)
EXTENDS Integers, SequencesExt, FiniteSetTheorems, TLAPS

(***************************************************************************)
(* A set that holds 0, and n + 1 whenever it holds n, holds every natural  *)
(* number.  Otherwise the numbers up to k outside of it, k among them,     *)
(* could be mapped one to one to themselves without k.                     *)
(***************************************************************************)
LEMMA NatSetInduction ==
  ASSUME NEW S, 0 \in S, \A n \in Nat : n \in S => n + 1 \in S
  PROVE  \A n \in Nat : n \in S
<1> SUFFICES ASSUME NEW k \in Nat, k \notin S PROVE FALSE
  OBVIOUS
<1> DEFINE Outside == {n \in 0..k : n \notin S}
           pred == [n \in Outside |-> n - 1]
<1>1. IsFiniteSet(Outside)
  <2>1. IsFiniteSet(0..k) /\ Outside \in SUBSET (0..k)
    BY FS_Interval
  <2> HIDE DEF Outside
  <2> QED BY <2>1, FS_Subset
<1>2. k \in Outside
  OBVIOUS
<1>3. /\ IsFiniteSet(Outside \ {k})
      /\ Cardinality(Outside \ {k}) = Cardinality(Outside) - 1
  BY <1>1, <1>2, FS_RemoveElement
<1>4. Cardinality(Outside) \in Nat
  BY <1>1, FS_CardinalityType
<1>5. pred \in [Outside -> Outside \ {k}]
  <2> SUFFICES ASSUME NEW n \in Outside PROVE n - 1 \in Outside \ {k}
    OBVIOUS
  <2>1. n \in 0..k /\ n # 0 /\ n \notin S
    OBVIOUS
  <2>2. n - 1 \in Nat /\ (n - 1) + 1 = n
    BY <2>1
  <2> QED BY <2>1, <2>2
<1>6. Cardinality(Outside \ {k}) < Cardinality(Outside)
  BY <1>3, <1>4
<1> HIDE DEF pred
<1>7. PICK x \in Outside, y \in Outside : x # y /\ pred[x] = pred[y]
  BY <1>1, <1>3, <1>5, <1>6, FS_PigeonHole
<1>8. pred[x] = x - 1 /\ pred[y] = y - 1
  BY DEF pred
<1>9. x \in Int /\ y \in Int
  OBVIOUS
<1>10. x - 1 = y - 1
  BY <1>7, <1>8
<1>11. x = y
  BY <1>9, <1>10
<1> QED BY <1>7, <1>11

(***************************************************************************)
(* The same up to a bound.                                                 *)
(***************************************************************************)
LEMMA IntervalInduction ==
  ASSUME NEW m \in Nat, NEW S, 0 \in S, \A n \in 0..(m - 1) : n \in S => n + 1 \in S
  PROVE  \A n \in 0..m : n \in S
<1> DEFINE T == {n \in Nat : n <= m => n \in S}
<1>1. 0 \in T
  OBVIOUS
<1>2. \A n \in Nat : n \in T => n + 1 \in T
  OBVIOUS
<1> HIDE DEF T
<1>3. \A n \in Nat : n \in T
  BY <1>1, <1>2, NatSetInduction
<1> QED BY <1>3 DEF T

(***************************************************************************)
(* There is a function that starts at base and takes step n from n to      *)
(* n + 1: its initial parts exist and agree.                               *)
(***************************************************************************)
Iterates(f, V, base, step) ==
  f \in [Nat -> V] /\ f[0] = base /\ \A n \in Nat : f[n + 1] = step[n][f[n]]

LEMMA RecursionOverNat ==
  ASSUME NEW V, NEW base \in V, NEW step \in [Nat -> [V -> V]]
  PROVE  \E f : Iterates(f, V, base, step)
<1> DEFINE Begins(n, g) == g[0] = base /\ \A i \in 0..(n - 1) : g[i + 1] = step[i][g[i]]
           Have == {n \in Nat : \E g \in [0..n -> V] : Begins(n, g)}
<1>1. \A n \in Nat : n \in Have
  <2>1. 0 \in Have
    <3>1. [i \in 0..0 |-> base] \in [0..0 -> V] /\ Begins(0, [i \in 0..0 |-> base])
      OBVIOUS
    <3> QED BY <3>1
  <2>2. ASSUME NEW n \in Nat, n \in Have PROVE n + 1 \in Have
    <3>1. PICK g \in [0..n -> V] : Begins(n, g)
      BY <2>2
    <3> DEFINE h == [i \in 0..(n + 1) |-> IF i = n + 1 THEN step[n][g[n]] ELSE g[i]]
    <3>2. g[n] \in V /\ step[n][g[n]] \in V
      OBVIOUS
    <3>3. h \in [0..(n + 1) -> V]
      BY <3>2
    <3>4. ASSUME NEW i \in 0..((n + 1) - 1) PROVE h[i + 1] = step[i][h[i]]
      <4>1. h[i] = g[i] /\ i \in 0..n
        OBVIOUS
      <4>2. CASE i = n
        BY <4>1, <4>2
      <4>3. CASE i # n
        <5>1. i \in 0..(n - 1) /\ h[i + 1] = g[i + 1]
          BY <4>3
        <5> QED BY <3>1, <4>1, <5>1
      <4> QED BY <4>2, <4>3
    <3>5. h[0] = base
      BY <3>1
    <3> HIDE DEF h
    <3> QED BY <3>3, <3>4, <3>5
  <2> HIDE DEF Have
  <2> QED BY <2>1, <2>2, NatSetInduction
<1>2. ASSUME NEW n \in Nat, NEW m \in Nat, NEW g \in [0..n -> V], NEW h \in [0..m -> V],
             Begins(n, g), Begins(m, h), n <= m
      PROVE  \A i \in 0..n : g[i] = h[i]
  <2> DEFINE Agree == {i \in 0..n : g[i] = h[i]}
  <2>1. 0 \in Agree
    BY <1>2
  <2>2. ASSUME NEW i \in 0..(n - 1), i \in Agree PROVE i + 1 \in Agree
    <3>1. i \in 0..(m - 1) /\ g[i] = h[i] /\ i + 1 \in 0..n
      BY <1>2, <2>2
    <3> QED BY <1>2, <3>1
  <2> HIDE DEF Agree
  <2>3. \A i \in 0..n : i \in Agree
    BY <2>1, <2>2, IntervalInduction
  <2> QED BY <2>3 DEF Agree
<1> DEFINE part(n) == CHOOSE g \in [0..n -> V] : Begins(n, g)
           f == [n \in Nat |-> part(n)[n]]
<1>3. ASSUME NEW n \in Nat PROVE part(n) \in [0..n -> V] /\ Begins(n, part(n))
  BY <1>1
<1> HIDE DEF part
<1>4. f \in [Nat -> V]
  BY <1>3
<1>5. f[0] = base
  BY <1>3
<1>6. ASSUME NEW n \in Nat PROVE f[n + 1] = step[n][f[n]]
  <2>1. part(n + 1)[n + 1] = step[n][part(n + 1)[n]]
    BY <1>3
  <2>2. part(n)[n] = part(n + 1)[n]
    <3>1. part(n) \in [0..n -> V] /\ Begins(n, part(n))
      BY <1>3
    <3>2. part(n + 1) \in [0..(n + 1) -> V] /\ Begins(n + 1, part(n + 1))
      BY <1>3
    <3>3. n + 1 \in Nat /\ n <= n + 1 /\ n \in 0..n
      OBVIOUS
    <3> HIDE DEF Begins
    <3>4. \A i \in 0..n : part(n)[i] = part(n + 1)[i]
      BY <1>2, <3>1, <3>2, <3>3
    <3> QED BY <3>3, <3>4
  <2> QED BY <2>1, <2>2
<1> HIDE DEF f
<1> QED BY <1>4, <1>5, <1>6 DEF Iterates

(***************************************************************************)
(* The same for a function over 1..m.                                      *)
(***************************************************************************)
IteratesUpTo(f, m, V, base, step) ==
  f \in [1..m -> V] /\ f[1] = base /\ \A i \in 2..m : f[i] = step[i][f[i - 1]]

LEMMA RecursionUpTo ==
  ASSUME NEW V, NEW m \in Nat \ {0}, NEW base \in V, NEW step \in [1..m -> [V -> V]]
  PROVE  \E f : IteratesUpTo(f, m, V, base, step)
<1> DEFINE onNat == [n \in Nat |-> IF n + 2 \in 1..m THEN step[n + 2] ELSE [v \in V |-> v]]
<1>1. onNat \in [Nat -> [V -> V]]
  OBVIOUS
<1>2. \A i \in 2..m : i - 2 \in Nat /\ onNat[i - 2] = step[i]
  OBVIOUS
<1> HIDE DEF onNat
<1>0. PICK g : Iterates(g, V, base, onNat)
  BY <1>1, RecursionOverNat
<1>3. g \in [Nat -> V] /\ g[0] = base /\ \A n \in Nat : g[n + 1] = onNat[n][g[n]]
  BY <1>0 DEF Iterates
<1> DEFINE f == [i \in 1..m |-> g[i - 1]]
<1>4. f \in [1..m -> V] /\ f[1] = base
  BY <1>3
<1>5. ASSUME NEW i \in 2..m PROVE f[i] = step[i][f[i - 1]]
  <2>1. i - 2 \in Nat /\ (i - 2) + 1 = i - 1
    OBVIOUS
  <2>2. g[(i - 2) + 1] = onNat[i - 2][g[i - 2]]
    BY <1>3, <2>1
  <2>3. g[i - 1] = step[i][g[i - 2]]
    BY <1>2, <2>1, <2>2
  <2>4. i \in 1..m /\ i - 1 \in 1..m /\ (i - 1) - 1 = i - 2
    OBVIOUS
  <2>5. f[i] = g[i - 1] /\ f[i - 1] = g[i - 2]
    BY <2>4
  <2> QED BY <2>3, <2>5
<1> HIDE DEF f
<1> QED BY <1>4, <1>5 DEF IteratesUpTo

LEMMA IntervalInductionFrom1 ==
  ASSUME NEW m \in Nat \ {0}, NEW S, 1 \in S, \A i \in 2..m : i - 1 \in S => i \in S
  PROVE  \A i \in 1..m : i \in S
<1> DEFINE T == {n \in 0..(m - 1) : n + 1 \in S}
<1>1. 0 \in T
  OBVIOUS
<1>2. ASSUME NEW n \in 0..((m - 1) - 1), n \in T PROVE n + 1 \in T
  <2>1. n + 2 \in 2..m /\ (n + 2) - 1 = n + 1 /\ (n + 1) + 1 = n + 2
    OBVIOUS
  <2>2. n + 1 \in S
    BY <1>2
  <2>3. n + 2 \in S
    BY <2>1, <2>2
  <2> QED BY <2>1, <2>3
<1>3. m - 1 \in Nat
  OBVIOUS
<1> HIDE DEF T
<1>4. \A n \in 0..(m - 1) : n \in T
  BY <1>1, <1>2, <1>3, IntervalInduction
<1> TAKE i \in 1..m
<1>5. i - 1 \in T /\ (i - 1) + 1 = i
  BY <1>4
<1> QED BY <1>5 DEF T

(***************************************************************************)
(* FlattenSeq joins its sequences one after the other.                     *)
(***************************************************************************)
Flattened(m, seqs) ==
  CHOOSE f : f = [i \in 1..m |-> IF i = 1 THEN seqs[i] ELSE f[i - 1] \o seqs[i]]

Unfolds(F, m, seqs, V) ==
  /\ F \in [1..m -> V] /\ F[1] = seqs[1]
  /\ \A i \in 2..m : F[i] = F[i - 1] \o seqs[i]

LEMMA RecursiveConcat ==
  ASSUME NEW T, NEW m \in Nat \ {0}, NEW seqs \in [1..m -> Seq(T)]
  PROVE  Unfolds(Flattened(m, seqs), m, seqs, Seq(T))
<1> DEFINE F == Flattened(m, seqs)
<1> DEFINE body(f, i) == IF i = 1 THEN seqs[i] ELSE f[i - 1] \o seqs[i]
           Eq(f) == f = [i \in 1..m |-> body(f, i)]
           V == Seq(T)
           step == [i \in 1..m |-> [v \in V |-> v \o seqs[i]]]
<1>1. \A i \in 1..m : seqs[i] \in V
  OBVIOUS
<1>2. \A i \in 1..m, v \in V : v \o seqs[i] \in V
  BY <1>1
<1>3. seqs[1] \in V
  BY <1>1
<1> HIDE DEF V
<1>4. step \in [1..m -> [V -> V]]
  BY <1>2
<1>5. \A i \in 1..m, v \in V : step[i][v] = v \o seqs[i]
  OBVIOUS
<1> HIDE DEF step
<1>0. PICK h : IteratesUpTo(h, m, V, seqs[1], step)
  BY <1>3, <1>4, RecursionUpTo
<1>6. h \in [1..m -> V] /\ h[1] = seqs[1] /\ \A i \in 2..m : h[i] = step[i][h[i - 1]]
  BY <1>0 DEF IteratesUpTo
<1>7. ASSUME NEW i \in 2..m PROVE h[i] = h[i - 1] \o seqs[i]
  <2>1. i \in 1..m /\ h[i - 1] \in V
    BY <1>6
  <2>2. step[i][h[i - 1]] = h[i - 1] \o seqs[i]
    BY <1>5, <2>1
  <2> QED BY <1>6, <2>2
<1>8. Eq(h)
  <2>1. ASSUME NEW i \in 1..m PROVE h[i] = body(h, i)
    <3>1. CASE i = 1
      BY <1>6, <3>1
    <3>2. CASE i # 1
      <4>1. i \in 2..m
        BY <3>2
      <4> QED BY <1>7, <3>2, <4>1
    <3> QED BY <3>1, <3>2
  <2> HIDE DEF body
  <2> QED BY <1>6, <2>1
<1>9. Eq(F)
  <2>1. F = CHOOSE f : Eq(f)
    BY DEF Flattened
  <2> HIDE DEF Eq
  <2> QED BY <1>8, <2>1
<1> HIDE DEF F
<1>10. \A i \in 1..m : F[i] = body(F, i)
  <2> HIDE DEF body
  <2> QED BY <1>9
<1>12. (\A i \in 1..m : F[i] \in V) => F \in [1..m -> V]
  <2> HIDE DEF body
  <2> QED BY <1>9, <1>10
<1> HIDE DEF Eq
<1>13. F[1] = seqs[1]
  <2>1. 1 \in 1..m
    OBVIOUS
  <2>2. body(F, 1) = seqs[1]
    OBVIOUS
  <2> HIDE DEF body
  <2> QED BY <1>10, <2>1, <2>2
<1>14. ASSUME NEW i \in 2..m PROVE F[i] = F[i - 1] \o seqs[i]
  <2>1. i \in 1..m /\ i # 1
    OBVIOUS
  <2>2. body(F, i) = F[i - 1] \o seqs[i]
    BY <2>1
  <2> HIDE DEF body
  <2> QED BY <1>10, <2>1, <2>2
<1> HIDE DEF body
<1> DEFINE S == {i \in 1..m : F[i] \in V}
<1>15. 1 \in S
  BY <1>3, <1>13
<1>16. ASSUME NEW i \in 2..m, i - 1 \in S PROVE i \in S
  <2>1. i \in 1..m /\ F[i - 1] \in V
    BY <1>16
  <2>2. F[i] \in V
    BY <1>2, <1>14, <2>1
  <2> QED BY <2>1, <2>2
<1> HIDE DEF S
<1>17. \A i \in 1..m : i \in S
  BY <1>15, <1>16, IntervalInductionFrom1
<1>18. \A i \in 1..m : F[i] \in V
  BY <1>17 DEF S
<1>19. F \in [1..m -> V]
  BY <1>12, <1>18
<1>20. Unfolds(F, m, seqs, V)
  BY <1>13, <1>14, <1>19 DEF Unfolds
<1> QED BY <1>20 DEF V, F

\* It is the last of its partial joins.
Joins(f, T, seqs) ==
  /\ f \in [0..Len(seqs) -> Seq(T)]
  /\ f[0] = <<>> /\ f[Len(seqs)] = FlattenSeq(seqs)
  /\ \A i \in 1..Len(seqs) : f[i] = f[i - 1] \o seqs[i]

LEMMA FlattenParts ==
  ASSUME NEW T, NEW seqs \in Seq(Seq(T))
  PROVE  \E f : Joins(f, T, seqs)
<1> DEFINE m == Len(seqs)
<1>1. m \in Nat /\ seqs \in [1..m -> Seq(T)]
  OBVIOUS
<1>2. CASE m = 0
  <2>1. seqs = <<>> /\ FlattenSeq(seqs) = <<>>
    BY <1>2 DEF FlattenSeq
  <2> DEFINE f == [i \in 0..0 |-> <<>>]
  <2>2. f \in [0..0 -> Seq(T)] /\ f[0] = <<>>
    OBVIOUS
  <2> HIDE DEF f
  <2> QED BY <1>2, <2>1, <2>2 DEF Joins
<1>3. CASE m # 0
  <2> DEFINE F == Flattened(m, seqs)
  <2>1. FlattenSeq(seqs) = F[m]
    BY <1>3 DEF FlattenSeq, Flattened
  <2>2. m \in Nat \ {0}
    BY <1>1, <1>3
  <2>3. /\ F \in [1..m -> Seq(T)] /\ F[1] = seqs[1]
        /\ \A i \in 2..m : F[i] = F[i - 1] \o seqs[i]
    <3> HIDE DEF m
    <3>1. Unfolds(Flattened(m, seqs), m, seqs, Seq(T))
      BY <1>1, <2>2, RecursiveConcat, Zenon
    <3> QED BY <3>1 DEF Unfolds
  <2> HIDE DEF F
  <2> DEFINE f == [i \in 0..m |-> IF i = 0 THEN <<>> ELSE F[i]]
  <2>4. f \in [0..m -> Seq(T)] /\ f[0] = <<>> /\ f[m] = F[m]
    BY <2>2, <2>3
  <2>5. ASSUME NEW i \in 1..m PROVE f[i] = f[i - 1] \o seqs[i]
    <3>1. CASE i = 1
      <4>1. f[1] = seqs[1] /\ f[0] = <<>> /\ seqs[1] \in Seq(T) /\ i - 1 = 0
        BY <1>1, <2>2, <2>3, <3>1
      <4>2. <<>> \o seqs[1] = seqs[1]
        BY <4>1
      <4> HIDE DEF f
      <4> QED BY <3>1, <4>1, <4>2
    <3>2. CASE i # 1
      <4>1. i \in 2..m /\ i - 1 \in 1..m
        BY <1>1, <3>2
      <4>2. f[i] = F[i] /\ f[i - 1] = F[i - 1]
        BY <4>1
      <4> HIDE DEF f
      <4> QED BY <2>3, <4>1, <4>2
    <3> QED BY <3>1, <3>2
  <2> HIDE DEF f
  <2> QED BY <2>1, <2>4, <2>5 DEF Joins
<1> QED BY <1>2, <1>3

LEMMA FlattenType ==
  ASSUME NEW T, NEW seqs \in Seq(Seq(T))
  PROVE  FlattenSeq(seqs) \in Seq(T)
<1>1. PICK f : Joins(f, T, seqs)
  BY FlattenParts
<1>2. Len(seqs) \in 0..Len(seqs)
  OBVIOUS
<1> QED BY <1>1, <1>2 DEF Joins

LEMMA FlattenEmpty == FlattenSeq(<<>>) = <<>>
BY DEF FlattenSeq

LEMMA FlattenOne ==
  ASSUME NEW T, NEW s \in Seq(T)
  PROVE  FlattenSeq(<<s>>) = s
<1>1. <<s>> \in Seq(Seq(T)) /\ Len(<<s>>) = 1 /\ <<s>>[1] = s
  OBVIOUS
<1>2. PICK f : Joins(f, T, <<s>>)
  BY <1>1, FlattenParts
<1>3. f[0] = <<>> /\ f[1] = FlattenSeq(<<s>>) /\ f[1] = f[0] \o s
  <2>1. 1 \in 1..1 /\ 1 - 1 = 0
    OBVIOUS
  <2> QED BY <1>1, <1>2, <2>1 DEF Joins
<1>4. <<>> \o s = s
  OBVIOUS
<1> QED BY <1>3, <1>4

LEMMA ConcatParts ==
  ASSUME NEW T, NEW s \in Seq(T), NEW t \in Seq(T)
  PROVE  /\ s \o t \in Seq(T) /\ Len(s \o t) = Len(s) + Len(t)
         /\ \A i \in 1..Len(s) : (s \o t)[i] = s[i]
         /\ \A i \in 1..Len(t) : (s \o t)[Len(s) + i] = t[i]
OBVIOUS

LEMMA AsSequence ==
  ASSUME NEW T, NEW n \in Nat, NEW f \in [1..n -> T]
  PROVE  f \in Seq(T) /\ Len(f) = n
OBVIOUS

LEMMA ConcatOf ==
  ASSUME NEW T
  PROVE  \A s, t \in Seq(T) :
           /\ s \o t \in Seq(T) /\ Len(s \o t) = Len(s) + Len(t)
           /\ \A i \in 1..Len(s) : (s \o t)[i] = s[i]
           /\ \A i \in 1..Len(t) : (s \o t)[Len(s) + i] = t[i]
BY ConcatParts

LEMMA SameSequence ==
  ASSUME NEW T, NEW s \in Seq(T), NEW t \in Seq(T), Len(s) = Len(t),
         \A i \in 1..Len(s) : s[i] = t[i]
  PROVE  s = t
OBVIOUS

LEMMA ConcatAssociates ==
  ASSUME NEW T, NEW s \in Seq(T), NEW t \in Seq(T), NEW u \in Seq(T)
  PROVE  (s \o t) \o u = s \o (t \o u)
OBVIOUS

\* \o under a name that the provers do not look into.
Cat(x, y) == x \o y

LEMMA CatType == ASSUME NEW T PROVE \A x, y \in Seq(T) : Cat(x, y) \in Seq(T)
BY DEF Cat

LEMMA CatAssociates ==
  ASSUME NEW T PROVE \A x, y, z \in Seq(T) : Cat(Cat(x, y), z) = Cat(x, Cat(y, z))
BY ConcatAssociates DEF Cat

LEMMA FiveJoined ==
  ASSUME NEW T
  PROVE  \A r, s, t, u, v \in Seq(T) :
           Cat(Cat(Cat(Cat(r, s), t), u), v) = Cat(r, Cat(Cat(Cat(s, t), u), v))
<1> TAKE r, s, t, u, v \in Seq(T)
<1>1. Cat(s, t) \in Seq(T) /\ Cat(Cat(s, t), u) \in Seq(T)
  BY CatType
<1>2. Cat(Cat(r, s), t) = Cat(r, Cat(s, t))
  BY CatAssociates
<1>3. Cat(Cat(r, Cat(s, t)), u) = Cat(r, Cat(Cat(s, t), u))
  BY <1>1, CatAssociates
<1>4. Cat(Cat(r, Cat(Cat(s, t), u)), v) = Cat(r, Cat(Cat(Cat(s, t), u), v))
  BY <1>1, CatAssociates
<1> QED BY <1>2, <1>3, <1>4

LEMMA NextIndex ==
  \A a, b \in Nat : \A i \in 0..(a - 1) :
    /\ i \in 0..a /\ i + 1 \in 0..a /\ i + 1 \in 1..a /\ (i + 1) - 1 = i
    /\ i + 1 \in 1..(a + b)
    /\ b + (i + 1) \in 1..(b + a) /\ (b + (i + 1)) - 1 = b + i
OBVIOUS

LEMMA FlattenConcat ==
  ASSUME NEW T, NEW s \in Seq(Seq(T)), NEW t \in Seq(Seq(T))
  PROVE  FlattenSeq(s \o t) = FlattenSeq(s) \o FlattenSeq(t)
<1> DEFINE m == Len(s)
           n == Len(t)
<1>1. /\ m \in Nat /\ n \in Nat /\ s \o t \in Seq(Seq(T)) /\ Len(s \o t) = m + n
      /\ \A i \in 1..m : (s \o t)[i] = s[i] /\ s[i] \in Seq(T)
      /\ \A j \in 1..n : (s \o t)[m + j] = t[j] /\ t[j] \in Seq(T)
  OBVIOUS
<1>2. PICK f : Joins(f, T, s \o t)
  BY <1>1, FlattenParts
<1>3. PICK g : Joins(g, T, s)
  BY FlattenParts
<1>4. PICK h : Joins(h, T, t)
  BY FlattenParts
<1>5. /\ f[0] = <<>> /\ f[m + n] = FlattenSeq(s \o t)
      /\ \A i \in 1..(m + n) : f[i] = f[i - 1] \o (s \o t)[i]
  BY <1>1, <1>2 DEF Joins
<1>6. /\ g[0] = <<>> /\ g[m] = FlattenSeq(s) /\ g \in [0..m -> Seq(T)]
      /\ \A i \in 1..m : g[i] = g[i - 1] \o s[i]
  BY <1>3 DEF Joins
<1>7. /\ h[0] = <<>> /\ h[n] = FlattenSeq(t) /\ h \in [0..n -> Seq(T)]
      /\ \A j \in 1..n : h[j] = h[j - 1] \o t[j]
  BY <1>4 DEF Joins
<1> HIDE DEF m, n
<1>8. \A i \in 0..m : f[i] = g[i]
  <2> DEFINE S == {i \in 0..m : f[i] = g[i]}
  <2>1. 0 \in S
    BY <1>1, <1>5, <1>6
  <2>2. ASSUME NEW i \in 0..(m - 1), i \in S PROVE i + 1 \in S
    <3>a. m \in Nat /\ n \in Nat
      BY <1>1
    <3>1. i + 1 \in 1..m /\ i + 1 \in 1..(m + n) /\ (i + 1) - 1 = i /\ i + 1 \in 0..m
      BY <3>a, NextIndex, Zenon
    <3>2. f[i + 1] = f[i] \o (s \o t)[i + 1] /\ g[i + 1] = g[i] \o s[i + 1]
      BY <1>5, <1>6, <3>1
    <3>3. f[i] = g[i] /\ (s \o t)[i + 1] = s[i + 1]
      BY <1>1, <2>2, <3>1
    <3> QED BY <3>1, <3>2, <3>3
  <2> HIDE DEF S
  <2>3. \A i \in 0..m : i \in S
    BY <1>1, <2>1, <2>2, IntervalInduction
  <2> QED BY <2>3 DEF S
<1>9. g[m] \in Seq(T) /\ f[m] = g[m]
  BY <1>1, <1>6, <1>8
<1>10. \A j \in 0..n : f[m + j] = g[m] \o h[j]
  <2> DEFINE S == {j \in 0..n : f[m + j] = g[m] \o h[j]}
  <2>1. 0 \in S
    <3>1. g[m] \o <<>> = g[m] /\ m + 0 = m /\ 0 \in 0..n
      BY <1>1, <1>9
    <3> QED BY <1>7, <1>9, <3>1
  <2>2. ASSUME NEW j \in 0..(n - 1), j \in S PROVE j + 1 \in S
    <3>1. /\ j + 1 \in 1..n /\ m + (j + 1) \in 1..(m + n) /\ (j + 1) - 1 = j
          /\ (m + (j + 1)) - 1 = m + j /\ j \in 0..n /\ j + 1 \in 0..n
      <4>1. m \in Nat /\ n \in Nat
        BY <1>1
      <4> QED BY <4>1, NextIndex, Zenon
    <3>2. f[m + (j + 1)] = f[m + j] \o (s \o t)[m + (j + 1)] /\ h[j + 1] = h[j] \o t[j + 1]
      BY <1>5, <1>7, <3>1
    <3>3. f[m + j] = g[m] \o h[j] /\ (s \o t)[m + (j + 1)] = t[j + 1] /\ t[j + 1] \in Seq(T)
      BY <1>1, <2>2, <3>1
    <3>4. h[j] \in Seq(T)
      BY <1>7, <3>1
    <3>5. (g[m] \o h[j]) \o t[j + 1] = g[m] \o (h[j] \o t[j + 1])
      <4>2. g[m] \in Seq(T) /\ h[j] \in Seq(T) /\ t[j + 1] \in Seq(T)
        BY <1>9, <3>3, <3>4
      <4>3. Cat(Cat(g[m], h[j]), t[j + 1]) = Cat(g[m], Cat(h[j], t[j + 1]))
        BY <4>2, CatAssociates
      <4> QED BY <4>3 DEF Cat
    <3> QED BY <3>1, <3>2, <3>3, <3>5
  <2> HIDE DEF S
  <2>3. \A j \in 0..n : j \in S
    BY <1>1, <2>1, <2>2, IntervalInduction
  <2> QED BY <2>3 DEF S
<1>11. n \in 0..n
  BY <1>1
<1> QED BY <1>5, <1>6, <1>7, <1>10, <1>11, Zenon

LEMMA SeqOver ==
  ASSUME NEW T, NEW U, NEW s \in Seq(T), \A k \in 1..Len(s) : s[k] \in U
  PROVE  s \in Seq(U)
OBVIOUS
(***************************************************************************)
(* Short sequences joined element by element.                              *)
(***************************************************************************)
LEMMA OneAndOne ==
  ASSUME NEW T PROVE \A a, b \in T : <<a>> \o <<b>> = <<a, b>>
<1> TAKE a, b \in T
<1> DEFINE s == <<a>> \o <<b>>
<1>1. s \in Seq(T) /\ Len(s) = 2 /\ s[1] = a /\ s[2] = b
  OBVIOUS
<1> HIDE DEF s
<1>2. s = <<a, b>>
  BY <1>1, SameSequence
<1> QED BY <1>2 DEF s

LEMMA TwoAndOne ==
  ASSUME NEW T PROVE \A a, b, c \in T : <<a, b>> \o <<c>> = <<a, b, c>>
<1> TAKE a, b, c \in T
<1> DEFINE s == <<a, b>> \o <<c>>
<1>1. s \in Seq(T) /\ Len(s) = 3 /\ s[1] = a /\ s[2] = b /\ s[3] = c
  OBVIOUS
<1> HIDE DEF s
<1>2. s = <<a, b, c>>
  BY <1>1, SameSequence
<1> QED BY <1>2 DEF s

LEMMA OneAndTwo ==
  ASSUME NEW T PROVE \A a, b, c \in T : <<a>> \o <<b, c>> = <<a, b, c>>
<1> TAKE a, b, c \in T
<1> DEFINE s == <<a>> \o <<b, c>>
<1>1. s \in Seq(T) /\ Len(s) = 3 /\ s[1] = a /\ s[2] = b /\ s[3] = c
  OBVIOUS
<1> HIDE DEF s
<1>2. s = <<a, b, c>>
  BY <1>1, SameSequence
<1> QED BY <1>2 DEF s

LEMMA ThreeAndOne ==
  ASSUME NEW T PROVE \A a, b, c, d \in T : <<a, b, c>> \o <<d>> = <<a, b, c, d>>
<1> TAKE a, b, c, d \in T
<1> DEFINE s == <<a, b, c>> \o <<d>>
<1>1. s \in Seq(T) /\ Len(s) = 4 /\ s[1] = a /\ s[2] = b /\ s[3] = c /\ s[4] = d
  OBVIOUS
<1> HIDE DEF s
<1>2. s = <<a, b, c, d>>
  BY <1>1, SameSequence
<1> QED BY <1>2 DEF s

LEMMA JoinIs ==
  ASSUME NEW T, NEW x \in Seq(T), NEW y \in Seq(T), NEW s \in Seq(T),
         Len(s) = Len(x) + Len(y),
         \A i \in 1..Len(x) : s[i] = x[i], \A i \in 1..Len(y) : s[Len(x) + i] = y[i]
  PROVE  x \o y = s
<1> DEFINE z == x \o y
           m == Len(x)
           n == Len(y)
<1>1. m \in Nat /\ n \in Nat
  OBVIOUS
<1>2. /\ z \in Seq(T) /\ Len(z) = m + n
      /\ \A i \in 1..m : z[i] = x[i]
      /\ \A i \in 1..n : z[m + i] = y[i]
  OBVIOUS
<1> HIDE DEF z
<1>3. ASSUME NEW i \in 1..(m + n) PROVE z[i] = s[i]
  <2>1. CASE i <= m
    BY <1>1, <1>2, <2>1
  <2>2. CASE i > m
    <3>1. i - m \in 1..n /\ m + (i - m) = i
      BY <1>1, <2>2
    <3>2. z[m + (i - m)] = y[i - m] /\ s[m + (i - m)] = y[i - m]
      BY <1>2, <3>1
    <3> QED BY <3>1, <3>2
  <2> QED BY <1>1, <2>1, <2>2
<1>4. z = s
  BY <1>2, <1>3, SameSequence
<1> QED BY <1>4 DEF z

(***************************************************************************)
(* Products, quotients and the smaller and larger of two numbers.          *)
(***************************************************************************)
LEMMA ProductMonotone ==
  ASSUME NEW p \in Nat, NEW a \in Nat, NEW b \in Nat, a <= b
  PROVE  p * a <= p * b
OBVIOUS

LEMMA DivisionBounds ==
  ASSUME NEW a \in Nat, NEW b \in Nat \ {0}
  PROVE  /\ a \div b \in Nat
         /\ b * (a \div b) <= a
         /\ a < b * (a \div b) + b
OBVIOUS

LEMMA Remainder ==
  ASSUME NEW a \in Nat, NEW b \in Nat \ {0}
  PROVE  a % b \in 0..(b - 1) /\ (a < b => a % b = a)
OBVIOUS

LEMMA DivisionOf ==
  ASSUME NEW i \in Nat, NEW c \in Nat \ {0}
  PROVE  /\ i \div c \in Nat /\ i % c \in 0..(c - 1)
         /\ i = (i \div c) * c + (i % c)
OBVIOUS

LEMMA DivisionUnique ==
  ASSUME NEW q \in Nat, NEW c \in Nat \ {0}, NEW k \in 0..(c - 1)
  PROVE  (q * c + k) % c = k /\ (q * c + k) \div c = q
<1> DEFINE n == q * c + k
           p == n \div c
           l == n % c
<1>1. n \in Nat /\ n = q * c + k
  OBVIOUS
<1> HIDE DEF n
<1>2. p \in Nat /\ l \in 0..(c - 1) /\ n = p * c + l
  BY <1>1, DivisionOf
<1> HIDE DEF p, l
<1>3. ~(p < q)
  <2> SUFFICES ASSUME p < q PROVE FALSE
    OBVIOUS
  <2>1. c * (p + 1) <= c * q
    BY <1>2, ProductMonotone
  <2> QED BY <2>1, <1>1, <1>2
<1>4. ~(q < p)
  <2> SUFFICES ASSUME q < p PROVE FALSE
    OBVIOUS
  <2>1. c * (q + 1) <= c * p
    BY <1>2, ProductMonotone
  <2> QED BY <2>1, <1>1, <1>2
<1>5. p = q /\ l = k
  BY <1>1, <1>2, <1>3, <1>4
<1> QED BY <1>5 DEF n, p, l

LEMMA LeastOf ==
  ASSUME NEW S \in SUBSET Nat, NEW x \in S
  PROVE  Min(S) \in S /\ \A y \in S : Min(S) <= y
<1> DEFINE Below == {n \in Nat : \A y \in S : n <= y}
           Least(m) == m \in S /\ \A y \in S : m <= y
<1>1. \E m : Least(m)
  <2> SUFFICES ASSUME \A m : ~Least(m) PROVE FALSE
    OBVIOUS
  <2>1. 0 \in Below
    OBVIOUS
  <2>2. \A n \in Nat : n \in Below => n + 1 \in Below
    <3> SUFFICES ASSUME NEW n \in Nat, n \in Below, NEW y \in S PROVE n + 1 <= y
      OBVIOUS
    <3>1. n <= y /\ n \notin S
      OBVIOUS
    <3> QED BY <3>1
  <2> HIDE DEF Below
  <2>3. x + 1 \in Below
    BY <2>1, <2>2, NatSetInduction
  <2> QED BY <2>3 DEF Below
<1>2. Min(S) = CHOOSE m : Least(m)
  BY DEF Min
<1> QED BY <1>1, <1>2

LEMMA MinOfTwo ==
  ASSUME NEW a \in Int, NEW b \in Int
  PROVE  Min({a, b}) = IF a <= b THEN a ELSE b
BY DEF Min

LEMMA MaxOfTwo ==
  ASSUME NEW a \in Int, NEW b \in Int
  PROVE  Max({a, b}) = IF a <= b THEN b ELSE a
BY DEF Max
==============================================================================
