------------------------------ MODULE Mp3_proofs ------------------------------
(***************************************************************************)
(* Proofs about Mp3Stream: whatever its windows, frames and reservoir are  *)
(* sized, load_mp3 gets from a file as it is meant to be the samples that  *)
(* its layout promises.                                                    *)
(***************************************************************************)
EXTENDS Mp3Stream, DataInduction

\* The sizes are positive, and a window can hold what tops it up.
LEMMA Constants ==
  ASSUME Mp3Assumption
  PROVE  /\ Header \in Nat /\ Header >= 1 /\ MinChunk \in Nat /\ MinChunk >= 1
         /\ Chunk \in Nat /\ MinChunk <= Chunk /\ Matches \in Nat /\ Matches >= 1
         /\ PerFrame \in Nat /\ PerFrame >= 1 /\ Reservoir \in Nat /\ None \notin Nat
BY DEF Mp3Assumption

(***************************************************************************)
(* Where the items of a file begin, the end of the file being one more.    *)
(***************************************************************************)
Begin(f, k) == IF k \in DOMAIN f.items THEN Start(f, k) ELSE Length(f)
Count(f) == Len(f.items)

\* Items are numbered from 1 and lie end to end.
LEMMA ItemsAre ==
  ASSUME NEW f, LaidOut(f)
  PROVE  /\ Count(f) \in Nat /\ Count(f) >= 1 /\ DOMAIN f.items = 1..Count(f)
         /\ \A k \in 1..Count(f) :
              /\ Begin(f, k) = Start(f, k) /\ Start(f, k) \in Nat
              /\ Size(f, k) \in Nat /\ Size(f, k) >= 1
              /\ End(f, k) = Start(f, k) + Size(f, k) /\ End(f, k) = Begin(f, k + 1)
         /\ Begin(f, Count(f) + 1) = Length(f) /\ Length(f) \in Nat
<1>1. /\ Count(f) \in Nat /\ Count(f) >= 1 /\ DOMAIN f.items = 1..Count(f)
      /\ \A k \in 1..Count(f) :
           /\ Start(f, k) \in Nat /\ Size(f, k) \in Nat /\ Size(f, k) >= 1
           /\ k + 1 \in 1..Count(f) => Start(f, k + 1) = End(f, k)
  BY DEF LaidOut, Count
<1>2. Length(f) = End(f, Count(f))
  BY DEF Length, Count
<1>3. Begin(f, Count(f) + 1) = Length(f)
  BY <1>1 DEF Begin
<1>4. ASSUME NEW k \in 1..Count(f)
      PROVE  /\ Begin(f, k) = Start(f, k)
             /\ End(f, k) = Start(f, k) + Size(f, k) /\ End(f, k) = Begin(f, k + 1)
  <2>1. Begin(f, k) = Start(f, k) /\ End(f, k) = Start(f, k) + Size(f, k)
    BY <1>1 DEF Begin, End
  <2>2. CASE k = Count(f)
    BY <1>2, <1>3, <2>1, <2>2
  <2>3. CASE k # Count(f)
    <3>1. k + 1 \in 1..Count(f)
      BY <1>1, <2>3
    <3> QED BY <1>1, <2>1, <3>1 DEF Begin
  <2> QED BY <2>2, <2>3
<1>5. Length(f) \in Nat
  <2>1. Count(f) \in 1..Count(f)
    BY <1>1
  <2> QED BY <1>1, <1>2, <1>4, <2>1
<1> QED BY <1>1, <1>3, <1>4, <1>5

Places(f) == 1..(Count(f) + 1)

\* Later items begin later.
LEMMA BeginIs ==
  ASSUME NEW f, LaidOut(f)
  PROVE  /\ Begin(f, 1) = 0
         /\ \A k \in Places(f) : Begin(f, k) \in Nat
         /\ \A j, k \in Places(f) : j < k => Begin(f, j) < Begin(f, k)
<1> DEFINE n == Count(f)
           Good == {k \in 0..n : /\ Begin(f, k + 1) \in Nat
                                 /\ \A j \in 1..k : Begin(f, j) < Begin(f, k + 1)}
<1>1. n \in Nat /\ n >= 1
  BY ItemsAre
<1>2. 0 \in Good
  <2>1. 1 \in 1..n
    BY <1>1
  <2>2. Begin(f, 1) \in Nat
    BY <2>1, ItemsAre
  <2> QED BY <1>1, <2>2
<1>3. ASSUME NEW k \in 0..(n - 1), k \in Good PROVE k + 1 \in Good
  <2>1. k + 1 \in 1..n /\ k + 1 \in 0..n
    BY <1>1
  <2>2. /\ Begin(f, (k + 1) + 1) = Begin(f, k + 1) + Size(f, k + 1)
        /\ Size(f, k + 1) \in Nat /\ Size(f, k + 1) >= 1
    BY <2>1, ItemsAre
  <2>3. Begin(f, k + 1) \in Nat /\ \A j \in 1..k : Begin(f, j) \in Nat /\ Begin(f, j) < Begin(f, k + 1)
    <3>1. \A j \in 1..k : j \in 1..n
      BY <1>1
    <3> QED BY <1>3, <3>1, ItemsAre
  <2>4. \A j \in 1..(k + 1) : Begin(f, j) < Begin(f, (k + 1) + 1)
    <3>1. SUFFICES ASSUME NEW j \in 1..(k + 1) PROVE Begin(f, j) < Begin(f, (k + 1) + 1)
      OBVIOUS
    <3>2. CASE j = k + 1
      BY <2>2, <2>3, <3>2
    <3>3. CASE j # k + 1
      <4>1. j \in 1..k
        BY <3>3, <1>1
      <4> QED BY <2>2, <2>3, <4>1
    <3> QED BY <3>2, <3>3
  <2> QED BY <2>1, <2>2, <2>3, <2>4
<1> HIDE DEF Good
<1>4. \A k \in 0..n : k \in Good
  BY <1>1, <1>2, <1>3, IntervalInduction
<1>5. \A k \in Places(f) : k - 1 \in 0..n /\ k = (k - 1) + 1
  BY <1>1 DEF Places
<1>6. \A k \in Places(f) : Begin(f, k) \in Nat /\ \A j \in 1..(k - 1) : Begin(f, j) < Begin(f, k)
  BY <1>4, <1>5 DEF Good
<1>7. ASSUME NEW j \in Places(f), NEW k \in Places(f), j < k PROVE Begin(f, j) < Begin(f, k)
  <2>1. j \in 1..(k - 1)
    BY <1>1, <1>7 DEF Places
  <2> QED BY <1>6, <2>1
<1>8. Begin(f, 1) = 0
  <2>1. 1 \in 1..n
    BY <1>1
  <2> QED BY <2>1, ItemsAre DEF LaidOut
<1> QED BY <1>6, <1>7, <1>8

(***************************************************************************)
(* The tag in front, the audio, and the tags behind.                       *)
(***************************************************************************)
LEMMA AudioIs ==
  ASSUME NEW f, LaidOut(f), Ordered(f)
  PROVE  /\ First(f) \in {1, 2} /\ TagsFrom(f) \in First(f)..(Count(f) + 1)
         /\ Kind(f, 1) = "id3v2" <=> First(f) = 2
         /\ AudioEnd(f) = Begin(f, TagsFrom(f))
         /\ \A k : IsFrame(f, k) => k \in First(f)..(TagsFrom(f) - 1)
         /\ Kind(f, First(f) - 1) \notin {"frame", "xing", "junk"}
<1> DEFINE n == Count(f)
           t == TagsFrom(f)
<1>1. /\ n \in Nat /\ n >= 1 /\ DOMAIN f.items = 1..n
      /\ Begin(f, n + 1) = Length(f)
  BY ItemsAre
<1>2. \A k : k \notin 1..n => Kind(f, k) = "end"
  BY <1>1 DEF Kind
<1>3. First(f) \in {1, 2} /\ (Kind(f, 1) = "id3v2" <=> First(f) = 2)
  BY DEF First
<1>4. t = IF Kind(f, n) = "id3v1" THEN IF Kind(f, n - 1) = "ape" THEN n - 1 ELSE n
          ELSE IF Kind(f, n) = "ape" THEN n ELSE n + 1
  BY DEF TagsFrom, Count
<1>5. t \in First(f)..(n + 1)
  <2>1. Kind(f, n - 1) = "ape" => n - 1 \in 1..n /\ n - 1 >= 1
    BY <1>2
  <2>2. t \in Int /\ 1 <= t /\ t <= n + 1
    BY <1>1, <1>4, <2>1
  <2>3. ASSUME First(f) = 2 PROVE t # 1
    <3>1. Kind(f, 1) # "id3v1" /\ Kind(f, 1) # "ape"
      BY <1>3, <2>3
    <3>2. CASE n = 1
      BY <1>4, <3>1, <3>2
    <3>3. CASE n = 2
      BY <1>4, <3>1, <3>3
    <3>4. CASE n > 2
      BY <1>1, <1>4, <3>4
    <3> QED BY <1>1, <3>2, <3>3, <3>4
  <2> QED BY <1>1, <1>3, <2>2, <2>3
<1>6. AudioEnd(f) = Begin(f, t)
  <2>1. CASE t > n
    BY <1>1, <1>5, <2>1 DEF AudioEnd, Count
  <2>2. CASE t <= n
    <3>1. t \in DOMAIN f.items
      BY <1>1, <1>3, <1>5, <2>2
    <3>2. ~(t > n)
      BY <1>1, <1>3, <1>5, <2>2
    <3> QED BY <3>1, <3>2 DEF AudioEnd, Begin, Count
  <2> QED BY <1>1, <1>3, <1>5, <2>1, <2>2
<1>7. Kind(f, First(f) - 1) \notin {"frame", "xing", "junk"}
  <2>1. CASE First(f) = 1
    <3>1. First(f) - 1 \notin 1..n
      BY <2>1
    <3> QED BY <1>2, <3>1
  <2>2. CASE First(f) = 2
    BY <1>3, <2>2
  <2> QED BY <1>3, <2>1, <2>2
<1>8. ASSUME NEW k, IsFrame(f, k) PROVE k \in First(f)..(t - 1)
  <2>1. Kind(f, k) \in {"frame", "xing"}
    BY <1>8 DEF IsFrame
  <2>2. k \in 1..n
    BY <1>2, <2>1
  <2>3. k >= First(f)
    <3>1. CASE First(f) = 2 /\ k = 1
      BY <1>3, <2>1, <3>1
    <3> QED BY <1>3, <2>2, <3>1
  <2>4. k < t
    <3>1. ASSUME k >= t PROVE FALSE
      <4>1. k = n \/ k = n - 1
        BY <1>1, <1>4, <2>2, <3>1
      <4>2. CASE t = n + 1
        BY <1>1, <2>2, <3>1, <4>2
      <4>3. CASE t = n
        <5>1. k = n
          BY <1>1, <2>2, <3>1, <4>3
        <5> QED BY <1>1, <1>4, <2>1, <4>3, <5>1
      <4>4. CASE t = n - 1
        BY <1>1, <1>4, <2>1, <4>1, <4>4
      <4> QED BY <1>4, <4>2, <4>3, <4>4
    <3> QED BY <1>1, <1>3, <1>5, <2>2, <3>1
  <2> QED BY <1>3, <1>5, <2>2, <2>3, <2>4
<1> QED BY <1>3, <1>5, <1>6, <1>7, <1>8

(***************************************************************************)
(* The frames that are in step with one another.                           *)
(***************************************************************************)
StepValue(f, k, before) ==
  IF k \notin AudioItems(f) \/ ~IsFrame(f, k) \/ f.items[k].bad THEN 0
  ELSE IF Kind(f, k - 1) = "frame" /\ before > 0 /\ FollowedBy(f, k) THEN before
  ELSE IF Chained(f, k) THEN k ELSE 0

\* The recursive definition of the frames in step as an equation.
LEMMA StepFromIs ==
  ASSUME NEW f, LaidOut(f)
  PROVE  /\ StepFrom(f)[0] = 0 /\ \A k \in 0..Count(f) : StepFrom(f)[k] \in 0..k
         /\ \A k \in 1..Count(f) : StepFrom(f)[k] = StepValue(f, k, StepFrom(f)[k - 1])
<1> DEFINE n == Count(f)
           body(from, k) ==
             IF k \notin AudioItems(f) \/ ~IsFrame(f, k) \/ f.items[k].bad THEN 0
             ELSE IF Kind(f, k - 1) = "frame" /\ from[k - 1] > 0 /\ FollowedBy(f, k) THEN from[k - 1]
             ELSE IF Chained(f, k) THEN k ELSE 0
           Eq(from) == from = [k \in 0..n |-> body(from, k)]
           onward == [i \in Nat |-> [v \in Nat |-> StepValue(f, i + 1, v)]]
<1>1. n \in Nat /\ n >= 1
  BY ItemsAre
<1>2. StepFrom(f) = CHOOSE from : Eq(from)
  BY DEF StepFrom, Count
<1>3. onward \in [Nat -> [Nat -> Nat]]
  <2>1. ASSUME NEW i \in Nat, NEW v \in Nat PROVE StepValue(f, i + 1, v) \in Nat
    BY DEF StepValue
  <2> QED BY <2>1
<1>4. PICK g : Iterates(g, Nat, 0, onward)
  <2> HIDE DEF onward
  <2> QED BY <1>3, RecursionOverNat
<1>5. g \in [Nat -> Nat] /\ g[0] = 0 /\ \A i \in Nat : g[i + 1] = StepValue(f, i + 1, g[i])
  BY <1>4 DEF Iterates
<1> HIDE DEF onward
<1> DEFINE h == [k \in 0..n |-> g[k]]
<1>6. ASSUME NEW k \in 0..n PROVE h[k] = body(h, k)
  <2>1. CASE k = 0
    <3>1. k \notin AudioItems(f)
      BY <2>1 DEF AudioItems
    <3> QED BY <1>5, <2>1, <3>1
  <2>2. CASE k # 0
    <3>1. k - 1 \in Nat /\ (k - 1) + 1 = k /\ k - 1 \in 0..n
      BY <1>1, <2>2
    <3>2. h[k] = StepValue(f, k, g[k - 1]) /\ h[k - 1] = g[k - 1]
      BY <1>5, <3>1
    <3> HIDE DEF h
    <3> QED BY <3>2 DEF StepValue
  <2> QED BY <2>1, <2>2
<1>7. Eq(h)
  <2>1. h = [k \in 0..n |-> h[k]]
    OBVIOUS
  <2> HIDE DEF h
  <2>2. [k \in 0..n |-> h[k]] = [k \in 0..n |-> body(h, k)]
    <3> HIDE DEF body
    <3> QED BY <1>6
  <2> QED BY <2>1, <2>2
<1>8. Eq(StepFrom(f))
  <2> HIDE DEF Eq, h
  <2> QED BY <1>2, <1>7
<1> DEFINE s == StepFrom(f)
<1>9. \A k \in 0..n : s[k] = body(s, k)
  <2> HIDE DEF body
  <2> QED BY <1>8
<1>10. s[0] = 0
  <2>1. 0 \notin AudioItems(f) /\ 0 \in 0..n
    BY <1>1 DEF AudioItems
  <2> QED BY <1>9, <2>1
<1>11. ASSUME NEW k \in 1..n PROVE s[k] = StepValue(f, k, s[k - 1])
  <2>1. s[k] = body(s, k)
    BY <1>9
  <2> HIDE DEF s
  <2> QED BY <2>1 DEF StepValue
<1> HIDE DEF s, body, Eq
<1> DEFINE Within == {k \in 0..n : s[k] \in 0..k}
<1>12. 0 \in Within
  BY <1>1, <1>10
<1>13. ASSUME NEW k \in 0..(n - 1), k \in Within PROVE k + 1 \in Within
  <2>1. k + 1 \in 1..n /\ (k + 1) - 1 = k /\ k + 1 \in 0..n
    BY <1>1
  <2>2. s[k + 1] = StepValue(f, k + 1, s[k])
    BY <1>11, <2>1
  <2>3. s[k] \in 0..k
    BY <1>13
  <2>4. s[k + 1] \in 0..(k + 1)
    BY <2>2, <2>3 DEF StepValue
  <2> QED BY <2>1, <2>4
<1>14. \A k \in 0..n : k \in Within
  <2> HIDE DEF Within
  <2> QED BY <1>1, <1>12, <1>13, IntervalInduction
<1> QED BY <1>10, <1>11, <1>14 DEF s

\* By the place of a frame.
LEMMA StepIs ==
  ASSUME NEW f, LaidOut(f), Ordered(f), NEW k \in First(f)..(TagsFrom(f) - 1)
  PROVE  /\ InStepAt(f, k) /\ ~f.items[k].bad => StepFrom(f)[k] = StepFrom(f)[k - 1] /\ StepFrom(f)[k] > 0
         /\ ~InStepAt(f, k) /\ IsFrame(f, k) /\ ~f.items[k].bad /\ Chained(f, k) => StepFrom(f)[k] = k
         /\ ~IsFrame(f, k) \/ f.items[k].bad \/ (~InStepAt(f, k) /\ ~Chained(f, k)) => StepFrom(f)[k] = 0
         /\ k \in 1..Count(f)
<1>1. k \in 1..Count(f) /\ k \in AudioItems(f)
  <2>1. First(f) \in {1, 2} /\ TagsFrom(f) \in First(f)..(Count(f) + 1) /\ Count(f) \in Nat
    BY AudioIs, ItemsAre
  <2> QED BY <2>1 DEF AudioItems
<1>2. StepFrom(f)[k] = StepValue(f, k, StepFrom(f)[k - 1])
  BY <1>1, StepFromIs
<1> QED BY <1>1, <1>2 DEF StepValue, InStepAt

(***************************************************************************)
(* Headers at the items: a frame has one; after the audio there is none.   *)
(***************************************************************************)
LEMMA StreamIs ==
  ASSUME Mp3Assumption, NEW f \in Streams
  PROVE  LaidOut(f) /\ Ordered(f) /\ Searchable(f) /\ \A k : IsFrame(f, k) => FrameOf(f, k)
<1>1. IsStream(f)
  BY DEF Mp3Assumption
<1>2. \A k : IsFrame(f, k) => k \in DOMAIN f.items
  BY DEF IsFrame, Kind
<1> QED BY <1>1, <1>2 DEF IsStream

\* An item before the tags lies within the audio.
LEMMA ItemIs ==
  ASSUME Mp3Assumption, NEW f \in Streams, NEW k \in 1..(TagsFrom(f) - 1)
  PROVE  /\ k \in 1..Count(f) /\ k \in Places(f) /\ k + 1 \in Places(f) /\ k + 1 <= TagsFrom(f)
         /\ k \in DOMAIN f.items
         /\ Begin(f, k) = Start(f, k) /\ Begin(f, k) \in Nat /\ Begin(f, k + 1) \in Nat
         /\ Size(f, k) \in Nat /\ Size(f, k) >= 1
         /\ End(f, k) = Begin(f, k) + Size(f, k) /\ End(f, k) = Begin(f, k + 1)
         /\ AudioEnd(f) \in Nat /\ End(f, k) <= AudioEnd(f)
         /\ k + 1 < TagsFrom(f) => End(f, k) < AudioEnd(f)
         /\ k + 1 = TagsFrom(f) => End(f, k) = AudioEnd(f)
<1>1. LaidOut(f) /\ Ordered(f)
  BY StreamIs
<1>2. /\ First(f) \in {1, 2} /\ TagsFrom(f) \in First(f)..(Count(f) + 1)
      /\ AudioEnd(f) = Begin(f, TagsFrom(f)) /\ Count(f) \in Nat /\ DOMAIN f.items = 1..Count(f)
  BY <1>1, AudioIs, ItemsAre
<1>3. /\ k \in 1..Count(f) /\ k \in Places(f) /\ k + 1 \in Places(f) /\ k + 1 <= TagsFrom(f)
      /\ TagsFrom(f) \in Places(f) /\ k \in DOMAIN f.items
  BY <1>2 DEF Places
<1>4. /\ Begin(f, k) = Start(f, k) /\ Begin(f, k) \in Nat /\ Begin(f, k + 1) \in Nat
      /\ Size(f, k) \in Nat /\ Size(f, k) >= 1
      /\ End(f, k) = Begin(f, k) + Size(f, k) /\ End(f, k) = Begin(f, k + 1)
      /\ AudioEnd(f) \in Nat
  BY <1>1, <1>2, <1>3, ItemsAre, BeginIs
<1>5. k + 1 < TagsFrom(f) => End(f, k) < AudioEnd(f)
  BY <1>1, <1>2, <1>3, <1>4, BeginIs
<1>6. k + 1 = TagsFrom(f) => End(f, k) = AudioEnd(f)
  BY <1>2, <1>4
<1>7. End(f, k) <= AudioEnd(f)
  <2>1. k + 1 < TagsFrom(f) \/ k + 1 = TagsFrom(f)
    BY <1>2, <1>3
  <2> QED BY <1>4, <1>5, <1>6, <2>1
<1> QED BY <1>3, <1>4, <1>5, <1>6, <1>7

\* Every frame lies between the tags; only the first may carry a Xing tag.
LEMMA FrameIs ==
  ASSUME Mp3Assumption, NEW f \in Streams, NEW k, IsFrame(f, k)
  PROVE  /\ k \in First(f)..(TagsFrom(f) - 1) /\ k \in 1..(TagsFrom(f) - 1)
         /\ Header < Size(f, k) /\ Size(f, k) + Header <= MinChunk
         /\ f.items[k].main \in Nat /\ f.items[k].begin \in 0..Reservoir
         /\ f.items[k].use \in 0..(f.items[k].begin + f.items[k].main)
         /\ f.items[k].bad \in BOOLEAN
         /\ Kind(f, k) = "frame" \/ (Kind(f, k) = "xing" /\ k = First(f))
<1>1. LaidOut(f) /\ Ordered(f) /\ FrameOf(f, k)
  BY StreamIs
<1>2. First(f) \in {1, 2} /\ k \in First(f)..(TagsFrom(f) - 1) /\ TagsFrom(f) \in First(f)..(Count(f) + 1)
  BY <1>1, AudioIs
<1>3. k \in 1..(TagsFrom(f) - 1)
  BY <1>2
<1>4. Kind(f, k) = "frame" \/ (Kind(f, k) = "xing" /\ k = First(f))
  BY <1>1, <1>2 DEF IsFrame, Ordered
<1> QED BY <1>1, <1>2, <1>3, <1>4 DEF FrameOf

\* There is room for a header where an item begins if it begins early enough.
LEMMA HeaderIs ==
  ASSUME Mp3Assumption, NEW f \in Streams, NEW k
  PROVE  /\ HeaderAt(f, k) => /\ k \in 1..Count(f) /\ k < TagsFrom(f)
                              /\ Begin(f, k) + Header <= AudioEnd(f)
         /\ k \in 1..Count(f) /\ Begin(f, k) + Header <= AudioEnd(f) => HeaderAt(f, k)
         /\ IsFrame(f, k) => HeaderAt(f, k)
<1>1. LaidOut(f) /\ Ordered(f)
  BY StreamIs
<1>2. /\ First(f) \in {1, 2} /\ TagsFrom(f) \in First(f)..(Count(f) + 1)
      /\ AudioEnd(f) = Begin(f, TagsFrom(f)) /\ Count(f) \in Nat /\ DOMAIN f.items = 1..Count(f)
      /\ \A i \in 1..Count(f) : Begin(f, i) = Start(f, i)
      /\ \A i \in Places(f) : Begin(f, i) \in Nat
      /\ \A i, j \in Places(f) : i < j => Begin(f, i) < Begin(f, j)
  BY <1>1, AudioIs, ItemsAre, BeginIs
<1>3. Header \in Nat /\ Header >= 1
  BY Constants
<1>4. ASSUME HeaderAt(f, k)
      PROVE  k \in 1..Count(f) /\ k < TagsFrom(f) /\ Begin(f, k) + Header <= AudioEnd(f)
  <2>1. k \in 1..Count(f) /\ Begin(f, k) + Header <= AudioEnd(f)
    BY <1>2, <1>4 DEF HeaderAt
  <2>2. k \in Places(f) /\ TagsFrom(f) \in Places(f)
    BY <1>2, <2>1 DEF Places
  <2>3. CASE k = TagsFrom(f)
    BY <1>2, <1>3, <2>1, <2>2, <2>3
  <2>4. CASE TagsFrom(f) < k
    BY <1>2, <1>3, <2>1, <2>2, <2>4
  <2> QED BY <1>2, <2>1, <2>3, <2>4
<1>5. k \in 1..Count(f) /\ Begin(f, k) + Header <= AudioEnd(f) => HeaderAt(f, k)
  BY <1>2 DEF HeaderAt
<1>6. ASSUME IsFrame(f, k) PROVE HeaderAt(f, k)
  <2>1. k \in 1..(TagsFrom(f) - 1) /\ Header < Size(f, k)
    BY <1>6, FrameIs
  <2>2. /\ End(f, k) = Begin(f, k) + Size(f, k) /\ End(f, k) <= AudioEnd(f) /\ k \in 1..Count(f)
        /\ Begin(f, k) \in Nat /\ Size(f, k) \in Nat /\ AudioEnd(f) \in Nat
    BY <2>1, ItemIs
  <2>3. Begin(f, k) + Header <= AudioEnd(f)
    BY <1>3, <2>1, <2>2
  <2> QED BY <1>5, <2>2, <2>3
<1> QED BY <1>4, <1>5, <1>6

(***************************************************************************)
(* A window at an item: short only where the audio ends.                   *)
(***************************************************************************)
WindowAt(f, k, n) ==
  /\ n \in Nat /\ n >= 1 /\ Begin(f, k) + n <= AudioEnd(f)
  /\ n >= MinChunk \/ Begin(f, k) + n = AudioEnd(f)

\* Item k is the one found at the position where it begins.
LEMMA AtIs ==
  ASSUME Mp3Assumption, NEW f \in Streams, NEW k \in Places(f)
  PROVE  /\ k \in 1..Count(f) => At(f, Begin(f, k)) = k
         /\ FrameAt(f, Begin(f, k)) <=> IsFrame(f, k)
<1>1. LaidOut(f)
  BY StreamIs
<1>2. /\ Count(f) \in Nat /\ DOMAIN f.items = 1..Count(f)
      /\ \A i \in 1..Count(f) : Begin(f, i) = Start(f, i)
      /\ \A i \in Places(f) : Begin(f, i) \in Nat
      /\ \A i, j \in Places(f) : i < j => Begin(f, i) < Begin(f, j)
  BY <1>1, ItemsAre, BeginIs
<1>3. \A j \in 1..Count(f) : Start(f, j) = Begin(f, k) => j = k
  <2> SUFFICES ASSUME NEW j \in 1..Count(f), Start(f, j) = Begin(f, k), j # k PROVE FALSE
    OBVIOUS
  <2>1. j \in Places(f) /\ Begin(f, j) = Begin(f, k) /\ (j < k \/ k < j)
    BY <1>2 DEF Places
  <2>2. Begin(f, j) \in Nat /\ Begin(f, k) \in Nat
    BY <1>2, <2>1
  <2>3. j < k => Begin(f, j) < Begin(f, k)
    BY <1>2, <2>1
  <2>4. k < j => Begin(f, k) < Begin(f, j)
    BY <1>2, <2>1
  <2> QED BY <2>1, <2>2, <2>3, <2>4
<1>4. k \in 1..Count(f) => At(f, Begin(f, k)) = k
  BY <1>2, <1>3 DEF At
<1>5. FrameAt(f, Begin(f, k)) <=> IsFrame(f, k)
  <2>1. FrameAt(f, Begin(f, k)) => IsFrame(f, k)
    BY <1>2, <1>3 DEF FrameAt
  <2>2. IsFrame(f, k) => k \in 1..Count(f)
    BY <1>2 DEF IsFrame, Kind
  <2> QED BY <1>2, <2>1, <2>2 DEF FrameAt
<1> QED BY <1>4, <1>5

\* The window shows whether the next item is a frame.
LEMMA InStepIs ==
  ASSUME Mp3Assumption, NEW f \in Streams, NEW k \in First(f)..(TagsFrom(f) - 1), NEW n,
         WindowAt(f, k, n)
  PROVE  InStep(f, Begin(f, k), n) <=> IsFrame(f, k) /\ FollowedBy(f, k)
<1> DEFINE p == Begin(f, k)
           e == AudioEnd(f)
           s == Size(f, k)
<1>1. k \in 1..(TagsFrom(f) - 1) /\ TagsFrom(f) \in Nat
  <2>1. First(f) \in {1, 2} /\ TagsFrom(f) \in First(f)..(Count(f) + 1) /\ Count(f) \in Nat
    BY StreamIs, AudioIs, ItemsAre
  <2> QED BY <2>1
<1>2. /\ k \in Places(f) /\ k \in 1..Count(f) /\ k + 1 \in Places(f) /\ k + 1 <= TagsFrom(f)
      /\ p \in Nat /\ s \in Nat /\ s >= 1 /\ p + s = Begin(f, k + 1) /\ e \in Nat /\ p + s <= e
      /\ k + 1 < TagsFrom(f) => p + s < e
      /\ k + 1 = TagsFrom(f) => p + s = e
  BY <1>1, ItemIs
<1>3. /\ FrameAt(f, p) <=> IsFrame(f, k)
      /\ At(f, p) = k
      /\ FrameAt(f, p + s) <=> IsFrame(f, k + 1)
  BY <1>2, AtIs
<1>4. FollowedBy(f, k) <=> (k + 1 = TagsFrom(f) \/ IsFrame(f, k + 1))
  BY <1>1, <1>2 DEF FollowedBy, AudioItems
<1>5. Header \in Nat /\ Header >= 1 /\ MinChunk \in Nat
  BY Constants
<1>6. n \in Nat /\ n >= 1 /\ p + n <= e /\ (n >= MinChunk \/ p + n = e)
  BY DEF WindowAt
<1>7. InStep(f, p, n) <=> n > Header /\ IsFrame(f, k) /\ (s = n \/ (s + Header <= n /\ IsFrame(f, k + 1)))
  BY <1>3 DEF InStep
<1>8. IsFrame(f, k) => Header < s /\ s + Header <= MinChunk
  BY FrameIs
<1>9. IsFrame(f, k + 1) => p + s + Header <= e
  <2>1. IsFrame(f, k + 1) => Begin(f, k + 1) + Header <= e
    BY HeaderIs
  <2> QED BY <1>2, <2>1
<1> SUFFICES InStep(f, p, n) <=> IsFrame(f, k) /\ FollowedBy(f, k)
  OBVIOUS
<1> HIDE DEF p, e, s
<1>10. CASE IsFrame(f, k)
  <2>1. CASE IsFrame(f, k + 1)
    BY <1>2, <1>4, <1>5, <1>6, <1>7, <1>8, <1>9, <1>10, <2>1
  <2>2. CASE ~IsFrame(f, k + 1)
    <3>1. s = n <=> k + 1 = TagsFrom(f)
      <4>1. CASE k + 1 = TagsFrom(f)
        BY <1>2, <1>5, <1>6, <1>8, <1>10, <4>1
      <4>2. CASE k + 1 # TagsFrom(f)
        <5>1. p + s < e
          BY <1>1, <1>2, <4>2
        <5> QED BY <1>2, <1>5, <1>6, <1>8, <1>10, <4>2, <5>1
      <4> QED BY <4>1, <4>2
    <3> QED BY <1>2, <1>4, <1>5, <1>6, <1>7, <1>8, <1>10, <2>2, <3>1
  <2> QED BY <2>1, <2>2
<1>11. CASE ~IsFrame(f, k)
  BY <1>7, <1>11
<1> QED BY <1>10, <1>11

(***************************************************************************)
(* What the search finds in such a window: the first chained frame.        *)
(***************************************************************************)
MatchedTo(f, j, q) ==
  \A i \in 1..Matches : j + i - 1 \in 1..Count(f) /\ End(f, j + i - 1) + Header <= q => IsFrame(f, j + i)

\* drmp3d_find_frame stops at a frame whose chain of headers the window does not refute.
LEMMA SyncIs ==
  ASSUME Mp3Assumption, NEW f \in Streams, NEW p \in Nat, NEW n \in Nat, NEW j
  PROVE  j \in Syncs(f, p, n) <=>
           /\ IsFrame(f, j) /\ p <= Begin(f, j) /\ Begin(f, j) + Header < p + n
           /\ \/ End(f, j) + Header <= p + n /\ MatchedTo(f, j, p + n)
              \/ Begin(f, j) = p /\ Size(f, j) = n
<1>1. Header \in Nat /\ Header >= 1
  BY Constants
<1>2. DOMAIN f.items = 1..Count(f) /\ Count(f) \in Nat
  BY StreamIs, ItemsAre
<1>3. IsFrame(f, j) => j \in DOMAIN f.items
  BY DEF IsFrame, Kind
<1> SUFFICES ASSUME IsFrame(f, j)
    PROVE  j \in Syncs(f, p, n) <=>
             /\ p <= Begin(f, j) /\ Begin(f, j) + Header < p + n
             /\ \/ End(f, j) + Header <= p + n /\ MatchedTo(f, j, p + n)
                \/ Begin(f, j) = p /\ Size(f, j) = n
  BY DEF Syncs
<1> DEFINE b == Begin(f, j)
           m == p + n - b
<1>4. /\ b = Start(f, j) /\ b \in Nat /\ Size(f, j) \in Nat /\ End(f, j) = b + Size(f, j)
      /\ j \in 1..Count(f)
  BY FrameIs, ItemIs
<1>5. m \in Int /\ m = p + n - Start(f, j)
  BY <1>4
<1>6. Matched(f, j, m) <=> MatchedTo(f, j, p + n)
  <2>1. ASSUME NEW i \in 1..Matches, j + i - 1 \in 1..Count(f)
        PROVE  End(f, j + i - 1) - Start(f, j) + Header <= m <=> End(f, j + i - 1) + Header <= p + n
    <3>1. End(f, j + i - 1) \in Nat
      <4> DEFINE x == j + i - 1
      <4>1. x \in 1..Count(f)
        BY <2>1
      <4> HIDE DEF x
      <4>2. End(f, x) \in Nat
        BY <4>1, StreamIs, ItemsAre
      <4> QED BY <4>2 DEF x
    <3> DEFINE e == End(f, j + i - 1)
    <3> HIDE DEF e
    <3>2. e \in Nat
      BY <3>1 DEF e
    <3>3. e - b + Header <= p + n - b <=> e + Header <= p + n
      BY <1>1, <1>4, <3>2
    <3> QED BY <1>4, <3>3 DEF e
  <2> QED BY <1>2, <2>1 DEF Matched, MatchedTo
<1>7. Size(f, j) <= m /\ FollowedIn(f, j, m) <=> End(f, j) + Header <= p + n
  BY <1>1, <1>4 DEF FollowedIn
<1>8. j \in Syncs(f, p, n) <=>
        /\ p <= b /\ b < p + n - Header
        /\ \/ Size(f, j) <= m /\ FollowedIn(f, j, m) /\ Matched(f, j, m)
           \/ b = p /\ Size(f, j) = n
  BY <1>3, <1>4, <1>5 DEF Syncs
<1>9. b < p + n - Header <=> b + Header < p + n
  BY <1>1, <1>4
<1> HIDE DEF m
<1> QED BY <1>6, <1>7, <1>8, <1>9

\* A chain is seen as far as the window goes, and whole when it goes to the end.
LEMMA ChainSeen ==
  ASSUME Mp3Assumption, NEW f \in Streams, NEW j, IsFrame(f, j)
  PROVE  /\ \A q \in Nat : q <= AudioEnd(f) /\ Chained(f, j) => MatchedTo(f, j, q)
         /\ MatchedTo(f, j, AudioEnd(f)) /\ HeaderAt(f, j + 1) => Chained(f, j)
         /\ HeaderAt(f, j + 1) <=> End(f, j) + Header <= AudioEnd(f)
         /\ End(f, j) = AudioEnd(f) /\ Kind(f, j - 1) # "junk" => Chained(f, j)
<1>1. Header \in Nat /\ Header >= 1 /\ Matches \in Nat
  BY Constants
<1>2. LaidOut(f) /\ Ordered(f)
  BY StreamIs
<1>3. /\ Count(f) \in Nat /\ Begin(f, Count(f) + 1) = Length(f) /\ Length(f) \in Nat
      /\ \A i \in 1..Count(f) : End(f, i) = Begin(f, i + 1)
      /\ \A i \in Places(f) : Begin(f, i) \in Nat
      /\ \A a, b \in Places(f) : a < b => Begin(f, a) < Begin(f, b)
      /\ AudioEnd(f) = Begin(f, TagsFrom(f)) /\ TagsFrom(f) \in 1..(Count(f) + 1)
  <2>1. /\ Count(f) \in Nat /\ Begin(f, Count(f) + 1) = Length(f) /\ Length(f) \in Nat
        /\ \A i \in 1..Count(f) : End(f, i) = Begin(f, i + 1)
    BY <1>2, ItemsAre
  <2>2. /\ \A i \in Places(f) : Begin(f, i) \in Nat
        /\ \A a, b \in Places(f) : a < b => Begin(f, a) < Begin(f, b)
    BY <1>2, BeginIs
  <2>3. /\ AudioEnd(f) = Begin(f, TagsFrom(f)) /\ First(f) \in {1, 2}
        /\ TagsFrom(f) \in First(f)..(Count(f) + 1)
    BY <1>2, AudioIs
  <2>4. TagsFrom(f) \in 1..(Count(f) + 1)
    BY <2>1, <2>3
  <2> QED BY <2>1, <2>2, <2>3, <2>4
<1>4. j \in 1..(TagsFrom(f) - 1) /\ j \in 1..Count(f) /\ End(f, j) <= AudioEnd(f) /\ AudioEnd(f) \in Nat
  BY FrameIs, ItemIs
<1>5. ASSUME NEW x \in 1..Count(f), End(f, x) + Header <= AudioEnd(f)
      PROVE  HeaderAt(f, x + 1)
  <2>1. x + 1 \in Places(f) /\ TagsFrom(f) \in Places(f) /\ Begin(f, x + 1) + Header <= Begin(f, TagsFrom(f))
    BY <1>3, <1>5 DEF Places
  <2>2. x + 1 \in 1..Count(f)
    <3>1. ASSUME x + 1 = Count(f) + 1 PROVE FALSE
      <4>1. CASE TagsFrom(f) = x + 1
        BY <1>1, <1>3, <2>1, <4>1
      <4>2. CASE TagsFrom(f) < x + 1
        <5>1. Begin(f, TagsFrom(f)) < Begin(f, x + 1) /\ Begin(f, x + 1) \in Nat /\ Begin(f, TagsFrom(f)) \in Nat
          BY <1>3, <2>1, <4>2
        <5> QED BY <1>1, <2>1, <5>1
      <4> QED BY <1>3, <3>1, <4>1, <4>2
    <3> QED BY <1>3, <3>1
  <2> QED BY <1>3, <2>1, <2>2, HeaderIs
<1>6. ASSUME NEW q \in Nat, q <= AudioEnd(f), Chained(f, j) PROVE MatchedTo(f, j, q)
  <2> SUFFICES ASSUME NEW i \in 1..Matches, j + i - 1 \in 1..Count(f), End(f, j + i - 1) + Header <= q
      PROVE  IsFrame(f, j + i)
    BY DEF MatchedTo
  <2>1. (j + i - 1) + 1 = j + i
    BY <1>4
  <2> DEFINE x == j + i - 1
  <2>2. x \in 1..Count(f) /\ End(f, x) + Header <= q /\ x + 1 = j + i
    BY <2>1
  <2> HIDE DEF x
  <2>3. End(f, x) \in Nat
    <3>1. x + 1 \in Places(f)
      BY <1>3, <2>2 DEF Places
    <3> QED BY <1>3, <2>2, <3>1
  <2>4. End(f, x) + Header <= AudioEnd(f)
    <3>1. Header \in Nat /\ AudioEnd(f) \in Nat
      BY <1>1, <1>4, Constants
    <3>2. End(f, x) + Header <= q /\ End(f, x) \in Nat /\ q \in Nat /\ q <= AudioEnd(f)
      BY <1>6, <2>2, <2>3
    <3> QED BY ONLY <3>1, <3>2
  <2>5. HeaderAt(f, j + i)
    BY <1>5, <2>2, <2>4
  <2> QED BY <1>6, <2>5 DEF Chained
<1>7. ASSUME MatchedTo(f, j, AudioEnd(f)), HeaderAt(f, j + 1) PROVE Chained(f, j)
  <2>1. ASSUME NEW i \in 1..Matches, HeaderAt(f, j + i) PROVE IsFrame(f, j + i)
    <3>1. j + i \in 1..Count(f) /\ Begin(f, j + i) + Header <= AudioEnd(f)
      BY <2>1, HeaderIs
    <3> DEFINE x == j + i - 1
    <3>2. x \in 1..Count(f) /\ x + 1 = j + i
      BY <1>1, <1>3, <1>4, <3>1
    <3>3. End(f, x) + Header <= AudioEnd(f)
      BY <1>3, <3>1, <3>2
    <3> QED BY <1>7, <3>2, <3>3 DEF MatchedTo
  <2> QED BY <1>7, <2>1 DEF Chained
<1>8. HeaderAt(f, j + 1) => End(f, j) + Header <= AudioEnd(f)
  BY <1>3, <1>4, HeaderIs
<1>9. ASSUME End(f, j) = AudioEnd(f), Kind(f, j - 1) # "junk" PROVE Chained(f, j)
  <2>1. ASSUME NEW i \in 1..Matches PROVE ~HeaderAt(f, j + i)
    <3>1. SUFFICES ASSUME HeaderAt(f, j + i) PROVE FALSE
      OBVIOUS
    <3>2. j + i \in Places(f) /\ j + 1 \in Places(f) /\ Begin(f, j + i) + Header <= Begin(f, j + 1)
      BY <1>3, <1>4, <1>9, <3>1, HeaderIs DEF Places
    <3>3. CASE i = 1
      BY <1>1, <1>3, <3>2, <3>3
    <3>4. CASE i # 1
      <4>1. Begin(f, j + 1) < Begin(f, j + i)
        BY <1>3, <1>4, <3>2, <3>4
      <4>2. Begin(f, j + 1) \in Nat /\ Begin(f, j + i) \in Nat
        BY <1>3, <3>2
      <4> QED BY <1>1, <3>2, <4>1, <4>2
    <3> QED BY <3>3, <3>4
  <2> QED BY <1>9, <2>1 DEF Chained
<1> QED BY <1>4, <1>5, <1>6, <1>7, <1>8, <1>9

\* A frame before a chained one that is not chained itself: what breaks its
\* chain lies between the two.
LEMMA BreakBetween ==
  ASSUME Mp3Assumption, NEW f \in Streams, NEW j \in Nat, NEW s \in Nat, j < s,
         IsFrame(f, j), IsFrame(f, s), Chained(f, s), ~Chained(f, j), HeaderAt(f, j + 1)
  PROVE  \E i \in 1..Matches : j + i < s /\ HeaderAt(f, j + i) /\ ~IsFrame(f, j + i)
<1>1. PICK i \in 1..Matches : HeaderAt(f, j + i) /\ ~IsFrame(f, j + i)
  BY DEF Chained
<1>2. Matches \in Nat
  BY Constants
<1>3. j + i # s
  BY <1>1
<1>4. ~(j + i > s)
  <2>1. SUFFICES ASSUME j + i > s PROVE FALSE
    OBVIOUS
  <2> DEFINE d == j + i - s
  <2>2. d \in 1..Matches /\ s + d = j + i
    BY <1>2, <2>1
  <2> QED BY <1>1, <2>2 DEF Chained
<1>5. j + i < s
  BY <1>2, <1>3, <1>4
<1> QED BY <1>1, <1>5

\* The last frame of the audio follows junk, or one chained by it, or comes first.
LEMMA ChainedLast ==
  ASSUME Mp3Assumption, NEW f \in Streams, NEW s, IsFrame(f, s), End(f, s) = AudioEnd(f),
         Kind(f, s - 1) # "junk", s > First(f)
  PROVE  IsFrame(f, s - 1) /\ Chained(f, s - 1)
<1>1. /\ LaidOut(f) /\ Ordered(f) /\ First(f) \in {1, 2} /\ TagsFrom(f) \in 1..(Count(f) + 1)
      /\ Count(f) \in Nat /\ s \in 1..(TagsFrom(f) - 1)
  BY FrameIs, StreamIs, AudioIs, ItemsAre
<1>2. s - 1 \in First(f)..(TagsFrom(f) - 1)
  BY <1>1
<1>3. IsFrame(f, s - 1)
  BY <1>1, <1>2 DEF Ordered, IsFrame
<1>4. HeaderAt(f, (s - 1) + 1)
  <2>1. (s - 1) + 1 = s
    BY <1>1
  <2> QED BY <2>1, HeaderIs
<1>5. ASSUME NEW i \in 1..Matches, HeaderAt(f, (s - 1) + i) PROVE IsFrame(f, (s - 1) + i)
  <2>1. CASE i = 1
    <3>1. (s - 1) + i = s
      BY <1>1, <2>1
    <3> QED BY <3>1
  <2>2. CASE i # 1
    <3> DEFINE x == (s - 1) + i
    <3>1. x \in Nat /\ s < x
      BY <1>1, <2>2, Constants
    <3>2. x \in 1..Count(f) /\ x < TagsFrom(f) /\ Begin(f, x) + Header <= AudioEnd(f)
      BY <1>5, HeaderIs
    <3> HIDE DEF x
    <3>3. End(f, s) = Begin(f, s + 1) /\ s + 1 \in Places(f) /\ s + 1 <= TagsFrom(f) /\ AudioEnd(f) \in Nat
      BY <1>1, ItemIs
    <3>4. x \in Places(f) /\ (x = s + 1 \/ s + 1 < x)
      BY <1>1, <3>1, <3>2 DEF Places
    <3>5. Begin(f, s + 1) <= Begin(f, x) /\ Begin(f, x) \in Nat /\ Begin(f, s + 1) \in Nat
      BY <1>1, <3>3, <3>4, BeginIs
    <3> QED BY <3>2, <3>3, <3>5, Constants
  <2> QED BY <2>1, <2>2
<1> QED BY <1>3, <1>4, <1>5 DEF Chained

\* The first frame drmp3d_find_frame stops at is the first that is chained in the file.
LEMMA SyncsAre ==
  ASSUME Mp3Assumption, NEW f \in Streams, NEW k \in First(f)..(TagsFrom(f) - 1), NEW n,
         WindowAt(f, k, n), Kind(f, k - 1) # "junk", ~InStepAt(f, k)
  PROVE  /\ ChainedFrom(f, k) = {} => Syncs(f, Begin(f, k), n) = {} /\ Begin(f, k) + n = AudioEnd(f)
         /\ ChainedFrom(f, k) # {} =>
              /\ Syncs(f, Begin(f, k), n) # {}
              /\ Min(Syncs(f, Begin(f, k), n)) = Min(ChainedFrom(f, k))
              /\ End(f, Min(ChainedFrom(f, k))) <= Begin(f, k) + n
<1> DEFINE p == Begin(f, k)
           e == AudioEnd(f)
           C == ChainedFrom(f, k)
           S == Syncs(f, p, n)
<1>1. Header \in Nat /\ Header >= 1 /\ MinChunk \in Nat /\ MinChunk >= 1
  BY Constants
<1>2. /\ LaidOut(f) /\ Ordered(f) /\ First(f) \in {1, 2} /\ TagsFrom(f) \in First(f)..(Count(f) + 1)
      /\ Count(f) \in Nat
  BY StreamIs, AudioIs, ItemsAre
<1>3. /\ k \in 1..(TagsFrom(f) - 1) /\ k \in Places(f)
      /\ p = Start(f, k) /\ p \in Nat /\ e \in Nat
  BY <1>2, ItemIs DEF Places
<1>4. n \in Nat /\ n >= 1 /\ p + n <= e /\ (n >= MinChunk \/ p + n = e)
  BY DEF WindowAt
<1>5. IF C = {} THEN e <= p + MinChunk ELSE End(f, Min(C)) + Header <= p + MinChunk
  BY <1>3, StreamIs DEF Searchable
<1>6. C = {s \in k..(TagsFrom(f) - 1) : IsFrame(f, s) /\ Chained(f, s)}
  BY DEF ChainedFrom
<1>7. \A a, b \in Places(f) : /\ Begin(f, a) \in Nat /\ Begin(f, b) \in Nat
                              /\ a < b => Begin(f, a) < Begin(f, b)
  BY <1>2, BeginIs
<1> HIDE DEF p, e, C, S
<1>8. ASSUME NEW j, j \in S
      PROVE  /\ IsFrame(f, j) /\ j \in k..(TagsFrom(f) - 1) /\ j \in Places(f)
             /\ Begin(f, j) \in Nat /\ Begin(f, j) + Header < p + n
             /\ \/ End(f, j) + Header <= p + n /\ MatchedTo(f, j, p + n)
                \/ j = k /\ End(f, k) = p + n
  <2>1. /\ IsFrame(f, j) /\ p <= Begin(f, j) /\ Begin(f, j) + Header < p + n
        /\ \/ End(f, j) + Header <= p + n /\ MatchedTo(f, j, p + n)
           \/ Begin(f, j) = p /\ Size(f, j) = n
    BY <1>3, <1>4, <1>8, SyncIs DEF S
  <2>2. j \in 1..(TagsFrom(f) - 1) /\ j \in Places(f)
    BY <1>2, <2>1, FrameIs DEF Places
  <2>3. ~(j < k)
    <3>1. j < k => Begin(f, j) < Begin(f, k)
      BY <1>3, <1>7, <2>2
    <3> QED BY <1>3, <1>7, <2>1, <2>2, <3>1 DEF p
  <2>4. Begin(f, j) = p => j = k
    <3>1. k < j => Begin(f, k) < Begin(f, j)
      BY <1>3, <1>7, <2>2
    <3>2. k < j \/ k = j
      BY <1>3, <2>2, <2>3
    <3> QED BY <1>3, <3>1, <3>2 DEF p
  <2>5. End(f, k) = p + Size(f, k)
    BY <1>3, ItemIs DEF p
  <2>6. j \in k..(TagsFrom(f) - 1)
    BY <1>3, <2>2, <2>3
  <2> QED BY <1>7, <2>1, <2>2, <2>4, <2>5, <2>6
<1>9. ASSUME k \in S, End(f, k) = p + n PROVE k \in C
  <2>1. IsFrame(f, k)
    BY <1>8, <1>9
  <2>2. Size(f, k) + Header <= MinChunk /\ End(f, k) = p + Size(f, k) /\ Size(f, k) \in Nat
    BY <1>3, <2>1, FrameIs, ItemIs DEF p
  <2>3. End(f, k) = e
    BY <1>1, <1>3, <1>4, <1>9, <2>2
  <2>4. Chained(f, k)
    BY <2>1, <2>3, ChainSeen DEF e
  <2> QED BY <1>2, <1>3, <1>6, <2>1, <2>4
<1>10. CASE C = {}
  <2>1. p + n = e
    BY <1>1, <1>3, <1>4, <1>5, <1>10
  <2>2. ASSUME NEW j \in S PROVE FALSE
    <3>1. End(f, j) + Header <= e /\ MatchedTo(f, j, e) /\ IsFrame(f, j) /\ j \in k..(TagsFrom(f) - 1)
      BY <1>8, <1>9, <1>10, <2>1, <2>2
    <3>2. Chained(f, j)
      BY <3>1, ChainSeen DEF e
    <3> QED BY <1>6, <1>10, <3>1, <3>2
  <2> QED BY <1>10, <2>1, <2>2 DEF p, C, S, e
<1>11. CASE C # {}
  <2> DEFINE s == Min(C)
  <2>1. s \in C /\ \A y \in C : s <= y
    <3>1. C \in SUBSET Nat
      BY <1>3, <1>6
    <3>2. PICK x \in C : TRUE
      BY <1>11
    <3> QED BY <3>1, <3>2, LeastOf
  <2>2. End(f, s) + Header <= p + MinChunk
    BY <1>5, <1>11
  <2> HIDE DEF s
  <2>3. IsFrame(f, s) /\ Chained(f, s) /\ s \in k..(TagsFrom(f) - 1) /\ s \in Nat
    BY <1>3, <1>6, <2>1
  <2>4. /\ s \in 1..(TagsFrom(f) - 1) /\ Header < Size(f, s) /\ Size(f, s) \in Nat
        /\ Begin(f, s) \in Nat /\ End(f, s) = Begin(f, s) + Size(f, s) /\ End(f, s) <= e
        /\ s \in Places(f)
    BY <2>3, FrameIs, ItemIs DEF e
  <2>5. p <= Begin(f, s)
    <3>1. k = s \/ k < s
      BY <1>3, <2>3
    <3> QED BY <1>3, <1>7, <2>4, <3>1 DEF p
  <2>6. End(f, s) + Header <= p + n \/ (s = k /\ End(f, s) = e /\ p + n = e)
    <3>1. CASE n >= MinChunk
      BY <1>1, <1>3, <1>4, <2>2, <2>4, <3>1
    <3>2. CASE ~(n >= MinChunk)
      <4>1. p + n = e
        BY <1>4, <3>2
      <4>2. CASE HeaderAt(f, s + 1)
        BY <2>3, <4>1, <4>2, ChainSeen DEF e
      <4>3. CASE ~HeaderAt(f, s + 1)
        <5>1. End(f, s) = e /\ Kind(f, s - 1) # "junk"
          BY <2>3, <4>3 DEF Chained, e
        <5>2. ASSUME s # k PROVE FALSE
          <6>1. s > First(f)
            BY <1>2, <1>3, <2>3, <5>2
          <6>2. IsFrame(f, s - 1) /\ Chained(f, s - 1)
            BY <2>3, <5>1, <6>1, ChainedLast DEF e
          <6>3. s - 1 \in k..(TagsFrom(f) - 1)
            BY <1>2, <1>3, <2>3, <5>2
          <6>4. s - 1 \in C
            BY <1>6, <6>2, <6>3
          <6> QED BY <2>1, <2>3, <6>4
        <5> QED BY <4>1, <5>1, <5>2
      <4> QED BY <4>2, <4>3
    <3> QED BY <3>1, <3>2
  <2>7. s \in S
    <3>1. Begin(f, s) + Header < p + n
      BY <1>1, <1>3, <1>4, <2>4, <2>6
    <3>2. CASE End(f, s) + Header <= p + n
      <4>1. MatchedTo(f, s, p + n)
        <5>1. p + n \in Nat /\ p + n <= e
          BY <1>3, <1>4
        <5> QED BY <2>3, <5>1, ChainSeen DEF e
      <4> QED BY <1>3, <1>4, <2>3, <2>5, <3>1, <3>2, <4>1, SyncIs DEF S
    <3>3. CASE s = k /\ End(f, s) = e /\ p + n = e
      <4>1. Begin(f, s) = p /\ Size(f, s) = n
        BY <1>3, <1>4, <2>4, <3>3 DEF p
      <4> QED BY <1>3, <1>4, <2>3, <2>5, <3>1, <4>1, SyncIs DEF S
    <3> QED BY <2>6, <3>2, <3>3
  <2>8. ASSUME NEW j \in S PROVE s <= j
    <3>1. SUFFICES ASSUME j < s PROVE FALSE
      BY <1>3, <1>8, <2>3
    <3>2. IsFrame(f, j) /\ j \in k..(TagsFrom(f) - 1) /\ j \in Nat /\ j \notin C
      <4>1. j \in k..(TagsFrom(f) - 1) /\ IsFrame(f, j)
        BY <1>8
      <4>2. j \notin C
        BY <1>3, <2>1, <2>3, <3>1, <4>1
      <4> QED BY <1>3, <4>1, <4>2
    <3>3. ~Chained(f, j)
      BY <1>6, <3>2
    <3>4. End(f, j) + Header <= p + n /\ MatchedTo(f, j, p + n)
      BY <1>8, <1>9, <3>2
    <3>5. HeaderAt(f, j + 1)
      <4>1. End(f, j) \in Nat
        BY <3>2, FrameIs, ItemIs
      <4>2. End(f, j) + Header <= e
        BY <1>1, <1>3, <1>4, <3>4, <4>1
      <4> QED BY <3>2, <4>2, ChainSeen DEF e
    <3>6. PICK i \in 1..Matches : j + i < s /\ HeaderAt(f, j + i) /\ ~IsFrame(f, j + i)
      <4> HIDE DEF HeaderAt
      <4> QED BY <2>3, <3>1, <3>2, <3>3, <3>5, BreakBetween
    <3> DEFINE x == j + i
    <3>7. x \in 1..Count(f) /\ x < s /\ x - 1 \in 1..Count(f) /\ (x - 1) + 1 = x
      BY <1>2, <3>2, <3>6, HeaderIs
    <3>8. End(f, x - 1) = Begin(f, x) /\ Begin(f, x) < Begin(f, s) /\ Begin(f, x) \in Nat
      <4>1. x \in Places(f)
        BY <1>2, <3>7 DEF Places
      <4> QED BY <1>2, <1>7, <2>4, <3>7, <4>1, ItemsAre
    <3>9. End(f, x - 1) + Header <= p + n
      <4>1. Begin(f, s) + Header <= p + n
        BY <1>1, <1>3, <1>4, <2>4, <2>6
      <4> QED BY <1>1, <1>3, <1>4, <2>4, <3>8, <4>1
    <3>10. IsFrame(f, j + i)
      <4>1. j + i - 1 = x - 1
        BY <3>2
      <4>2. j + i - 1 \in 1..Count(f) /\ End(f, j + i - 1) + Header <= p + n
        BY <3>7, <3>9, <4>1
      <4> QED BY <3>4, <4>2 DEF MatchedTo
    <3> QED BY <3>6, <3>10
  <2>9. Min(S) = s
    <3>1. S \in SUBSET Nat
      BY <1>3, <1>8
    <3>2. Min(S) \in S /\ Min(S) <= s /\ Min(S) \in Nat
      BY <2>7, <3>1, LeastOf
    <3>3. s <= Min(S)
      BY <2>8, <3>2
    <3> QED BY <2>3, <3>2, <3>3
  <2>10. End(f, s) <= p + n
    BY <1>1, <1>3, <1>4, <2>4, <2>6
  <2> QED BY <1>11, <2>7, <2>9, <2>10 DEF p, C, S, s
<1> QED BY <1>10, <1>11 DEF p, C, S, e

(***************************************************************************)
(* Bytes that end others.                                                  *)
(***************************************************************************)
IsTail(r, s) ==
  /\ r \in Seq(Int) /\ s \in Seq(Int) /\ Len(r) <= Len(s)
  /\ \A i \in 1..Len(r) : r[i] = s[(Len(s) - Len(r)) + i]

\* Ends of the same length are the same.
LEMMA TailUnique ==
  ASSUME NEW r, NEW t, NEW s, IsTail(r, s), IsTail(t, s), Len(r) = Len(t)
  PROVE  r = t
<1>1. r \in Seq(Int) /\ t \in Seq(Int) /\ \A i \in 1..Len(r) : r[i] = t[i]
  BY DEF IsTail
<1> QED BY <1>1, SameSequence

\* The end of an end is an end.
LEMMA TailTransitive ==
  ASSUME NEW r, NEW s, NEW t, IsTail(r, s), IsTail(s, t)
  PROVE  IsTail(r, t)
<1>1. r \in Seq(Int) /\ s \in Seq(Int) /\ t \in Seq(Int) /\ Len(r) <= Len(s) /\ Len(s) <= Len(t)
  BY DEF IsTail
<1> DEFINE a == Len(r)
           b == Len(s)
           c == Len(t)
<1>2. a \in Nat /\ b \in Nat /\ c \in Nat
  BY <1>1
<1>3. /\ \A i \in 1..a : r[i] = s[(b - a) + i]
      /\ \A i \in 1..b : s[i] = t[(c - b) + i]
  BY DEF IsTail
<1> HIDE DEF a, b, c
<1>4. ASSUME NEW i \in 1..a PROVE r[i] = t[(c - a) + i]
  <2>1. (b - a) + i \in 1..b /\ (c - b) + ((b - a) + i) = (c - a) + i
    BY <1>1, <1>2 DEF a, b
  <2> QED BY <1>3, <2>1
<1>5. a <= c
  BY <1>1, <1>2 DEF a, b, c
<1> QED BY <1>1, <1>4, <1>5 DEF IsTail, a, c

\* What ends s, with t behind it, ends s with t behind it.
LEMMA TailJoined ==
  ASSUME NEW r, NEW s, NEW t \in Seq(Int), IsTail(r, s)
  PROVE  IsTail(r \o t, s \o t)
<1>1. r \in Seq(Int) /\ s \in Seq(Int) /\ Len(r) <= Len(s)
  BY DEF IsTail
<1> DEFINE a == Len(r)
           b == Len(s)
           c == Len(t)
           x == r \o t
           y == s \o t
<1>2. a \in Nat /\ b \in Nat /\ c \in Nat /\ a <= b
  BY <1>1
<1>3. \A i \in 1..a : r[i] = s[(b - a) + i]
  BY DEF IsTail
<1>4. /\ x \in Seq(Int) /\ Len(x) = a + c
      /\ \A i \in 1..a : x[i] = r[i]
      /\ \A i \in 1..c : x[a + i] = t[i]
  BY <1>1, ConcatOf
<1>5. /\ y \in Seq(Int) /\ Len(y) = b + c
      /\ \A i \in 1..b : y[i] = s[i]
      /\ \A i \in 1..c : y[b + i] = t[i]
  BY <1>1, ConcatOf
<1> HIDE DEF a, b, c, x, y
<1>6. ASSUME NEW i \in 1..(a + c) PROVE x[i] = y[(b - a) + i]
  <2>1. CASE i <= a
    <3>1. i \in 1..a /\ (b - a) + i \in 1..b
      BY <1>2, <2>1
    <3> QED BY <1>3, <1>4, <1>5, <3>1
  <2>2. CASE ~(i <= a)
    <3>1. i - a \in 1..c /\ a + (i - a) = i /\ b + (i - a) = (b - a) + i
      BY <1>2, <2>2
    <3> QED BY <1>4, <1>5, <3>1
  <2> QED BY <2>1, <2>2
<1>7. (b + c) - (a + c) = b - a /\ a + c <= b + c
  BY <1>2
<1> QED BY <1>4, <1>5, <1>6, <1>7 DEF IsTail, x, y

\* LastOf gives the end of that length, or all.
LEMMA LastIsTail ==
  ASSUME NEW s \in Seq(Int), NEW n \in Nat
  PROVE  IsTail(LastOf(s, n), s) /\ Len(LastOf(s, n)) = Least(Len(s), n)
<1> DEFINE m == Len(s)
           from == Most(0, m - n)
           l == LastOf(s, n)
<1>1. m \in Nat /\ from \in 0..m /\ m - from = Least(m, n)
  BY DEF Most, Least
<1>2. l = SubSeq(s, from + 1, m)
  BY DEF LastOf
<1> HIDE DEF from, l
<1>3. l \in Seq(Int) /\ Len(l) = m - from /\ \A i \in 1..(m - from) : l[i] = s[from + i]
  BY <1>1, <1>2
<1> HIDE DEF m
<1>4. m - (m - from) = from /\ m - from <= m
  BY <1>1
<1>5. IsTail(l, s)
  BY <1>3, <1>4 DEF IsTail, m
<1>6. Len(l) = Least(m, n)
  BY <1>1, <1>3
<1> QED BY <1>5, <1>6 DEF l, m

\* What is left behind the first bytes is an end.
LEMMA RestIsTail ==
  ASSUME NEW s \in Seq(Int), NEW u \in 0..Len(s)
  PROVE  IsTail(SubSeq(s, u + 1, Len(s)), s) /\ Len(SubSeq(s, u + 1, Len(s))) = Len(s) - u
<1> DEFINE m == Len(s)
           l == SubSeq(s, u + 1, m)
<1>1. m \in Nat /\ u \in Nat /\ u <= m
  OBVIOUS
<1>2. l \in Seq(Int) /\ Len(l) = m - u /\ \A i \in 1..(m - u) : l[i] = s[u + i]
  BY <1>1
<1> HIDE DEF m, l
<1>3. m - (m - u) = u /\ m - u <= m
  BY <1>1
<1> QED BY <1>1, <1>2, <1>3 DEF IsTail, l, m

(***************************************************************************)
(* The main data of the frames in step.                                    *)
(***************************************************************************)
MainTo(f, k) ==
  LET from == StepFrom(f)[k - 1] IN FlattenSeq([i \in 1..(k - from) |-> MainOf(f, from + i - 1)])

\* Main data are positions in the file.
LEMMA MainType ==
  ASSUME Mp3Assumption, NEW f \in Streams, NEW k, IsFrame(f, k)
  PROVE  MainOf(f, k) \in Seq(Int) /\ Len(MainOf(f, k)) = f.items[k].main
<1>1. f.items[k].main \in Nat /\ End(f, k) \in Int
  BY FrameIs, ItemIs
<1> QED BY <1>1 DEF MainOf

\* The frames from the first in step to the k-th are good frames.
LEMMA FramesInStep ==
  ASSUME Mp3Assumption, NEW f \in Streams, NEW k \in 1..Count(f), StepFrom(f)[k] > 0
  PROVE  /\ IsFrame(f, k) /\ ~f.items[k].bad /\ StepFrom(f)[k] \in 1..k
         /\ \A j \in StepFrom(f)[k]..k : IsFrame(f, j)
<1> DEFINE n == Count(f)
           s == StepFrom(f)
           Good == {i \in 0..n : s[i] > 0 => \A j \in s[i]..i : IsFrame(f, j)}
<1>1. n \in Nat /\ n >= 1
  BY StreamIs, ItemsAre
<1>2. /\ s[0] = 0 /\ \A i \in 0..n : s[i] \in 0..i
      /\ \A i \in 1..n : s[i] = StepValue(f, i, s[i - 1])
  BY StreamIs, StepFromIs
<1> HIDE DEF s
<1>3. ASSUME NEW i \in 1..n, s[i] > 0
      PROVE  IsFrame(f, i) /\ ~f.items[i].bad /\ (s[i] = i \/ (s[i] = s[i - 1] /\ s[i - 1] > 0))
  <2>1. s[i] = StepValue(f, i, s[i - 1])
    BY <1>2
  <2>2. ~(i \notin AudioItems(f) \/ ~IsFrame(f, i) \/ f.items[i].bad)
    BY <1>3, <2>1 DEF StepValue
  <2>3. s[i] = IF Kind(f, i - 1) = "frame" /\ s[i - 1] > 0 /\ FollowedBy(f, i) THEN s[i - 1]
               ELSE IF Chained(f, i) THEN i ELSE 0
    BY <2>1, <2>2 DEF StepValue
  <2> QED BY <1>3, <2>2, <2>3
<1>4. 0 \in Good
  BY <1>1, <1>2
<1>5. ASSUME NEW i \in 0..(n - 1), i \in Good PROVE i + 1 \in Good
  <2>1. i + 1 \in 1..n /\ i + 1 \in 0..n /\ (i + 1) - 1 = i /\ s[i] \in 0..i
    BY <1>1, <1>2
  <2>2. ASSUME s[i + 1] > 0, NEW j \in s[i + 1]..(i + 1) PROVE IsFrame(f, j)
    <3>1. IsFrame(f, i + 1) /\ (s[i + 1] = i + 1 \/ (s[i + 1] = s[i] /\ s[i] > 0))
      BY <1>3, <2>1, <2>2
    <3>2. CASE j = i + 1
      BY <3>1, <3>2
    <3>3. CASE j # i + 1
      <4>1. s[i + 1] = s[i] /\ s[i] > 0 /\ j \in s[i]..i
        BY <2>1, <2>2, <3>1, <3>3
      <4> QED BY <1>5, <4>1
    <3> QED BY <3>2, <3>3
  <2> QED BY <2>1, <2>2
<1>6. \A i \in 0..n : i \in Good
  <2> HIDE DEF Good
  <2> QED BY <1>1, <1>4, <1>5, IntervalInduction
<1>7. k \in 0..n /\ s[k] \in 1..k
  BY <1>1, <1>2 DEF s
<1> QED BY <1>3, <1>6, <1>7 DEF s

\* The main data in step before a frame, with its own, is that before the next.
LEMMA MainGrows ==
  ASSUME Mp3Assumption, NEW f \in Streams, NEW k \in 1..Count(f), StepFrom(f)[k] > 0
  PROVE  /\ MainBefore(f, k) \in Seq(Int)
         /\ MainTo(f, k + 1) = MainBefore(f, k) \o MainOf(f, k)
         /\ StepFrom(f)[k] = k => MainBefore(f, k) = <<>>
<1> DEFINE from == StepFrom(f)[k]
           before == [i \in 1..(k - from) |-> MainOf(f, from + i - 1)]
           upto == [i \in 1..((k + 1) - from) |-> MainOf(f, from + i - 1)]
<1>1. from \in 1..k /\ \A j \in from..k : IsFrame(f, j)
  BY FramesInStep
<1>2. MainBefore(f, k) = FlattenSeq(before)
  BY DEF MainBefore
<1>3. MainTo(f, k + 1) = FlattenSeq(upto)
  <2>1. (k + 1) - 1 = k
    OBVIOUS
  <2> QED BY <2>1 DEF MainTo
<1> HIDE DEF from
<1>4. ASSUME NEW i \in 1..((k + 1) - from) PROVE MainOf(f, from + i - 1) \in Seq(Int)
  <2>1. from + i - 1 \in from..k
    BY <1>1
  <2> QED BY <1>1, <2>1, MainType
<1>5. before \in Seq(Seq(Int)) /\ Len(before) = k - from
  <2>1. k - from \in Nat /\ \A i \in 1..(k - from) : i \in 1..((k + 1) - from)
    BY <1>1
  <2>2. before \in [1..(k - from) -> Seq(Int)]
    BY <1>4, <2>1
  <2> HIDE DEF before
  <2> QED BY <2>1, <2>2, AsSequence
<1>6. upto \in Seq(Seq(Int)) /\ Len(upto) = (k - from) + 1
  <2>1. (k + 1) - from \in Nat /\ (k + 1) - from = (k - from) + 1
    BY <1>1
  <2>2. upto \in [1..((k + 1) - from) -> Seq(Int)]
    BY <1>4
  <2> HIDE DEF upto
  <2> QED BY <2>1, <2>2, AsSequence
<1>7. upto = before \o <<MainOf(f, k)>>
  <2>1. MainOf(f, k) \in Seq(Int)
    BY <1>1, MainType
  <2>2. /\ <<MainOf(f, k)>> \in Seq(Seq(Int)) /\ Len(<<MainOf(f, k)>>) = 1
        /\ <<MainOf(f, k)>>[1] = MainOf(f, k)
    BY <2>1
  <2>3. \A i \in 1..(k - from) : upto[i] = before[i]
    BY <1>1
  <2>4. upto[(k - from) + 1] = MainOf(f, k)
    <3>1. (k - from) + 1 \in 1..((k + 1) - from) /\ from + ((k - from) + 1) - 1 = k
      BY <1>1
    <3> QED BY <3>1
  <2> HIDE DEF before, upto
  <2>5. before \o <<MainOf(f, k)>> = upto
    <3>1. /\ Len(upto) = Len(before) + Len(<<MainOf(f, k)>>)
          /\ \A i \in 1..Len(before) : upto[i] = before[i]
          /\ \A i \in 1..Len(<<MainOf(f, k)>>) : upto[Len(before) + i] = <<MainOf(f, k)>>[i]
      BY <1>5, <1>6, <2>2, <2>3, <2>4
    <3> DEFINE one == <<MainOf(f, k)>>
    <3>2. one \in Seq(Seq(Int))
      BY <2>2
    <3>3. /\ Len(upto) = Len(before) + Len(one)
          /\ \A i \in 1..Len(before) : upto[i] = before[i]
          /\ \A i \in 1..Len(one) : upto[Len(before) + i] = one[i]
      BY <3>1
    <3> HIDE DEF one
    <3>4. before \o one = upto
      BY <1>5, <1>6, <3>2, <3>3, JoinIs
    <3> QED BY <3>4 DEF one
  <2> QED BY <2>5
<1>8. FlattenSeq(upto) = FlattenSeq(before) \o MainOf(f, k)
  <2>1. MainOf(f, k) \in Seq(Int) /\ <<MainOf(f, k)>> \in Seq(Seq(Int))
    BY <1>1, MainType
  <2> HIDE DEF before, upto
  <2>2. FlattenSeq(before \o <<MainOf(f, k)>>) = FlattenSeq(before) \o FlattenSeq(<<MainOf(f, k)>>)
    BY <1>5, <2>1, FlattenConcat
  <2>3. FlattenSeq(<<MainOf(f, k)>>) = MainOf(f, k)
    BY <2>1, FlattenOne
  <2> QED BY <1>7, <2>2, <2>3
<1>9. FlattenSeq(before) \in Seq(Int)
  <2> HIDE DEF before
  <2> QED BY <1>5, FlattenType
<1>10. from = k => before = <<>>
  <2>1. ASSUME from = k PROVE before = <<>>
    <3>1. Len(before) = 0
      BY <1>5, <2>1
    <3> HIDE DEF before
    <3> QED BY <1>5, <3>1
  <2> QED BY <2>1
<1> QED BY <1>2, <1>3, <1>8, <1>9, <1>10, FlattenEmpty DEF from

(***************************************************************************)
(* A frame decoded with enough of the bytes before it: it has its main     *)
(* data, and leaves what the next one needs.                               *)
(***************************************************************************)
Enough(f, k, r, main) ==
  IsTail(r, main) /\ (Kind(f, k) = "frame" => Len(r) >= f.items[k].begin \/ Len(r) = Len(main))

FrameAs(k, consumed, main) ==
  [item |-> k, bytes |-> consumed, main |-> main, used |-> 0, rest |-> PerFrame]

DecodedWell(f, k, consumed, d) ==
  /\ d.bytes = consumed /\ d.decoder.sync = TRUE
  /\ Kind(f, k) = "frame" => Enough(f, k + 1, d.decoder.reserv, MainTo(f, k + 1))
  /\ Len(MainBefore(f, k)) >= f.items[k].begin => d.frame = FrameAs(k, consumed, MainData(f, k))
  /\ ~(Len(MainBefore(f, k)) >= f.items[k].begin) => d.frame = NoFrame

\* A good frame with enough bytes kept before it is decoded from its main data.
LEMMA DecodedIs ==
  ASSUME Mp3Assumption, NEW f \in Streams, NEW k \in 1..Count(f), StepFrom(f)[k] > 0,
         NEW r, Enough(f, k, r, MainBefore(f, k)), Kind(f, k) = "xing" => r = <<>>,
         NEW consumed, NEW d, d = DecodedFrame(f, k, r, consumed)
  PROVE  DecodedWell(f, k, consumed, d)
<1> DEFINE item == f.items[k]
           have == LastOf(r, item.begin) \o MainOf(f, k)
           whole == Len(r) >= item.begin
           main == MainBefore(f, k)
           left == IF whole THEN SubSeq(have, item.use + 1, Len(have)) ELSE have
<1>1. /\ IsFrame(f, k) /\ ~item.bad /\ item.main \in Nat /\ item.begin \in Nat
      /\ item.begin <= Reservoir /\ Reservoir \in Nat /\ item.use \in 0..(item.begin + item.main)
  BY FramesInStep, FrameIs, Constants
<1>2. /\ d.bytes = consumed /\ d.decoder.sync = TRUE /\ d.decoder.reserv = Kept(left)
      /\ d.frame = IF ~whole THEN NoFrame
                   ELSE [item |-> k, bytes |-> consumed, main |-> SubSeq(have, 1, item.use),
                         used |-> 0, rest |-> PerFrame]
  BY <1>1 DEF DecodedFrame
<1>3. IsTail(r, main) /\ r \in Seq(Int) /\ main \in Seq(Int) /\ Len(r) <= Len(main)
  BY DEF Enough, IsTail
<1>4. Kind(f, k) = "frame" => Len(r) >= item.begin \/ Len(r) = Len(main)
  BY DEF Enough
<1>5. Kind(f, k) \in {"frame", "xing"} /\ (Kind(f, k) = "xing" => item.begin = 0)
  BY <1>1, StreamIs DEF IsFrame, FrameOf
<1>6. whole <=> Len(main) >= item.begin
  <2>1. Len(r) \in Nat /\ Len(main) \in Nat
    BY <1>3
  <2> QED BY <1>1, <1>3, <1>4, <1>5, <2>1
<1>7. LastOf(r, item.begin) = LastOf(main, item.begin)
  <2>1. IsTail(LastOf(r, item.begin), r) /\ Len(LastOf(r, item.begin)) = Least(Len(r), item.begin)
    BY <1>1, <1>3, LastIsTail
  <2>2. IsTail(LastOf(main, item.begin), main) /\ Len(LastOf(main, item.begin)) = Least(Len(main), item.begin)
    BY <1>1, <1>3, LastIsTail
  <2>3. IsTail(LastOf(r, item.begin), main)
    BY <1>3, <2>1, TailTransitive
  <2>4. Least(Len(r), item.begin) = Least(Len(main), item.begin)
    <3>1. Len(r) \in Nat /\ Len(main) \in Nat
      BY <1>3
    <3>2. CASE Len(r) >= item.begin
      <4>1. Len(main) >= item.begin
        BY <1>6, <3>2
      <4>2. Least(Len(r), item.begin) = item.begin /\ Least(Len(main), item.begin) = item.begin
        BY <1>1, <3>1, <3>2, <4>1 DEF Least
      <4> QED BY <4>2
    <3>3. CASE Len(r) = Len(main)
      BY <3>3
    <3> QED BY <1>4, <1>5, <3>1, <3>2, <3>3
  <2> QED BY <2>1, <2>2, <2>3, <2>4, TailUnique
<1>8. SubSeq(have, 1, item.use) = MainData(f, k)
  BY <1>7 DEF MainData
<1>9. MainOf(f, k) \in Seq(Int) /\ Len(MainOf(f, k)) = item.main
  BY <1>1, MainType
<1>10. MainTo(f, k + 1) = main \o MainOf(f, k)
  BY MainGrows
<1> DEFINE last == LastOf(r, item.begin)
           data == MainOf(f, k)
<1>11. IsTail(last, main) /\ last \in Seq(Int) /\ Len(last) = Least(Len(r), item.begin)
  <2>1. IsTail(last, r) /\ Len(last) = Least(Len(r), item.begin)
    BY <1>1, <1>3, LastIsTail
  <2>2. IsTail(last, main)
    BY <1>3, <2>1, TailTransitive
  <2> QED BY <2>1, <2>2 DEF IsTail
<1> HIDE DEF last, data, main, whole, item
<1>12. IsTail(have, MainTo(f, k + 1)) /\ have \in Seq(Int) /\ Len(have) = Len(last) + item.main
  <2>1. data \in Seq(Int) /\ Len(data) = item.main
    BY <1>9 DEF data
  <2>2. have = last \o data
    BY DEF last, data
  <2>3. IsTail(last \o data, main \o data)
    BY <1>11, <2>1, TailJoined
  <2>4. last \o data \in Seq(Int) /\ Len(last \o data) = Len(last) + Len(data)
    BY <1>11, <2>1, ConcatOf
  <2> QED BY <1>10, <2>1, <2>2, <2>3, <2>4 DEF data
<1>13. ASSUME Kind(f, k) = "frame" PROVE Enough(f, k + 1, d.decoder.reserv, MainTo(f, k + 1))
  <2> DEFINE to == MainTo(f, k + 1)
  <2> HIDE DEF have, to
  <2>0. Len(r) \in Nat /\ Len(main) \in Nat /\ Len(last) \in Nat /\ Len(to) \in Nat
    BY <1>3, <1>11, <1>12 DEF IsTail, to
  <2>1. CASE whole
    <3>1. Len(last) = item.begin
      BY <1>1, <1>11, <2>0, <2>1 DEF whole, Least
    <3>2. Len(have) = item.begin + item.main /\ item.use \in 0..Len(have)
      BY <1>1, <1>12, <3>1
    <3>3. left = SubSeq(have, item.use + 1, Len(have))
      BY <2>1
    <3> HIDE DEF left
    <3>4. IsTail(left, have) /\ Len(left) = Len(have) - item.use
      BY <1>12, <3>2, <3>3, RestIsTail
    <3>5. left \in Seq(Int) /\ IsTail(left, to)
      <4>1. IsTail(have, to)
        BY <1>12 DEF to
      <4>2. IsTail(left, to)
        BY <3>4, <4>1, TailTransitive
      <4>3. left \in Seq(Int)
        BY <3>4 DEF IsTail
      <4> QED BY <4>2, <4>3
    <3>6. IsTail(Kept(left), left) /\ Len(Kept(left)) = Least(Len(left), Reservoir)
      BY <1>1, <3>5, LastIsTail DEF Kept
    <3>7. IsTail(Kept(left), to)
      BY <3>5, <3>6, TailTransitive
    <3>8. ASSUME Kind(f, k + 1) = "frame" PROVE Len(Kept(left)) >= f.items[k + 1].begin
      <4>1. f.items[k + 1].begin <= (item.begin + item.main) - item.use
        BY <1>1, <1>13, <3>8, StreamIs DEF FrameOf, item
      <4>2. f.items[k + 1].begin \in 0..Reservoir
        BY <3>8, FrameIs DEF IsFrame
      <4>3. Len(left) = (item.begin + item.main) - item.use
        BY <3>2, <3>4
      <4> QED BY <1>1, <3>6, <4>1, <4>2, <4>3 DEF Least
    <3> QED BY <1>2, <3>7, <3>8 DEF Enough, to
  <2>2. CASE ~whole
    <3>1. left = have
      BY <2>2
    <3>2. Len(last) = Len(r) /\ Len(r) = Len(main)
      BY <1>1, <1>4, <1>11, <1>13, <2>0, <2>2 DEF whole, Least
    <3>3. Len(to) = Len(main) + item.main
      <4>1. data \in Seq(Int) /\ Len(data) = item.main
        BY <1>9 DEF data
      <4>2. Len(main \o data) = Len(main) + Len(data)
        BY <1>3, <4>1, ConcatOf
      <4> QED BY <1>10, <4>1, <4>2 DEF to, data
    <3>4. Len(have) = Len(to)
      BY <1>12, <3>2, <3>3
    <3> HIDE DEF left
    <3>5. IsTail(Kept(left), have) /\ Len(Kept(left)) = Least(Len(have), Reservoir)
      BY <1>1, <1>12, <3>1, LastIsTail DEF Kept
    <3>6. IsTail(Kept(left), to)
      BY <1>12, <3>5, TailTransitive DEF to
    <3>7. ASSUME Kind(f, k + 1) = "frame"
          PROVE  Len(Kept(left)) >= f.items[k + 1].begin \/ Len(Kept(left)) = Len(to)
      <4>1. f.items[k + 1].begin \in 0..Reservoir
        BY <3>7, FrameIs DEF IsFrame
      <4> QED BY <1>1, <2>0, <3>4, <3>5, <4>1 DEF Least
    <3> QED BY <1>2, <3>6, <3>7 DEF Enough, to
  <2> QED BY <2>1, <2>2
<1> QED BY <1>2, <1>6, <1>8, <1>13 DEF DecodedWell, FrameAs, main, item

(***************************************************************************)
(* One call of the frame decoder at an item: it ends at a later one, past  *)
(* the frame it found; those it skipped are not heard.                     *)
(***************************************************************************)
InSync(f, k) == Kind(f, k - 1) = "frame" /\ StepFrom(f)[k - 1] > 0
DecoderAt(f, k, dec) ==
  /\ dec.sync \in BOOLEAN /\ (dec.sync <=> InSync(f, k))
  /\ InSync(f, k) => Enough(f, k, dec.reserv, MainTo(f, k))
AtItem(f, k) == k \in First(f)..TagsFrom(f) /\ (k = TagsFrom(f) \/ Kind(f, k - 1) # "junk")

DecodedTo(f, k, m, d) ==
  /\ m \in (k + 1)..TagsFrom(f) /\ AtItem(f, m)
  /\ d.bytes \in Nat /\ Begin(f, k) + d.bytes = Begin(f, m) /\ "sync" \in DOMAIN d.decoder
  /\ \A j \in k..(m - 2) : ~HeardFrame(f, j)
  /\ \/ d.frame = NoFrame /\ ~HeardFrame(f, m - 1) /\ DecoderAt(f, m, d.decoder)
     \/ /\ d.frame = FrameAs(m - 1, d.bytes, MainData(f, m - 1))
        /\ IsFrame(f, m - 1) /\ StepFrom(f)[m - 1] > 0
        /\ Kind(f, m - 1) = "frame" => HeardFrame(f, m - 1) /\ DecoderAt(f, m, d.decoder)
  /\ Told(f) /\ k = First(f) => m = k + 1 /\ d.frame # NoFrame

\* From where no frame is in step, nothing is heard before a frame that is chained.
LEMMA Silent ==
  ASSUME Mp3Assumption, NEW f \in Streams, NEW k \in First(f)..(TagsFrom(f) - 1), ~InStepAt(f, k),
         NEW s \in k..TagsFrom(f), \A j \in k..(s - 1) : ~(IsFrame(f, j) /\ Chained(f, j))
  PROVE  \A j \in k..(s - 1) : StepFrom(f)[j] = 0
<1>1. /\ LaidOut(f) /\ Ordered(f) /\ First(f) \in {1, 2} /\ TagsFrom(f) \in First(f)..(Count(f) + 1)
      /\ Count(f) \in Nat
  BY StreamIs, AudioIs, ItemsAre
<1> DEFINE n == s - k
           Good == {i \in 0..n : i < n => StepFrom(f)[k + i] = 0}
<1>2. n \in Nat /\ k \in Nat
  BY <1>1
<1>3. 0 \in Good
  <2>1. ASSUME 0 < n PROVE StepFrom(f)[k] = 0
    <3>1. k \in k..(s - 1)
      BY <1>1, <2>1
    <3> QED BY <1>1, <3>1, StepIs
  <2> QED BY <1>2, <2>1
<1>4. ASSUME NEW i \in 0..(n - 1), i \in Good PROVE i + 1 \in Good
  <2>1. i + 1 \in 0..n
    BY <1>2
  <2>2. ASSUME i + 1 < n PROVE StepFrom(f)[k + (i + 1)] = 0
    <3> DEFINE j == k + (i + 1)
    <3>1. j \in k..(s - 1) /\ j \in First(f)..(TagsFrom(f) - 1) /\ j - 1 = k + i
      BY <1>1, <1>2, <2>2
    <3>2. StepFrom(f)[j - 1] = 0
      BY <1>2, <1>4, <2>2, <3>1
    <3> HIDE DEF j
    <3>3. ~InStepAt(f, j)
      BY <3>2 DEF InStepAt
    <3>4. StepFrom(f)[j] = 0
      BY <1>1, <3>1, <3>3, StepIs
    <3> QED BY <3>4 DEF j
  <2> QED BY <2>1, <2>2
<1>5. \A i \in 0..n : i \in Good
  <2> HIDE DEF Good, n
  <2> QED BY <1>2, <1>3, <1>4, IntervalInduction
<1>6. ASSUME NEW j \in k..(s - 1) PROVE StepFrom(f)[j] = 0
  <2>1. j - k \in 0..n /\ j - k < n /\ k + (j - k) = j
    BY <1>1, <1>2
  <2> QED BY <1>5, <2>1
<1> QED BY <1>6

\* A frame decoded that is in step or chained.
Found(f, s, consumed, d) ==
  /\ d.bytes = consumed /\ "sync" \in DOMAIN d.decoder
  /\ \/ d.frame = NoFrame /\ ~HeardFrame(f, s) /\ DecoderAt(f, s + 1, d.decoder)
     \/ /\ d.frame = FrameAs(s, d.bytes, MainData(f, s)) /\ StepFrom(f)[s] > 0
        /\ Kind(f, s) = "frame" => HeardFrame(f, s) /\ DecoderAt(f, s + 1, d.decoder)
  /\ Kind(f, s) = "xing" => d.frame # NoFrame

\* drmp3dec_decode_frame on a frame in step or chained hears it if the layout says so.
LEMMA FrameDecoded ==
  ASSUME Mp3Assumption, NEW f \in Streams, NEW s, IsFrame(f, s), NEW r, NEW consumed \in Nat,
         IF InStepAt(f, s) THEN Enough(f, s, r, MainTo(f, s)) ELSE Chained(f, s) /\ r = <<>>,
         NEW d, d = DecodedFrame(f, s, r, consumed)
  PROVE  Found(f, s, consumed, d)
<1>1. /\ LaidOut(f) /\ Ordered(f) /\ s \in First(f)..(TagsFrom(f) - 1) /\ s \in 1..Count(f)
      /\ s \in Nat /\ s >= 1 /\ (s + 1) - 1 = s
  BY FrameIs, ItemIs, StreamIs
<1>0. "sync" \in DOMAIN d.decoder
  <2>1. \/ d.decoder = [sync |-> FALSE, reserv |-> d.decoder.reserv]
        \/ d.decoder = [sync |-> TRUE, reserv |-> d.decoder.reserv]
    BY DEF DecodedFrame
  <2> QED BY <2>1
<1>2. CASE f.items[s].bad
  <2>1. d.bytes = consumed /\ d.decoder.sync = FALSE /\ d.frame = NoFrame
    BY <1>2 DEF DecodedFrame
  <2>2. StepFrom(f)[s] = 0
    BY <1>1, <1>2, StepIs
  <2>3. ~HeardFrame(f, s) /\ ~InSync(f, s + 1)
    BY <1>1, <2>2 DEF HeardFrame, InSync
  <2>4. Kind(f, s) # "xing"
    BY <1>2, StreamIs DEF FrameOf
  <2> QED BY <1>0, <2>1, <2>3, <2>4 DEF DecoderAt, Found
<1>3. CASE ~f.items[s].bad
  <2>1. StepFrom(f)[s] > 0 /\ Enough(f, s, r, MainBefore(f, s)) /\ (Kind(f, s) = "xing" => r = <<>>)
    <3>1. CASE InStepAt(f, s)
      <4>1. StepFrom(f)[s] > 0 /\ StepFrom(f)[s] = StepFrom(f)[s - 1]
        BY <1>1, <1>3, <3>1, StepIs
      <4>2. MainBefore(f, s) = MainTo(f, s)
        BY <4>1 DEF MainBefore, MainTo
      <4>3. Kind(f, s) # "xing"
        <5>1. IsFrame(f, s - 1)
          BY <3>1 DEF InStepAt, IsFrame
        <5>2. s - 1 \in First(f)..(TagsFrom(f) - 1) /\ First(f) \in {1, 2}
          BY <1>1, <5>1, FrameIs, AudioIs
        <5>3. s # First(f)
          BY <5>2
        <5> QED BY <5>3, FrameIs
      <4> QED BY <3>1, <4>1, <4>2, <4>3
    <3>2. CASE ~InStepAt(f, s)
      <4>1. StepFrom(f)[s] = s
        BY <1>1, <1>3, <3>2, StepIs
      <4>2. StepFrom(f)[s] > 0 /\ MainBefore(f, s) = <<>> /\ r = <<>>
        BY <1>1, <3>2, <4>1, MainGrows
      <4>3. IsTail(r, <<>>) /\ Len(r) = Len(<<>>)
        BY <4>2 DEF IsTail
      <4> QED BY <4>2, <4>3 DEF Enough
    <3> QED BY <3>1, <3>2
  <2>0. DecodedWell(f, s, consumed, d)
    BY <1>1, <2>1, DecodedIs
  <2>2. /\ d.bytes = consumed /\ d.decoder.sync = TRUE
        /\ Kind(f, s) = "frame" => Enough(f, s + 1, d.decoder.reserv, MainTo(f, s + 1))
        /\ Len(MainBefore(f, s)) >= f.items[s].begin =>
              d.frame = FrameAs(s, consumed, MainData(f, s))
        /\ ~(Len(MainBefore(f, s)) >= f.items[s].begin) => d.frame = NoFrame
    BY <2>0 DEF DecodedWell
  <2>3. Kind(f, s) = "frame" => InSync(f, s + 1) /\ DecoderAt(f, s + 1, d.decoder)
    BY <1>1, <2>1, <2>2 DEF InSync, DecoderAt
  <2>4. CASE Kind(f, s) = "frame"
    <3>1. HeardFrame(f, s) <=> Len(MainBefore(f, s)) >= f.items[s].begin
      BY <2>1, <2>4 DEF HeardFrame
    <3> QED BY <1>0, <2>1, <2>2, <2>3, <2>4, <3>1 DEF Found
  <2>5. CASE Kind(f, s) = "xing"
    <3>1. f.items[s].begin = 0
      BY <2>5, StreamIs DEF FrameOf
    <3>2. Len(MainBefore(f, s)) \in Nat
      BY <2>1 DEF Enough, IsTail
    <3>3. d.frame = FrameAs(s, consumed, MainData(f, s))
      BY <2>2, <3>1, <3>2
    <3>4. d.frame # NoFrame
      <4>1. s # None
        BY <1>1, Constants
      <4>2. d.frame.item = s /\ NoFrame.item = None
        BY <3>3 DEF FrameAs, NoFrame
      <4> QED BY <4>1, <4>2
    <3> QED BY <1>0, <2>1, <2>2, <2>5, <3>3, <3>4 DEF Found
  <2> QED BY <2>4, <2>5 DEF IsFrame
<1> QED BY <1>2, <1>3, FrameIs

\* One call of drmp3dec_decode_frame ends at the beginning of a later item.
LEMMA DecodeStep ==
  ASSUME Mp3Assumption, NEW f \in Streams, NEW k \in First(f)..(TagsFrom(f) - 1), AtItem(f, k), NEW n,
         WindowAt(f, k, n), NEW dec, DecoderAt(f, k, dec),
         NEW d, d = Decoded(f, dec, Begin(f, k), n)
  PROVE  \E m \in (k + 1)..TagsFrom(f) : DecodedTo(f, k, m, d) /\ d.bytes <= n
<1> DEFINE p == Begin(f, k)
           C == ChainedFrom(f, k)
<1>1. /\ LaidOut(f) /\ Ordered(f) /\ First(f) \in {1, 2} /\ TagsFrom(f) \in First(f)..(Count(f) + 1)
      /\ Count(f) \in Nat /\ AudioEnd(f) = Begin(f, TagsFrom(f))
  BY StreamIs, AudioIs, ItemsAre
<1>2. /\ k \in Nat /\ k >= 1 /\ k \in 1..(TagsFrom(f) - 1) /\ k + 1 \in (k + 1)..TagsFrom(f)
      /\ Kind(f, k - 1) # "junk" /\ TagsFrom(f) \in Nat
  BY <1>1 DEF AtItem
<1>3. /\ p \in Nat /\ At(f, p) = k /\ Size(f, k) \in Nat /\ p + Size(f, k) = Begin(f, k + 1)
      /\ k + 1 \in Places(f) /\ p + Size(f, k) <= AudioEnd(f) /\ AudioEnd(f) \in Nat
  <2>1. k \in Places(f) /\ k \in 1..Count(f)
    BY <1>2, ItemIs
  <2> QED BY <1>2, <2>1, ItemIs, AtIs
<1>4. n \in Nat /\ n >= 1
  BY DEF WindowAt
<1>5. dec.sync /\ InStep(f, p, n) <=> InStepAt(f, k)
  <2>1. InStep(f, p, n) <=> IsFrame(f, k) /\ FollowedBy(f, k)
    BY InStepIs
  <2>2. dec.sync <=> Kind(f, k - 1) = "frame" /\ StepFrom(f)[k - 1] > 0
    BY DEF DecoderAt, InSync
  <2> QED BY <2>1, <2>2 DEF InStepAt
\* The frame at s >= k was found, whatever lies between being silent.
<1>6. ASSUME NEW s \in k..(TagsFrom(f) - 1), IsFrame(f, s), NEW c, Found(f, s, c, d),
             c \in Nat, p + c = Begin(f, s + 1),
             \A j \in k..(s - 1) : StepFrom(f)[j] = 0
      PROVE  DecodedTo(f, k, s + 1, d)
  <2>1. s \in Nat /\ (s + 1) - 1 = s /\ (s + 1) - 2 = s - 1 /\ s + 1 \in (k + 1)..TagsFrom(f)
        /\ s + 1 \in First(f)..TagsFrom(f)
    BY <1>1, <1>2
  <2>2. AtItem(f, s + 1)
    BY <1>6, <2>1 DEF AtItem, IsFrame
  <2>3. \A j \in k..(s - 1) : ~HeardFrame(f, j)
    BY <1>6 DEF HeardFrame
  <2>4. ASSUME Told(f), k = First(f) PROVE s + 1 = k + 1 /\ d.frame # NoFrame
    <3>1. Kind(f, k) = "xing" /\ StepFrom(f)[k] > 0
      BY <2>4 DEF Told
    <3>2. ~(k \in k..(s - 1))
      BY <1>6, <3>1
    <3>3. s = k
      BY <1>2, <2>1, <3>2
    <3> QED BY <1>6, <3>1, <3>3 DEF Found
  <2>5. /\ d.bytes = c /\ Begin(f, k) + d.bytes = Begin(f, s + 1) /\ d.bytes \in Nat
        /\ "sync" \in DOMAIN d.decoder
    BY <1>6 DEF Found
  <2>6. \/ d.frame = NoFrame /\ ~HeardFrame(f, s) /\ DecoderAt(f, s + 1, d.decoder)
        \/ /\ d.frame = FrameAs(s, d.bytes, MainData(f, s)) /\ StepFrom(f)[s] > 0
           /\ Kind(f, s) = "frame" => HeardFrame(f, s) /\ DecoderAt(f, s + 1, d.decoder)
    BY <1>6 DEF Found
  <2> QED BY <1>6, <2>1, <2>2, <2>3, <2>4, <2>5, <2>6 DEF DecodedTo
<1>7. CASE InStepAt(f, k)
  <2>1. d = DecodedFrame(f, k, dec.reserv, Size(f, k))
    BY <1>3, <1>5, <1>7 DEF Decoded
  <2>2. IsFrame(f, k) /\ InSync(f, k)
    BY <1>7 DEF InStepAt, InSync
  <2>3. Enough(f, k, dec.reserv, MainTo(f, k))
    BY <2>2 DEF DecoderAt
  <2>4. Found(f, k, Size(f, k), d)
    BY <1>3, <1>7, <2>1, <2>2, <2>3, FrameDecoded
  <2>5. DecodedTo(f, k, k + 1, d)
    <3>1. k \in k..(TagsFrom(f) - 1) /\ \A j \in k..(k - 1) : StepFrom(f)[j] = 0
      BY <1>2
    <3> QED BY <1>3, <1>6, <2>2, <2>4, <3>1
  <2>6. d.bytes <= n
    <3>1. InStep(f, p, n) /\ d.bytes = Size(f, k)
      BY <1>5, <1>7, <2>4 DEF Found
    <3> QED BY <1>3, <1>4, <3>1, Constants DEF InStep
  <2> QED BY <1>2, <2>5, <2>6
<1>8. CASE ~InStepAt(f, k)
  <2>0. d = IF Syncs(f, p, n) = {}
            THEN [bytes |-> n, decoder |-> [sync |-> FALSE, reserv |-> <<>>], frame |-> NoFrame]
            ELSE DecodedFrame(f, Min(Syncs(f, p, n)), <<>>, End(f, Min(Syncs(f, p, n))) - p)
    BY <1>5, <1>8 DEF Decoded
  <2>1. CASE C = {}
    <3>1. Syncs(f, p, n) = {} /\ p + n = AudioEnd(f)
      BY <1>2, <1>8, <2>1, SyncsAre
    <3>2. d = [bytes |-> n, decoder |-> [sync |-> FALSE, reserv |-> <<>>], frame |-> NoFrame]
      BY <2>0, <3>1
    <3> DEFINE t == TagsFrom(f)
    <3>3. t \in k..t /\ \A j \in k..(t - 1) : ~(IsFrame(f, j) /\ Chained(f, j))
      BY <1>1, <1>2, <2>1 DEF ChainedFrom
    <3>4. \A j \in k..(t - 1) : StepFrom(f)[j] = 0
      BY <1>8, <3>3, Silent
    <3>5. \A j \in k..(t - 1) : ~HeardFrame(f, j)
      BY <3>4 DEF HeardFrame
    <3>6. t - 1 \in k..(t - 1) /\ t \in (k + 1)..t /\ AtItem(f, t) /\ \A j \in k..(t - 2) : j \in k..(t - 1)
      BY <1>1, <1>2 DEF AtItem
    <3>7. ~InSync(f, t)
      BY <3>4, <3>6 DEF InSync
    <3>8. /\ d.bytes = n /\ d.frame = NoFrame /\ DecoderAt(f, t, d.decoder)
          /\ "sync" \in DOMAIN d.decoder
      <4>1. /\ d.bytes = n /\ d.frame = NoFrame /\ d.decoder.sync = FALSE
            /\ d.decoder = [sync |-> FALSE, reserv |-> <<>>]
        BY <3>2
      <4> HIDE DEF t
      <4> QED BY <3>7, <4>1 DEF DecoderAt
    <3>9. ~(Told(f) /\ k = First(f))
      <4>1. StepFrom(f)[k] = 0
        BY <1>1, <1>2, <3>4
      <4> QED BY <4>1 DEF Told
    <3>10. Begin(f, k) + d.bytes = Begin(f, t) /\ d.bytes \in Nat
      BY <1>1, <1>4, <3>1, <3>8
    <3> HIDE DEF t
    <3>11. DecodedTo(f, k, t, d)
      BY <3>5, <3>6, <3>8, <3>9, <3>10 DEF DecodedTo, t
    <3>12. d.bytes <= n
      BY <1>4, <3>8
    <3> QED BY <3>6, <3>11, <3>12 DEF t
  <2>2. CASE C # {}
    <3> DEFINE s == Min(C)
    <3>1. Syncs(f, p, n) # {} /\ Min(Syncs(f, p, n)) = s /\ End(f, s) <= p + n
      BY <1>2, <1>8, <2>2, SyncsAre
    <3>2. s \in C /\ \A y \in C : s <= y
      <4>1. C \in SUBSET Nat
        BY <1>2 DEF ChainedFrom
      <4>2. PICK x \in C : TRUE
        BY <2>2
      <4> HIDE DEF C
      <4> QED BY <4>1, <4>2, LeastOf
    <3>3. d = DecodedFrame(f, s, <<>>, End(f, s) - p)
      BY <2>0, <3>1
    <3>4. s \in k..(TagsFrom(f) - 1) /\ IsFrame(f, s) /\ Chained(f, s)
      BY <3>2 DEF ChainedFrom
    <3> HIDE DEF s
    <3>5. ASSUME NEW j \in k..(s - 1) PROVE ~(IsFrame(f, j) /\ Chained(f, j))
      <4>1. j \in k..(TagsFrom(f) - 1) /\ j < s
        BY <1>2, <3>4
      <4>2. j \notin C
        BY <1>2, <3>2, <3>4, <4>1
      <4> QED BY <4>1, <4>2 DEF ChainedFrom
    <3>6. \A j \in k..(s - 1) : StepFrom(f)[j] = 0
      <4>1. s \in k..TagsFrom(f)
        BY <1>2, <3>4
      <4> QED BY <1>8, <3>5, <4>1, Silent
    <3>7. ~InStepAt(f, s)
      <4>1. CASE s = k
        BY <1>8, <4>1
      <4>2. CASE s # k
        <5>1. s - 1 \in k..(s - 1)
          BY <1>2, <3>4, <4>2
        <5> QED BY <3>6, <5>1 DEF InStepAt
      <4> QED BY <4>1, <4>2
    <3> DEFINE c == End(f, s) - p
    <3>8. c \in Nat /\ p + c = Begin(f, s + 1) /\ c <= n
      <4>1. s \in 1..(TagsFrom(f) - 1)
        BY <1>2, <3>4
      <4>2. /\ End(f, s) = Begin(f, s + 1) /\ End(f, s) = Begin(f, s) + Size(f, s) /\ s \in Places(f)
            /\ Begin(f, s) \in Nat /\ Size(f, s) \in Nat
        BY <4>1, ItemIs
      <4>3. p <= Begin(f, s)
        <5>1. CASE s = k
          BY <1>3, <5>1
        <5>2. CASE s # k
          <6>1. k < s /\ k \in Places(f)
            BY <1>1, <1>2, <3>4, <5>2 DEF Places
          <6>2. Begin(f, k) < Begin(f, s)
            BY <1>1, <4>2, <6>1, BeginIs
          <6> QED BY <1>3, <4>2, <6>2
        <5> QED BY <5>1, <5>2
      <4> QED BY <1>3, <1>4, <3>1, <4>2, <4>3
    <3>9. Found(f, s, c, d)
      <4> HIDE DEF c
      <4>1. d = DecodedFrame(f, s, <<>>, c)
        BY <3>3 DEF c
      <4> QED BY <3>4, <3>7, <3>8, <4>1, FrameDecoded
    <3>10. DecodedTo(f, k, s + 1, d)
      <4> HIDE DEF c
      <4> QED BY <1>6, <3>4, <3>6, <3>8, <3>9
    <3>11. d.bytes <= n /\ s + 1 \in (k + 1)..TagsFrom(f)
      BY <1>2, <3>4, <3>8, <3>9 DEF Found
    <3> QED BY <3>10, <3>11
  <2> QED BY <2>1, <2>2
<1> QED BY <1>7, <1>8

(***************************************************************************)
(* The samples of the file, and how many of them the items before the k-th *)
(* hold.                                                                   *)
(***************************************************************************)
SampleSet(f) == {<<k, MainData(f, k), j>> : k \in 1..Count(f), j \in 1..PerFrame}
SamplesOf(f) == [k \in 1..Count(f) |-> FrameSamples(f, k)]
Gathered(f) == CHOOSE g : Joins(g, SampleSet(f), SamplesOf(f))
Heard(f, k) == Len(Gathered(f)[k - 1])

\* The samples of the file, gathered item by item.
LEMMA GatheredIs ==
  ASSUME Mp3Assumption, NEW f \in Streams
  PROVE  /\ Count(f) \in Nat /\ Count(f) >= 1
         /\ Gathered(f) \in [0..Count(f) -> Seq(SampleSet(f))]
         /\ Gathered(f)[0] = <<>> /\ Gathered(f)[Count(f)] = AllSamples(f)
         /\ \A k \in 1..Count(f) : /\ FrameSamples(f, k) \in Seq(SampleSet(f))
                                   /\ Gathered(f)[k] = Gathered(f)[k - 1] \o FrameSamples(f, k)
<1> DEFINE n == Count(f)
           T == SampleSet(f)
<1>1. n \in Nat /\ n >= 1
  BY StreamIs, ItemsAre
<1>2. ASSUME NEW k \in 1..n PROVE FrameSamples(f, k) \in Seq(T)
  <2>1. CASE HeardFrame(f, k)
    <3>1. FrameSamples(f, k) = [j \in 1..PerFrame |-> <<k, MainData(f, k), j>>]
      BY <2>1 DEF FrameSamples
    <3>2. \A j \in 1..PerFrame : <<k, MainData(f, k), j>> \in T
      BY DEF SampleSet
    <3> HIDE DEF T
    <3>3. FrameSamples(f, k) \in [1..PerFrame -> T]
      BY <3>1, <3>2
    <3> QED BY <3>3, AsSequence, Constants
  <2>2. CASE ~HeardFrame(f, k)
    BY <2>2 DEF FrameSamples
  <2> QED BY <2>1, <2>2
<1> HIDE DEF T
<1>3. SamplesOf(f) \in Seq(Seq(T)) /\ Len(SamplesOf(f)) = n
  <2>1. SamplesOf(f) \in [1..n -> Seq(T)]
    BY <1>2 DEF SamplesOf
  <2> QED BY <1>1, <2>1, AsSequence
<1>4. \E g : Joins(g, T, SamplesOf(f))
  BY <1>3, FlattenParts
<1>5. Joins(Gathered(f), T, SamplesOf(f))
  BY <1>4 DEF Gathered, T
<1>6. AllSamples(f) = FlattenSeq(SamplesOf(f))
  BY DEF AllSamples, SamplesOf, Count
<1>7. \A k \in 1..n : SamplesOf(f)[k] = FrameSamples(f, k)
  BY DEF SamplesOf
<1> QED BY <1>1, <1>2, <1>3, <1>5, <1>6, <1>7 DEF Joins, T

Begins(s, t) == Len(s) <= Len(t) /\ \A x \in 1..Len(s) : t[x] = s[x]

\* What the first items hold begins what all hold.
LEMMA GatheredBegins ==
  ASSUME Mp3Assumption, NEW f \in Streams
  PROVE  \A k \in 0..Count(f) : Begins(Gathered(f)[k], AllSamples(f))
<1> DEFINE n == Count(f)
           g == Gathered(f)
           T == SampleSet(f)
           Good == {m \in 0..n : \A k \in 0..m : Begins(g[k], g[m])}
<1>1. /\ n \in Nat /\ g \in [0..n -> Seq(T)] /\ g[0] = <<>> /\ g[n] = AllSamples(f)
      /\ \A k \in 1..n : FrameSamples(f, k) \in Seq(T) /\ g[k] = g[k - 1] \o FrameSamples(f, k)
  BY GatheredIs
<1> HIDE DEF n, g, T
<1>2. 0 \in Good
  <2>1. \A k \in 0..0 : k = 0
    OBVIOUS
  <2>2. Begins(g[0], g[0])
    BY <1>1 DEF Begins
  <2> QED BY <1>1, <2>1, <2>2
<1>3. ASSUME NEW m \in 0..(n - 1), m \in Good PROVE m + 1 \in Good
  <2>1. m + 1 \in 1..n /\ m + 1 \in 0..n /\ (m + 1) - 1 = m /\ m \in 0..n
    BY <1>1
  <2>2. g[m + 1] = g[m] \o FrameSamples(f, m + 1) /\ g[m] \in Seq(T) /\ FrameSamples(f, m + 1) \in Seq(T)
    BY <1>1, <2>1
  <2>3. /\ g[m + 1] \in Seq(T) /\ Len(g[m + 1]) = Len(g[m]) + Len(FrameSamples(f, m + 1))
        /\ \A x \in 1..Len(g[m]) : g[m + 1][x] = g[m][x]
        /\ Len(g[m]) \in Nat /\ Len(FrameSamples(f, m + 1)) \in Nat
    <3> DEFINE a == g[m]
               b == FrameSamples(f, m + 1)
               c == g[m + 1]
    <3>1. c = a \o b /\ a \in Seq(T) /\ b \in Seq(T)
      BY <2>2
    <3> HIDE DEF a, b, c
    <3>2. /\ c \in Seq(T) /\ Len(c) = Len(a) + Len(b) /\ \A x \in 1..Len(a) : c[x] = a[x]
          /\ Len(a) \in Nat /\ Len(b) \in Nat
      BY <3>1, ConcatOf
    <3> QED BY <3>2 DEF a, b, c
  <2>4. ASSUME NEW k \in 0..(m + 1) PROVE Begins(g[k], g[m + 1])
    <3>1. CASE k = m + 1
      <4>1. Len(g[m + 1]) <= Len(g[m + 1])
        BY <2>3
      <4> QED BY <3>1, <4>1 DEF Begins
    <3>2. CASE k # m + 1
      <4>1. k \in 0..m /\ k \in 0..n
        BY <1>1, <3>2
      <4>2. Begins(g[k], g[m])
        BY <1>3, <4>1
      <4>3. Len(g[k]) \in Nat /\ Len(g[k]) <= Len(g[m]) /\ \A x \in 1..Len(g[k]) : g[m][x] = g[k][x]
        BY <1>1, <4>1, <4>2 DEF Begins
      <4>4. \A x \in 1..Len(g[k]) : x \in 1..Len(g[m])
        BY <2>3, <4>3
      <4>5. Len(g[k]) <= Len(g[m + 1])
        <5> DEFINE x == Len(g[k])
                   y == Len(g[m])
                   z == Len(FrameSamples(f, m + 1))
        <5>1. x \in Nat /\ y \in Nat /\ z \in Nat /\ x <= y /\ Len(g[m + 1]) = y + z
          BY <2>3, <4>3
        <5> HIDE DEF x, y, z
        <5>2. x <= Len(g[m + 1])
          BY <5>1
        <5> QED BY <5>2 DEF x
      <4> QED BY <2>3, <4>3, <4>4, <4>5 DEF Begins
    <3> QED BY <3>1, <3>2
  <2> QED BY <2>1, <2>4
<1>4. \A m \in 0..n : m \in Good
  <2> HIDE DEF Good
  <2> QED BY <1>1, <1>2, <1>3, IntervalInduction
<1>5. n \in Good
  BY <1>1, <1>4
<1> QED BY <1>1, <1>5 DEF g, n

\* Nothing before the first item, everything before the end.
LEMMA HeardIs ==
  ASSUME Mp3Assumption, NEW f \in Streams
  PROVE  /\ AllSamples(f) \in Seq(SampleSet(f))
         /\ Heard(f, 1) = 0 /\ Heard(f, Count(f) + 1) = Len(AllSamples(f))
         /\ \A k \in Places(f) : Heard(f, k) \in 0..Len(AllSamples(f))
<1>1. /\ Count(f) \in Nat /\ Gathered(f) \in [0..Count(f) -> Seq(SampleSet(f))]
      /\ Gathered(f)[0] = <<>> /\ Gathered(f)[Count(f)] = AllSamples(f)
  BY GatheredIs
<1>2. AllSamples(f) \in Seq(SampleSet(f))
  <2>1. Count(f) \in 0..Count(f)
    BY <1>1
  <2> QED BY <1>1, <2>1
<1>3. Heard(f, 1) = 0
  <2>1. 1 - 1 = 0 /\ Len(<<>>) = 0
    OBVIOUS
  <2> QED BY <1>1, <2>1 DEF Heard
<1>4. Heard(f, Count(f) + 1) = Len(AllSamples(f))
  <2>1. (Count(f) + 1) - 1 = Count(f)
    BY <1>1
  <2> QED BY <1>1, <2>1 DEF Heard
<1>5. ASSUME NEW k \in Places(f) PROVE Heard(f, k) \in 0..Len(AllSamples(f))
  <2>1. k - 1 \in 0..Count(f)
    BY <1>1 DEF Places
  <2>2. Gathered(f)[k - 1] \in Seq(SampleSet(f)) /\ Begins(Gathered(f)[k - 1], AllSamples(f))
    BY <1>1, <2>1, GatheredBegins
  <2>3. Heard(f, k) \in Nat /\ Heard(f, k) <= Len(AllSamples(f)) /\ Len(AllSamples(f)) \in Nat
    BY <1>2, <2>2 DEF Heard, Begins
  <2> QED BY <2>3
<1> QED BY <1>2, <1>3, <1>4, <1>5

\* A frame that is heard adds its samples, any other item none.
LEMMA HeardGrows ==
  ASSUME Mp3Assumption, NEW f \in Streams, NEW k \in 1..Count(f)
  PROVE  /\ ~HeardFrame(f, k) => Heard(f, k + 1) = Heard(f, k)
         /\ HeardFrame(f, k) =>
              /\ Heard(f, k + 1) = Heard(f, k) + PerFrame
              /\ \A j \in 1..PerFrame : AllSamples(f)[Heard(f, k) + j] = <<k, MainData(f, k), j>>
<1> DEFINE g == Gathered(f)
           T == SampleSet(f)
           a == g[k - 1]
           b == FrameSamples(f, k)
<1>1. k - 1 \in 0..Count(f) /\ k \in 0..Count(f) /\ Count(f) \in Nat
  BY GatheredIs
<1>2. a \in Seq(T) /\ b \in Seq(T) /\ g[k] = a \o b
  BY <1>1, GatheredIs
<1>3. Heard(f, k) = Len(a) /\ Heard(f, k + 1) = Len(g[k])
  <2>1. (k + 1) - 1 = k
    OBVIOUS
  <2> QED BY <2>1 DEF Heard
<1>4. Begins(g[k], AllSamples(f))
  BY <1>1, GatheredBegins
<1> HIDE DEF g, T, a, b
<1>5. /\ Len(g[k]) = Len(a) + Len(b) /\ Len(a) \in Nat /\ Len(b) \in Nat
      /\ \A i \in 1..Len(b) : g[k][Len(a) + i] = b[i]
  BY <1>2, ConcatOf
<1>6. CASE ~HeardFrame(f, k)
  <2>1. Len(b) = 0
    BY <1>6 DEF FrameSamples, b
  <2> QED BY <1>3, <1>5, <1>6, <2>1
<1>7. CASE HeardFrame(f, k)
  <2>1. b = [j \in 1..PerFrame |-> <<k, MainData(f, k), j>>]
    BY <1>7 DEF FrameSamples, b
  <2>2. Len(b) = PerFrame /\ \A j \in 1..PerFrame : b[j] = <<k, MainData(f, k), j>>
    BY <2>1, Constants
  <2>3. ASSUME NEW j \in 1..PerFrame
        PROVE  AllSamples(f)[Heard(f, k) + j] = <<k, MainData(f, k), j>>
    <3>1. Len(a) + j \in 1..Len(g[k])
      BY <1>5, <2>2, Constants
    <3>2. AllSamples(f)[Len(a) + j] = g[k][Len(a) + j]
      BY <1>4, <3>1 DEF Begins
    <3> QED BY <1>3, <1>5, <2>2, <3>2
  <2> QED BY <1>3, <1>5, <1>7, <2>2, <2>3
<1> QED BY <1>6, <1>7

\* Nothing is added where no frame is heard.
LEMMA HeardSame ==
  ASSUME Mp3Assumption, NEW f \in Streams, NEW k \in Places(f), NEW m \in k..(Count(f) + 1),
         \A j \in k..(m - 1) : ~HeardFrame(f, j)
  PROVE  Heard(f, m) = Heard(f, k)
<1> DEFINE n == m - k
           Good == {i \in 0..n : Heard(f, k + i) = Heard(f, k)}
<1>1. Count(f) \in Nat /\ n \in Nat /\ k \in Nat /\ k >= 1 /\ m \in Nat
  BY GatheredIs DEF Places
<1>2. 0 \in Good
  <2>1. k + 0 = k
    BY <1>1
  <2> QED BY <1>1, <2>1
<1>3. ASSUME NEW i \in 0..(n - 1), i \in Good PROVE i + 1 \in Good
  <2>1. i + 1 \in 0..n /\ k + i \in 1..Count(f) /\ k + i \in k..(m - 1) /\ (k + i) + 1 = k + (i + 1)
    BY <1>1
  <2>2. Heard(f, (k + i) + 1) = Heard(f, k + i)
    BY <2>1, HeardGrows
  <2> QED BY <1>3, <2>1, <2>2
<1>4. \A i \in 0..n : i \in Good
  <2> HIDE DEF Good, n
  <2> QED BY <1>1, <1>2, <1>3, IntervalInduction
<1>5. n \in 0..n /\ k + n = m
  BY <1>1
<1> QED BY <1>4, <1>5

(***************************************************************************)
(* Parts of a sequence from behind the d-th element.                       *)
(***************************************************************************)
LEMMA NothingBehind ==
  ASSUME NEW T, NEW s \in Seq(T), NEW d \in Nat, NEW b \in Nat, b <= d
  PROVE  SubSeq(s, d + 1, b) = <<>>
OBVIOUS

\* \o and SubSeq under names that the provers do not look into.
Part(s, d, b) == SubSeq(s, d + 1, b)
Continues(s, t, d, b, e) ==
  d <= b /\ e = b + Len(t) /\ e <= Len(s) /\ \A i \in 1..Len(t) : t[i] = s[b + i]

\* A part continued by the elements that follow it.
LEMMA PartContinued ==
  ASSUME NEW T, NEW s \in Seq(T), NEW t \in Seq(T), NEW d \in Nat, NEW b \in Nat, NEW e,
         Continues(s, t, d, b, e)
  PROVE  Cat(Part(s, d, b), t) = Part(s, d, e)
<1> DEFINE n == Len(t)
           x == SubSeq(s, d + 1, b)
           y == SubSeq(s, d + 1, b + n)
<1>0. /\ n \in Nat /\ e = b + n /\ d <= b /\ b + n <= Len(s)
      /\ \A i \in 1..n : t[i] = s[b + i]
  BY DEF Continues
<1> HIDE DEF n
<1>1. x \in Seq(T) /\ Len(x) = b - d /\ \A i \in 1..(b - d) : x[i] = s[d + i]
  BY <1>0
<1>2. y \in Seq(T) /\ Len(y) = (b + n) - d /\ \A i \in 1..((b + n) - d) : y[i] = s[d + i]
  BY <1>0
<1> HIDE DEF x, y
<1>3. Len(y) = Len(x) + Len(t)
  BY <1>0, <1>1, <1>2 DEF n
<1>4. \A i \in 1..Len(x) : y[i] = x[i]
  BY <1>0, <1>1, <1>2
<1>5. ASSUME NEW i \in 1..Len(t) PROVE y[Len(x) + i] = t[i]
  <2>1. Len(x) + i \in 1..((b + n) - d) /\ d + (Len(x) + i) = b + i /\ i \in 1..n
    BY <1>0, <1>1 DEF n
  <2> QED BY <1>0, <1>2, <2>1
<1>6. x \o t = y
  BY <1>1, <1>2, <1>3, <1>4, <1>5, JoinIs
<1> QED BY <1>0, <1>6 DEF Cat, Part, x, y

(***************************************************************************)
(* The delay and the padding, and the sound without them.                  *)
(***************************************************************************)
LEMMA TagIs ==
  ASSUME Mp3Assumption, NEW f \in Streams
  PROVE  /\ TagOf(f).delay \in Nat /\ TagOf(f).padding \in Nat /\ TagOf(f).total \in Nat \cup {None}
         /\ EndsWith(TagOf(f)) => SoundEnd(TagOf(f)) \in Nat
<1> DEFINE x == f.items[First(f)]
           t == TagOf(f)
<1>1. t.delay \in Nat /\ t.padding \in Nat /\ t.total \in Nat \cup {None}
  <2>1. CASE Told(f)
    <3>1. Kind(f, First(f)) = "xing" /\ IsFrame(f, First(f))
      BY <2>1 DEF Told, IsFrame
    <3>2. x.delay \in Nat /\ x.padding \in Nat /\ x.count \in Nat \cup {None}
      BY <3>1, StreamIs DEF FrameOf
    <3>3. t = [delay |-> x.delay, padding |-> x.padding,
               total |-> IF x.count = None THEN None ELSE x.count * PerFrame]
      BY <2>1 DEF TagOf
    <3>4. x.count \in Nat => x.count * PerFrame \in Nat
      BY Constants
    <3> HIDE DEF x, t
    <3> QED BY <3>2, <3>3, <3>4
  <2>2. CASE ~Told(f)
    BY <2>2 DEF TagOf, NoTag
  <2> QED BY <2>1, <2>2
<1> HIDE DEF t
<1>2. EndsWith(t) => SoundEnd(t) \in Nat
  BY <1>1 DEF EndsWith, SoundEnd
<1> QED BY <1>1, <1>2 DEF t

\* The samples up to the end, or up to the padding, are the sound.
LEMMA SoundDone ==
  ASSUME Mp3Assumption, NEW f \in Streams, NEW t, t = TagOf(f), NEW c \in 0..Len(AllSamples(f)),
         EndsWith(t) => c <= SoundEnd(t) \/ c <= t.delay,
         c = Len(AllSamples(f)) \/ (EndsWith(t) /\ c >= SoundEnd(t))
  PROVE  SubSeq(AllSamples(f), t.delay + 1, c) = Sound(f)
<1> DEFINE all == AllSamples(f)
           last == IF EndsWith(t) THEN Least(Len(all), SoundEnd(t)) ELSE Len(all)
<1>1. all \in Seq(SampleSet(f)) /\ Len(all) \in Nat
  BY HeardIs
<1>2. t.delay \in Nat /\ (EndsWith(t) => SoundEnd(t) \in Nat)
  BY TagIs
<1>3. Sound(f) = SubSeq(all, t.delay + 1, last)
  BY DEF Sound
<1>4. c \in Nat /\ c <= Len(all)
  BY <1>1
<1> HIDE DEF all
<1>5. CASE ~EndsWith(t)
  BY <1>3, <1>5 DEF all
<1>6. CASE EndsWith(t)
  <2> DEFINE e == SoundEnd(t)
  <2>1. e \in Nat /\ last = Least(Len(all), e) /\ (c <= e \/ c <= t.delay) /\ (c = Len(all) \/ c >= e)
    BY <1>2, <1>6 DEF all
  <2> HIDE DEF e, last
  <2>2. CASE c <= e
    <3>1. last = c
      BY <1>1, <1>4, <2>1, <2>2 DEF Least
    <3> QED BY <1>3, <3>1 DEF all
  <2>3. CASE ~(c <= e)
    <3>1. last = e /\ c <= t.delay /\ e <= t.delay
      BY <1>1, <1>2, <1>4, <2>1, <2>3 DEF Least
    <3>2. SubSeq(all, t.delay + 1, e) = <<>> /\ SubSeq(all, t.delay + 1, c) = <<>>
      BY <1>1, <1>2, <1>4, <2>1, <3>1, NothingBehind
    <3> QED BY <1>3, <3>1, <3>2 DEF all
  <2> QED BY <2>2, <2>3
<1> QED BY <1>5, <1>6

(***************************************************************************)
(* The inductive invariant: the window begins at an item and reaches no    *)
(* tag, the decoder knows the frames in step before it, and what was read  *)
(* are the samples up to the current one.                                  *)
(***************************************************************************)
InWindow(k) ==
  /\ AtItem(file, k) /\ filePos \in Nat /\ size \in Nat
  /\ filePos = Begin(file, k) + size /\ filePos <= AudioEnd(file)
  /\ stream \in [cursor : Nat, length : Nat, start : Nat] /\ stream.length = AudioEnd(file)
  /\ stream.cursor <= filePos /\ (stream.cursor = filePos \/ AudioEnd(file) = Length(file))

Fresh == frame = NoFrame /\ tag = NoTag /\ current = 0 /\ temp = <<>> /\ out = <<>>

SearchingAt(k) ==
  /\ InWindow(k) /\ stream.start = Begin(file, First(file)) /\ DecoderAt(file, k, decoder)
  /\ Told(file) => k = First(file)
  /\ Heard(file, k) = 0
  /\ Fresh

InspectingAt(k) ==
  /\ InWindow(k) /\ "sync" \in DOMAIN decoder
  /\ IsFrame(file, k - 1) /\ StepFrom(file)[k - 1] > 0
  /\ frame.bytes \in Nat /\ stream.start + frame.bytes <= filePos
  /\ frame = FrameAs(k - 1, frame.bytes, MainData(file, k - 1))
  /\ Kind(file, k - 1) = "frame" => HeardFrame(file, k - 1) /\ DecoderAt(file, k, decoder) /\ ~Told(file)
  /\ Heard(file, k - 1) = 0
  /\ tag = NoTag /\ current = 0 /\ temp = <<>> /\ out = <<>>

Holding(k) ==
  /\ frame = [item |-> frame.item, bytes |-> frame.bytes, main |-> frame.main,
              used |-> frame.used, rest |-> frame.rest]
  /\ frame.used \in Nat /\ frame.rest \in Nat /\ current \in Nat
  /\ current + frame.rest = Heard(file, k)
  /\ \A j \in 1..frame.rest :
       AllSamples(file)[current + j] = <<frame.item, frame.main, frame.used + j>>

Collected ==
  /\ out \in Seq(SampleSet(file)) /\ temp \in Seq(SampleSet(file))
  /\ out \o temp = SubSeq(AllSamples(file), tag.delay + 1, current)
  /\ EndsWith(tag) => current <= SoundEnd(tag) \/ current <= tag.delay
  /\ ask \in [want : Nat, raw : Nat] /\ Len(temp) + ask.want = Buffered

Finished(k) ==
  \/ k = TagsFrom(file) /\ frame.rest = 0
  \/ EndsWith(tag) /\ current >= SoundEnd(tag)

ReadingAt(k) ==
  /\ InWindow(k) /\ k > First(file) /\ DecoderAt(file, k, decoder) /\ tag = TagOf(file)
  /\ Holding(k) /\ Collected
  /\ stage = "next" => frame.rest = 0
  /\ stage = "append" => Len(temp) = Buffered \/ Finished(k)

Mp3Inv ==
  /\ stage \in {"closed", "tags", "first", "xing", "read", "next", "append", "close", "loaded", "failed"}
  /\ stage # "closed" => file \in Streams
  /\ stage \in {"closed", "tags"} => Fresh /\ size = 0 /\ decoder = [sync |-> FALSE, reserv |-> <<>>]
  /\ stage = "first" => \E k : SearchingAt(k)
  /\ stage = "xing" => \E k : InspectingAt(k)
  /\ stage \in {"read", "next", "append"} => \E k : ReadingAt(k)
  /\ stage \in {"xing", "read", "next", "append"} => "data" \in live
  /\ stage \in {"close", "loaded"} => (out = <<>> \/ out = Sound(file)) /\ filePos <= AudioEnd(file)

(***************************************************************************)
(* Topping the window up.                                                  *)
(***************************************************************************)
LEMMA WindowTopped ==
  ASSUME Mp3Assumption, file \in Streams, NEW k, InWindow(k),
         NEW got, got = IF size < MinChunk THEN Clamped ELSE 0, NEW n, n = size + got
  PROVE  /\ got \in Nat /\ n \in Nat /\ filePos + got = Begin(file, k) + n /\ filePos + got <= AudioEnd(file)
         /\ n = 0 => got = 0 /\ k = TagsFrom(file)
         /\ n # 0 => k \in First(file)..(TagsFrom(file) - 1) /\ WindowAt(file, k, n)
<1> DEFINE b == Begin(file, k)
           e == AudioEnd(file)
           t == TagsFrom(file)
<1>1. /\ LaidOut(file) /\ Ordered(file) /\ First(file) \in {1, 2}
      /\ t \in First(file)..(Count(file) + 1) /\ Count(file) \in Nat /\ e = Begin(file, t)
      /\ Length(file) \in Nat /\ Length(file) = Begin(file, Count(file) + 1)
  BY StreamIs, AudioIs, ItemsAre
<1>2. k \in First(file)..t /\ k \in Places(file) /\ t \in Places(file) /\ Count(file) + 1 \in Places(file)
  BY <1>1 DEF InWindow, AtItem, Places
<1>3. b \in Nat /\ e \in Nat /\ e <= Length(file)
  <2>1. b \in Nat /\ e \in Nat
    BY <1>1, <1>2, BeginIs
  <2>2. t = Count(file) + 1 \/ t < Count(file) + 1
    BY <1>1
  <2>3. t < Count(file) + 1 => e < Length(file)
    BY <1>1, <1>2, BeginIs
  <2> QED BY <1>1, <2>1, <2>2, <2>3
<1>4. k # t => k < t /\ b < e
  <2>1. k # t => k < t
    BY <1>1, <1>2
  <2> QED BY <1>1, <1>2, <2>1, BeginIs
<1>5. /\ filePos \in Nat /\ size \in Nat /\ filePos = b + size /\ filePos <= e
      /\ stream.cursor \in Nat /\ stream.length = e
      /\ stream.cursor <= filePos /\ (stream.cursor = filePos \/ e = Length(file))
  BY DEF InWindow
<1>6. MinChunk \in Nat /\ MinChunk >= 1 /\ Chunk \in Nat /\ MinChunk <= Chunk
  BY Constants
<1> HIDE DEF b, e, t
<1>7. size < MinChunk => Clamped = Least(Chunk - size, e - filePos)
  <2> DEFINE a == Chunk - size
             c == stream.cursor
             z == Length(file)
  <2>1. Clamped = Least(Least(a, e - c), z - filePos)
    BY <1>5 DEF Clamped
  <2>2. a \in Int /\ c \in Nat /\ z \in Nat /\ filePos \in Nat /\ c <= filePos /\ (c = filePos \/ e = z) /\ e <= z
    BY <1>1, <1>3, <1>5, <1>6
  <2> HIDE DEF a, c, z
  <2>3. Least(Least(a, e - c), z - filePos) = Least(a, e - filePos)
    BY <1>3, <2>2 DEF Least
  <2> QED BY <2>1, <2>3 DEF a
<1>8. /\ got \in Nat /\ n = size + got /\ n \in Nat /\ filePos + got <= e
      /\ n >= MinChunk \/ filePos + got = e
  BY <1>3, <1>5, <1>6, <1>7 DEF Least
<1>9. filePos + got = b + n
  BY <1>3, <1>5, <1>8
<1>10. n = 0 => k = t
  <2>1. n = 0 => b + n = e
    BY <1>3, <1>5, <1>6, <1>8, <1>9
  <2> QED BY <1>3, <1>4, <2>1
<1>11. n # 0 => k # t
  <2>1. k = t => b = e
    BY <1>1 DEF b
  <2> QED BY <1>3, <1>8, <1>9, <2>1
<1>12. n # 0 => k \in First(file)..(t - 1)
  BY <1>1, <1>2, <1>4, <1>11
<1>13. n # 0 => WindowAt(file, k, n)
  BY <1>3, <1>8, <1>9 DEF WindowAt, b, e
<1> QED BY <1>5, <1>8, <1>9, <1>10, <1>12, <1>13 DEF b, e, t

\* After a round, at the item the decoder ended at.
LEMMA WindowMoved ==
  ASSUME Mp3Assumption, file \in Streams, NEW k, InWindow(k),
         NEW got \in Nat, NEW n \in Nat, filePos + got = Begin(file, k) + n, filePos + got <= AudioEnd(file),
         NEW m, AtItem(file, m), NEW bytes \in Nat, bytes <= n, Begin(file, k) + bytes = Begin(file, m),
         file' = file, filePos' = filePos + got, stream' = [stream EXCEPT !.cursor = @ + got], size' = n - bytes
  PROVE  InWindow(m)' /\ stream'.start = stream.start
<1>1. /\ filePos \in Nat /\ size \in Nat /\ stream \in [cursor : Nat, length : Nat, start : Nat]
      /\ stream.length = AudioEnd(file) /\ stream.cursor <= filePos
      /\ (stream.cursor = filePos \/ AudioEnd(file) = Length(file))
  BY DEF InWindow
<1>2. /\ stream' \in [cursor : Nat, length : Nat, start : Nat] /\ stream'.length = AudioEnd(file)
      /\ stream'.cursor = stream.cursor + got /\ stream'.start = stream.start
  BY <1>1
<1>3. stream'.cursor <= filePos' /\ (stream'.cursor = filePos' \/ AudioEnd(file) = Length(file))
  BY <1>1, <1>2
<1>4. filePos' = Begin(file, m) + size' /\ filePos' \in Nat /\ size' \in Nat
  <2>1. Begin(file, k) \in Nat
    <3>1. /\ LaidOut(file) /\ First(file) \in {1, 2}
          /\ TagsFrom(file) \in First(file)..(Count(file) + 1) /\ Count(file) \in Nat
      BY StreamIs, AudioIs, ItemsAre
    <3>2. k \in Places(file)
      BY <3>1 DEF InWindow, AtItem, Places
    <3> QED BY <3>1, <3>2, BeginIs
  <2> QED BY <1>1, <2>1
<1> QED BY <1>2, <1>3, <1>4 DEF InWindow

\* The samples before the item the decoder ended at.
LEMMA HeardMoved ==
  ASSUME Mp3Assumption, NEW f \in Streams, NEW k \in First(f)..(TagsFrom(f) - 1),
         NEW m \in (k + 1)..TagsFrom(f), NEW d, DecodedTo(f, k, m, d)
  PROVE  /\ Heard(f, m - 1) = Heard(f, k)
         /\ ~HeardFrame(f, m - 1) => Heard(f, m) = Heard(f, k)
         /\ HeardFrame(f, m - 1) =>
              /\ Heard(f, m) = Heard(f, k) + PerFrame
              /\ \A j \in 1..PerFrame : AllSamples(f)[Heard(f, k) + j] = <<m - 1, MainData(f, m - 1), j>>
<1>1. /\ First(f) \in {1, 2} /\ TagsFrom(f) \in First(f)..(Count(f) + 1) /\ Count(f) \in Nat
  BY StreamIs, AudioIs, ItemsAre
<1>2. /\ k \in Places(f) /\ m - 1 \in k..(Count(f) + 1) /\ m - 1 \in 1..Count(f) /\ (m - 1) + 1 = m
      /\ (m - 1) - 1 = m - 2
  BY <1>1 DEF Places
<1>3. \A j \in k..((m - 1) - 1) : ~HeardFrame(f, j)
  BY <1>2 DEF DecodedTo
<1>4. Heard(f, m - 1) = Heard(f, k)
  BY <1>2, <1>3, HeardSame
<1> QED BY <1>2, <1>4, HeardGrows

(***************************************************************************)
(* The invariant holds at the start, and each action preserves it.         *)
(***************************************************************************)
LEMMA InitInv == Mp3Init => Mp3Inv
BY DEF Mp3Init, Mp3Inv, Fresh

\* drmp3_init_file_with_metadata opens the file.
LEMMA OpenFileInv ==
  ASSUME Mp3Inv, NEW f \in Streams, OpenFile(f)
  PROVE  Mp3Inv'
<1>1. stage = "closed" /\ stage' = "tags" /\ file' \in Streams
  BY DEF OpenFile
<1>2. Fresh /\ size = 0 /\ decoder = [sync |-> FALSE, reserv |-> <<>>]
  BY <1>1 DEF Mp3Inv
<1>3. Fresh' /\ size' = 0 /\ decoder' = [sync |-> FALSE, reserv |-> <<>>]
  BY <1>2 DEF OpenFile, Fresh, inputVars, outputVars
<1> QED BY <1>1, <1>3 DEF Mp3Inv

\* drmp3_init_internal leaves the file behind the first tag, where the audio begins.
LEMMA ReadTagsInv ==
  ASSUME Mp3Assumption, Mp3Inv, ReadTags
  PROVE  Mp3Inv'
<1> DEFINE skipped == IF Kind(file, 1) = "id3v2" THEN Size(file, 1) ELSE 0
<1>0. PICK k : k = First(file)
  OBVIOUS
<1>1. stage = "tags" /\ file \in Streams /\ Fresh /\ size = 0 /\ decoder = [sync |-> FALSE, reserv |-> <<>>]
  BY DEF ReadTags, Mp3Inv
<1>2. /\ stage' = "first" /\ file' = file /\ filePos' = skipped
      /\ stream' = [cursor |-> skipped, length |-> AudioEnd(file), start |-> skipped]
      /\ Fresh' /\ size' = 0 /\ decoder' = [sync |-> FALSE, reserv |-> <<>>]
  BY <1>1 DEF ReadTags, Fresh, outputVars
<1>3. /\ LaidOut(file) /\ Ordered(file) /\ k \in {1, 2} /\ TagsFrom(file) \in k..(Count(file) + 1)
      /\ (Kind(file, 1) = "id3v2" <=> k = 2) /\ Count(file) \in Nat /\ Count(file) >= 1
      /\ Kind(file, k - 1) \notin {"frame", "xing", "junk"} /\ AudioEnd(file) = Begin(file, TagsFrom(file))
  BY <1>0, <1>1, StreamIs, AudioIs, ItemsAre
<1>4. skipped = Begin(file, k)
  <2>1. CASE k = 1
    BY <1>3, <2>1, BeginIs
  <2>2. CASE k = 2
    <3>1. 1 \in 1..Count(file) /\ 1 + 1 = 2
      BY <1>3
    <3>2. Size(file, 1) \in Nat /\ Begin(file, 2) = Begin(file, 1) + Size(file, 1) /\ Begin(file, 1) = 0
      BY <1>3, <3>1, ItemsAre, BeginIs
    <3> QED BY <1>3, <2>2, <3>2
  <2> QED BY <1>3, <2>1, <2>2
<1>5. AtItem(file, k) /\ ~InSync(file, k)
  BY <1>0, <1>3 DEF AtItem, InSync
<1>6. Heard(file, k) = 0
  <2>1. CASE k = 1
    BY <1>1, <2>1, HeardIs
  <2>2. CASE k = 2
    <3>1. ~HeardFrame(file, 1) /\ 1 \in 1..Count(file) /\ 1 + 1 = 2
      BY <1>3, <2>2 DEF HeardFrame
    <3> QED BY <1>1, <2>2, <3>1, HeardGrows, HeardIs
  <2> QED BY <1>3, <2>1, <2>2
<1>7. Begin(file, k) \in Nat /\ AudioEnd(file) \in Nat /\ Begin(file, k) <= AudioEnd(file)
  <2>1. k \in Places(file) /\ TagsFrom(file) \in Places(file) /\ (k = TagsFrom(file) \/ k < TagsFrom(file))
    BY <1>3 DEF Places
  <2>2. Begin(file, k) \in Nat /\ AudioEnd(file) \in Nat
    BY <1>3, <2>1, BeginIs
  <2>3. k < TagsFrom(file) => Begin(file, k) < AudioEnd(file)
    BY <1>3, <2>1, BeginIs
  <2> QED BY <1>3, <2>1, <2>2, <2>3
<1> HIDE DEF skipped
<1>8. InWindow(k)'
  BY <1>2, <1>4, <1>5, <1>7 DEF InWindow
<1>9. DecoderAt(file', k, decoder')
  BY <1>2, <1>5 DEF DecoderAt
<1>10. SearchingAt(k)'
  BY <1>0, <1>2, <1>4, <1>6, <1>8, <1>9 DEF SearchingAt
<1>11. \E i : SearchingAt(i)'
  BY <1>10
<1> QED BY <1>1, <1>2, <1>11 DEF Mp3Inv

\* Without memory for the window, before the first frame, init fails.
LEMMA OutOfMemoryInv ==
  ASSUME Mp3Inv, OutOfMemory
  PROVE  Mp3Inv'
<1>1. stage = "first"
  BY DEF OutOfMemory, Mp3Inv
<1>2. stage' = "failed" /\ file' = file /\ file \in Streams
  BY <1>1 DEF OutOfMemory, NoMoreFrames, Fail, Mp3Inv
<1> QED BY <1>2 DEF Mp3Inv

(***************************************************************************)
(* A round that finds the window empty is at the end; any other decodes.   *)
(***************************************************************************)
RoundOver(k) ==
  /\ k = TagsFrom(file) /\ NoMoreFrames /\ InWindow(k)'
  /\ file' = file /\ stream'.start = stream.start
  /\ tag' = tag /\ current' = current /\ temp' = temp /\ out' = out
  /\ decoder' = decoder /\ frame' = frame

RoundDecoded(k, m, d) ==
  /\ k \in First(file)..(TagsFrom(file) - 1) /\ m \in (k + 1)..TagsFrom(file)
  /\ DecodedTo(file, k, m, d) /\ Begin(file, k) + d.bytes <= filePos'
  /\ InWindow(m)' /\ file' = file /\ stream'.start = stream.start
  /\ tag' = tag /\ current' = current /\ temp' = temp /\ out' = out
  /\ decoder' = d.decoder /\ live' = live \cup {"data"} /\ ask' = ask
  /\ IF d.frame = NoFrame THEN stage' = stage /\ frame' = frame
     ELSE frame' = d.frame /\ stage' = IF stage = "first" THEN "xing" ELSE "read"

\* A round of drmp3_decode_next_frame_ex__callbacks, in terms of items.
LEMMA RoundIs ==
  ASSUME Mp3Assumption, file \in Streams, NEW k, InWindow(k), DecoderAt(file, k, decoder), Round
  PROVE  RoundOver(k) \/ \E m, d : RoundDecoded(k, m, d)
<1>1. PICK got : got = IF size < MinChunk THEN Clamped ELSE 0
  OBVIOUS
<1>2. PICK n : n = size + got
  OBVIOUS
<1>3. PICK d : d = Decoded(file, decoder, Begin(file, k), n)
  OBVIOUS
<1>4. /\ got \in Nat /\ n \in Nat /\ filePos + got = Begin(file, k) + n /\ filePos + got <= AudioEnd(file)
      /\ n = 0 => got = 0 /\ k = TagsFrom(file)
      /\ n # 0 => k \in First(file)..(TagsFrom(file) - 1) /\ WindowAt(file, k, n)
  BY <1>1, <1>2, WindowTopped
<1>5. filePos - size = Begin(file, k) /\ size \in Nat
  <2>1. /\ LaidOut(file) /\ First(file) \in {1, 2}
        /\ TagsFrom(file) \in First(file)..(Count(file) + 1) /\ Count(file) \in Nat
    BY StreamIs, AudioIs, ItemsAre
  <2>2. k \in Places(file)
    BY <2>1 DEF InWindow, AtItem, Places
  <2>3. Begin(file, k) \in Nat
    BY <2>1, <2>2, BeginIs
  <2> QED BY <2>3 DEF InWindow
<1>6. /\ filePos' = filePos + got /\ stream' = [stream EXCEPT !.cursor = @ + got]
      /\ IF n = 0 THEN NoMoreFrames /\ UNCHANGED <<size, decoder, frame>>
         ELSE /\ size' = n - d.bytes /\ decoder' = d.decoder
              /\ live' = live \cup {"data"}
              /\ IF d.frame = NoFrame THEN UNCHANGED <<stage, frame>>
                 ELSE frame' = d.frame /\ stage' = IF stage = "first" THEN "xing" ELSE "read"
              /\ UNCHANGED ask
      /\ UNCHANGED <<file, tag, current, temp, out, cap>>
  BY <1>1, <1>2, <1>3, <1>5 DEF Round
<1>7. CASE n = 0
  <2>1. size' = n - 0 /\ NoMoreFrames /\ decoder' = decoder /\ frame' = frame
    BY <1>2, <1>4, <1>5, <1>6, <1>7
  <2>2. 0 \in Nat /\ 0 <= n /\ Begin(file, k) + 0 = Begin(file, k) /\ AtItem(file, k)
    BY <1>4, <1>5, <1>7 DEF InWindow
  <2>3. InWindow(k)' /\ stream'.start = stream.start
    BY <1>4, <1>6, <2>1, <2>2, WindowMoved
  <2> QED BY <1>4, <1>6, <1>7, <2>1, <2>3 DEF RoundOver
<1>8. CASE n # 0
  <2>1. k \in First(file)..(TagsFrom(file) - 1) /\ WindowAt(file, k, n) /\ AtItem(file, k)
    BY <1>4, <1>8 DEF InWindow
  <2>2. PICK m \in (k + 1)..TagsFrom(file) : DecodedTo(file, k, m, d) /\ d.bytes <= n
    BY <1>3, <2>1, DecodeStep
  <2>3. AtItem(file, m) /\ d.bytes \in Nat /\ Begin(file, k) + d.bytes = Begin(file, m)
    BY <2>2 DEF DecodedTo
  <2>4. size' = n - d.bytes
    BY <1>6, <1>8
  <2>5. InWindow(m)' /\ stream'.start = stream.start
    BY <1>4, <1>6, <2>2, <2>3, <2>4, WindowMoved
  <2>6. Begin(file, k) + d.bytes <= filePos'
    BY <1>4, <1>5, <1>6, <2>2, <2>3 DEF InWindow
  <2>7. RoundDecoded(k, m, d)
    BY <1>6, <1>8, <2>1, <2>2, <2>5, <2>6 DEF RoundDecoded
  <2> QED BY <2>7
<1> QED BY <1>7, <1>8

\* A round that looks for the first frame.
LEMMA RoundFirst ==
  ASSUME Mp3Assumption, Mp3Inv, Round, stage = "first"
  PROVE  Mp3Inv'
<1>1. PICK k : SearchingAt(k)
  BY DEF Mp3Inv
<1>2. file \in Streams
  BY DEF Mp3Inv
<1>3. RoundOver(k) \/ \E m, d : RoundDecoded(k, m, d)
  BY <1>1, <1>2, RoundIs DEF SearchingAt
<1>4. CASE RoundOver(k)
  <2>1. stage' = "failed" /\ file' = file
    BY <1>4 DEF RoundOver, NoMoreFrames, Fail
  <2> QED BY <1>2, <2>1 DEF Mp3Inv
<1>5. CASE \E m, d : RoundDecoded(k, m, d)
  <2>1. PICK m, d : RoundDecoded(k, m, d)
    BY <1>5
  <2>2. /\ k \in First(file)..(TagsFrom(file) - 1) /\ m \in (k + 1)..TagsFrom(file)
        /\ DecodedTo(file, k, m, d) /\ InWindow(m)' /\ file' = file
    BY <2>1 DEF RoundDecoded
  <2>3. /\ Heard(file, m - 1) = Heard(file, k)
        /\ ~HeardFrame(file, m - 1) => Heard(file, m) = Heard(file, k)
    BY <1>2, <2>2, HeardMoved
  <2>4. Heard(file, k) = 0 /\ (Told(file) => k = First(file)) /\ stream.start = Begin(file, First(file))
    BY <1>1 DEF SearchingAt
  <2>5. First(file) \in {1, 2} /\ TagsFrom(file) \in Nat
    <3>1. TagsFrom(file) \in First(file)..(Count(file) + 1) /\ First(file) \in {1, 2} /\ Count(file) \in Nat
      BY <1>2, StreamIs, AudioIs, ItemsAre
    <3> QED BY <3>1
  <2>6. CASE d.frame = NoFrame
    <3>1. ~(Told(file) /\ k = First(file))
      BY <2>2, <2>6 DEF DecodedTo
    <3>2. ~HeardFrame(file, m - 1) /\ DecoderAt(file, m, d.decoder)
      <4>1. NoFrame.item = None
        BY DEF NoFrame
      <4>2. ~(d.frame = FrameAs(m - 1, d.bytes, MainData(file, m - 1)))
        <5>1. FrameAs(m - 1, d.bytes, MainData(file, m - 1)).item = m - 1
          BY DEF FrameAs
        <5>2. m - 1 # None
          BY <2>2, <2>5, Constants
        <5> QED BY <2>6, <4>1, <5>1, <5>2
      <4> QED BY <2>2, <4>2 DEF DecodedTo
    <3>3. /\ stage' = "first" /\ decoder' = d.decoder /\ stream'.start = stream.start
          /\ tag' = tag /\ current' = current /\ temp' = temp /\ out' = out /\ frame' = frame
      BY <2>1, <2>6 DEF RoundDecoded
    <3>4. Fresh'
      BY <1>1, <3>3 DEF SearchingAt, Fresh
    <3>5. SearchingAt(m)'
      BY <2>2, <2>3, <2>4, <3>1, <3>2, <3>3, <3>4 DEF SearchingAt
    <3>6. \E i : SearchingAt(i)'
      BY <3>5
    <3> QED BY <1>2, <2>2, <3>3, <3>6 DEF Mp3Inv
  <2>7. CASE d.frame # NoFrame
    <3>1. /\ d.frame = FrameAs(m - 1, d.bytes, MainData(file, m - 1))
          /\ IsFrame(file, m - 1) /\ StepFrom(file)[m - 1] > 0
          /\ Kind(file, m - 1) = "frame" => HeardFrame(file, m - 1) /\ DecoderAt(file, m, d.decoder)
          /\ Told(file) /\ k = First(file) => m = k + 1
          /\ d.bytes \in Nat /\ "sync" \in DOMAIN d.decoder
      BY <2>2, <2>7 DEF DecodedTo
    <3>2. /\ stage' = "xing" /\ decoder' = d.decoder /\ stream'.start = stream.start
          /\ tag' = tag /\ current' = current /\ temp' = temp /\ out' = out /\ frame' = d.frame
          /\ live' = live \cup {"data"} /\ Begin(file, k) + d.bytes <= filePos'
      BY <2>1, <2>7 DEF RoundDecoded
    <3>3. tag' = NoTag /\ current' = 0 /\ temp' = <<>> /\ out' = <<>>
      BY <1>1, <3>2 DEF SearchingAt, Fresh
    <3>4. ~Told(file) \/ Kind(file, m - 1) = "xing"
      <4>1. ASSUME Told(file) PROVE Kind(file, m - 1) = "xing"
        <5>1. m = k + 1 /\ k = First(file)
          BY <2>4, <3>1, <4>1
        <5>2. m - 1 = First(file)
          BY <2>5, <5>1
        <5> QED BY <4>1, <5>2 DEF Told
      <4> QED BY <4>1
    <3>5. stream.start + d.bytes <= filePos' /\ frame'.bytes = d.bytes
      <4>1. frame'.bytes = d.bytes
        BY <3>1, <3>2 DEF FrameAs
      <4>2. stream.start \in Nat /\ Begin(file, k) \in Nat /\ stream.start <= Begin(file, k) /\ filePos' \in Nat
        <5>1. /\ LaidOut(file) /\ TagsFrom(file) \in First(file)..(Count(file) + 1) /\ Count(file) \in Nat
          BY <1>2, StreamIs, AudioIs, ItemsAre
        <5>2. First(file) \in Places(file) /\ k \in Places(file) /\ (k = First(file) \/ First(file) < k)
          BY <2>2, <2>5, <5>1 DEF Places
        <5>3. Begin(file, First(file)) \in Nat /\ Begin(file, k) \in Nat
          BY <5>1, <5>2, BeginIs
        <5>4. First(file) < k => Begin(file, First(file)) < Begin(file, k)
          BY <5>1, <5>2, BeginIs
        <5>5. filePos' \in Nat
          BY <2>2 DEF InWindow
        <5> QED BY <2>4, <5>2, <5>3, <5>4, <5>5
      <4> QED BY <3>1, <3>2, <4>1, <4>2
    <3>6. InspectingAt(m)'
      BY <2>2, <2>3, <2>4, <3>1, <3>2, <3>3, <3>4, <3>5 DEF InspectingAt
    <3>7. \E i : InspectingAt(i)'
      BY <3>6
    <3> QED BY <1>2, <2>2, <3>2, <3>7 DEF Mp3Inv
  <2> QED BY <2>6, <2>7
<1> QED BY <1>3, <1>4, <1>5

\* A round that looks for the next frame of a raw call.
LEMMA RoundNext ==
  ASSUME Mp3Assumption, Mp3Inv, Round, stage = "next"
  PROVE  Mp3Inv'
<1>1. PICK k : ReadingAt(k)
  BY DEF Mp3Inv
<1>2. file \in Streams /\ "data" \in live
  BY DEF Mp3Inv
<1>3. /\ InWindow(k) /\ k > First(file) /\ DecoderAt(file, k, decoder) /\ tag = TagOf(file)
      /\ Holding(k) /\ Collected /\ frame.rest = 0
  BY <1>1 DEF ReadingAt
<1>4. RoundOver(k) \/ \E m, d : RoundDecoded(k, m, d)
  BY <1>2, <1>3, RoundIs
<1>5. First(file) \in {1, 2} /\ TagsFrom(file) \in Nat
  <2>1. TagsFrom(file) \in First(file)..(Count(file) + 1) /\ First(file) \in {1, 2} /\ Count(file) \in Nat
    BY <1>2, StreamIs, AudioIs, ItemsAre
  <2> QED BY <2>1
<1>6. CASE RoundOver(k)
  <2>1. /\ k = TagsFrom(file) /\ InWindow(k)' /\ file' = file
        /\ tag' = tag /\ current' = current /\ temp' = temp /\ out' = out
        /\ decoder' = decoder /\ frame' = frame
        /\ stage' \in {"append", "read"} /\ ask' = [ask EXCEPT !.raw = 0] /\ live' = live
    BY <1>6 DEF RoundOver, NoMoreFrames
  <2>2. Holding(k)'
    BY <1>3, <2>1 DEF Holding
  <2>3. ask' \in [want : Nat, raw : Nat] /\ ask'.want = ask.want
    BY <1>3, <2>1 DEF Collected
  <2>4. Collected'
    BY <1>3, <2>1, <2>3 DEF Collected, Buffered
  <2>5. Finished(k)'
    BY <1>3, <2>1 DEF Finished
  <2>6. ReadingAt(k)'
    BY <1>3, <2>1, <2>2, <2>4, <2>5 DEF ReadingAt
  <2>7. \E i : ReadingAt(i)'
    BY <2>6
  <2> QED BY <1>2, <2>1, <2>7 DEF Mp3Inv
<1>7. CASE \E m, d : RoundDecoded(k, m, d)
  <2>1. PICK m, d : RoundDecoded(k, m, d)
    BY <1>7
  <2>2. /\ k \in First(file)..(TagsFrom(file) - 1) /\ m \in (k + 1)..TagsFrom(file)
        /\ DecodedTo(file, k, m, d) /\ InWindow(m)' /\ file' = file
        /\ tag' = tag /\ current' = current /\ temp' = temp /\ out' = out
        /\ decoder' = d.decoder /\ live' = live \cup {"data"} /\ ask' = ask
        /\ IF d.frame = NoFrame THEN stage' = stage /\ frame' = frame
           ELSE frame' = d.frame /\ stage' = IF stage = "first" THEN "xing" ELSE "read"
    BY <2>1 DEF RoundDecoded
  <2>3. /\ ~HeardFrame(file, m - 1) => Heard(file, m) = Heard(file, k)
        /\ HeardFrame(file, m - 1) =>
             /\ Heard(file, m) = Heard(file, k) + PerFrame
             /\ \A j \in 1..PerFrame : AllSamples(file)[Heard(file, k) + j] = <<m - 1, MainData(file, m - 1), j>>
    BY <1>2, <2>2, HeardMoved
  <2>4. m > First(file) /\ m - 1 # First(file) /\ m - 1 # None
    BY <1>3, <1>5, <2>2, Constants
  <2>5. current \in Nat /\ current = Heard(file, k)
    BY <1>3 DEF Holding
  <2>6. Collected'
    BY <1>3, <2>2 DEF Collected, Buffered
  <2>7. CASE d.frame = NoFrame
    <3>1. ~HeardFrame(file, m - 1) /\ DecoderAt(file, m, d.decoder)
      <4>1. NoFrame.item = None
        BY DEF NoFrame
      <4>2. ~(d.frame = FrameAs(m - 1, d.bytes, MainData(file, m - 1)))
        <5>1. FrameAs(m - 1, d.bytes, MainData(file, m - 1)).item = m - 1
          BY DEF FrameAs
        <5> QED BY <2>4, <2>7, <4>1, <5>1
      <4> QED BY <2>2, <4>2 DEF DecodedTo
    <3>2. stage' = "next" /\ frame' = frame
      BY <2>2, <2>7
    <3>3. Holding(m)'
      BY <1>3, <2>2, <2>3, <3>1, <3>2 DEF Holding
    <3>4. ReadingAt(m)'
      BY <1>3, <2>2, <2>4, <2>6, <3>1, <3>2, <3>3 DEF ReadingAt
    <3>5. \E i : ReadingAt(i)'
      BY <3>4
    <3> QED BY <1>2, <2>2, <3>2, <3>5 DEF Mp3Inv
  <2>8. CASE d.frame # NoFrame
    <3>1. /\ d.frame = FrameAs(m - 1, d.bytes, MainData(file, m - 1)) /\ IsFrame(file, m - 1)
          /\ Kind(file, m - 1) = "frame" => HeardFrame(file, m - 1) /\ DecoderAt(file, m, d.decoder)
      BY <2>2, <2>8 DEF DecodedTo
    <3>2. HeardFrame(file, m - 1) /\ DecoderAt(file, m, d.decoder)
      <4>1. Kind(file, m - 1) = "frame"
        BY <1>2, <2>4, <3>1, FrameIs
      <4> QED BY <3>1, <4>1
    <3>3. stage' = "read" /\ frame' = FrameAs(m - 1, d.bytes, MainData(file, m - 1))
      BY <2>2, <2>8, <3>1
    <3>4. /\ frame'.item = m - 1 /\ frame'.main = MainData(file, m - 1)
          /\ frame'.used = 0 /\ frame'.rest = PerFrame
          /\ frame' = [item |-> frame'.item, bytes |-> frame'.bytes, main |-> frame'.main,
                       used |-> frame'.used, rest |-> frame'.rest]
      BY <3>3 DEF FrameAs
    <3>5. PerFrame \in Nat /\ current' + frame'.rest = Heard(file, m)
      BY <2>2, <2>3, <2>5, <3>2, <3>4, Constants
    <3>6. ASSUME NEW j \in 1..frame'.rest
          PROVE  AllSamples(file)[current' + j] = <<frame'.item, frame'.main, frame'.used + j>>
      <4>1. j \in 1..PerFrame /\ frame'.used + j = j
        BY <3>4, <3>5
      <4> QED BY <2>2, <2>3, <2>5, <3>2, <3>4, <4>1
    <3>7. Holding(m)'
      BY <2>2, <2>5, <3>4, <3>5, <3>6 DEF Holding
    <3>8. ReadingAt(m)'
      BY <1>3, <2>2, <2>4, <2>6, <3>2, <3>3, <3>7 DEF ReadingAt
    <3>9. \E i : ReadingAt(i)'
      BY <3>8
    <3> QED BY <1>2, <2>2, <3>3, <3>9 DEF Mp3Inv
  <2> QED BY <2>7, <2>8
<1> QED BY <1>4, <1>6, <1>7

\* A round keeps the invariant.
LEMMA RoundInv ==
  ASSUME Mp3Assumption, Mp3Inv, Round
  PROVE  Mp3Inv'
<1>1. stage = "first" \/ stage = "next"
  BY DEF Round
<1> QED BY <1>1, RoundFirst, RoundNext

\* temp holds at least one frame of samples.
LEMMA BufferedIs ==
  ASSUME Mp3Assumption, file \in Streams
  PROVE  Buffered \in Nat /\ Buffered >= 1
<1>1. file.channels \in {1, 2} /\ PerFrame \in Nat /\ PerFrame >= 1
  BY StreamIs, Constants DEF LaidOut
<1>2. CASE file.channels = 1
  <2>1. Buffered = (2 * PerFrame) \div 1
    BY <1>2 DEF Buffered
  <2> QED BY <1>1, <2>1
<1>3. CASE file.channels = 2
  <2>1. Buffered = (2 * PerFrame) \div 2
    BY <1>3 DEF Buffered
  <2> QED BY <1>1, <2>1
<1> QED BY <1>1, <1>2, <1>3

\* A Xing frame is no sound and tells delay and padding; another first frame is kept.
LEMMA InspectInv ==
  ASSUME Mp3Assumption, Mp3Inv, Inspect
  PROVE  Mp3Inv'
<1>1. stage = "xing" /\ file \in Streams /\ "data" \in live
  BY DEF Inspect, Mp3Inv
<1>2. PICK k : InspectingAt(k)
  BY <1>1 DEF Mp3Inv
<1>3. /\ InWindow(k) /\ IsFrame(file, k - 1) /\ StepFrom(file)[k - 1] > 0
      /\ frame = FrameAs(k - 1, frame.bytes, MainData(file, k - 1))
      /\ Heard(file, k - 1) = 0 /\ tag = NoTag /\ current = 0 /\ temp = <<>> /\ out = <<>>
  BY <1>2 DEF InspectingAt
<1>4. /\ k - 1 \in First(file)..(TagsFrom(file) - 1) /\ k - 1 \in 1..Count(file)
      /\ Kind(file, k - 1) = "frame" \/ (Kind(file, k - 1) = "xing" /\ k - 1 = First(file))
  BY <1>1, <1>3, FrameIs, ItemIs
<1>5. /\ k > First(file) /\ (k - 1) + 1 = k
  <2>1. k \in First(file)..TagsFrom(file) /\ First(file) \in {1, 2} /\ Count(file) \in Nat
        /\ TagsFrom(file) \in First(file)..(Count(file) + 1)
    BY <1>1, <1>3, StreamIs, AudioIs, ItemsAre DEF InWindow, AtItem
  <2> QED BY <1>4, <2>1
<1>6. /\ stage' = "read" /\ file' = file /\ live' = live /\ ask' = [want |-> Buffered, raw |-> 0]
      /\ filePos' = filePos /\ size' = size /\ current' = 0 /\ temp' = <<>> /\ out' = <<>>
  BY <1>3 DEF Inspect
<1>7. Buffered \in Nat /\ Buffered' = Buffered
  BY <1>1, <1>6, BufferedIs DEF Buffered
<1>8. frame.item = k - 1 /\ frame.main = MainData(file, k - 1) /\ frame.used = 0 /\ frame.rest = PerFrame
  BY <1>3 DEF FrameAs
<1>9. Kind(file, k - 1) = file.items[k - 1].kind
  <2>1. k - 1 \in DOMAIN file.items
    BY <1>1, <1>3, FrameIs, ItemIs
  <2> QED BY <2>1 DEF Kind
<1>10. ASSUME tag' = TagOf(file) PROVE Collected'
  <2>1. tag'.delay \in Nat /\ (EndsWith(tag') => SoundEnd(tag') \in Nat)
    BY <1>1, <1>10, TagIs
  <2>2. AllSamples(file) \in Seq(SampleSet(file))
    BY <1>1, HeardIs
  <2>3. SubSeq(AllSamples(file), tag'.delay + 1, 0) = <<>>
    BY <2>1, <2>2, NothingBehind
  <2>4. <<>> \o <<>> = <<>> /\ Len(<<>>) = 0 /\ <<>> \in Seq(SampleSet(file))
    OBVIOUS
  <2>5. ask' \in [want : Nat, raw : Nat] /\ Len(temp') + ask'.want = Buffered
    BY <1>6, <1>7, <2>4
  <2> QED BY <1>6, <1>7, <2>1, <2>3, <2>4, <2>5 DEF Collected
<1>11. CASE Kind(file, k - 1) = "xing"
  <2> DEFINE item == file.items[k - 1]
  <2>1. k - 1 = First(file) /\ Told(file)
    <3>1. k - 1 = First(file)
      BY <1>4, <1>11
    <3> QED BY <1>3, <1>11, <3>1 DEF Told
  <2>2. /\ tag' = [delay |-> item.delay, padding |-> item.padding,
                   total |-> IF item.count = None THEN None ELSE item.count * PerFrame]
        /\ frame' = [frame EXCEPT !.rest = 0]
        /\ stream' = [stream EXCEPT !.start = stream.start + frame.bytes, !.cursor = stream.start + frame.bytes]
        /\ decoder' = [decoder EXCEPT !.sync = FALSE]
    BY <1>8, <1>9, <1>11 DEF Inspect
  <2>3. tag' = TagOf(file)
    BY <2>1, <2>2 DEF TagOf
  <2>4. InWindow(k)'
    <3>1. frame.bytes \in Nat /\ stream.start + frame.bytes <= filePos
      BY <1>2 DEF InspectingAt
    <3>2. stream \in [cursor : Nat, length : Nat, start : Nat] /\ stream.length = AudioEnd(file)
      BY <1>3 DEF InWindow
    <3>3. /\ stream' \in [cursor : Nat, length : Nat, start : Nat] /\ stream'.length = AudioEnd(file)
          /\ stream'.cursor = stream.start + frame.bytes
      <4>1. PICK from : from = stream.start + frame.bytes
        OBVIOUS
      <4>2. from \in Nat
        BY <3>1, <3>2, <4>1
      <4>3. stream' = [stream EXCEPT !.start = from, !.cursor = from]
        BY <2>2, <4>1
      <4>4. /\ stream' \in [cursor : Nat, length : Nat, start : Nat]
            /\ stream'.length = stream.length /\ stream'.cursor = from
        BY <3>2, <4>2, <4>3
      <4> QED BY <3>2, <4>1, <4>4
    <3>4. AudioEnd(file) = Length(file)
      <4>1. TagsFrom(file) = Len(file.items) + 1 /\ Len(file.items) \in Nat
        BY <1>1, <1>4, <1>11, StreamIs, ItemsAre DEF Ordered, Count
      <4> QED BY <4>1 DEF AudioEnd
    <3> QED BY <1>3, <1>6, <3>1, <3>3, <3>4 DEF InWindow
  <2>5. DecoderAt(file, k, decoder')
    <3>1. ~InSync(file, k)
      BY <1>11 DEF InSync
    <3>2. decoder'.sync = FALSE
      <4>1. "sync" \in DOMAIN decoder
        BY <1>2 DEF InspectingAt
      <4> QED BY <2>2, <4>1
    <3> QED BY <3>1, <3>2 DEF DecoderAt
  <2>6. Heard(file, k) = 0
    <3>1. ~HeardFrame(file, k - 1)
      BY <1>11 DEF HeardFrame
    <3> QED BY <1>1, <1>3, <1>4, <1>5, <3>1, HeardGrows
  <2>7. frame' = [item |-> k - 1, bytes |-> frame.bytes, main |-> MainData(file, k - 1), used |-> 0, rest |-> 0]
    BY <1>3, <2>2 DEF FrameAs
  <2>8. Holding(k)'
    BY <1>6, <2>6, <2>7 DEF Holding
  <2>9. ReadingAt(k)'
    BY <1>5, <1>6, <1>10, <2>3, <2>4, <2>5, <2>8 DEF ReadingAt
  <2>10. \E i : ReadingAt(i)'
    BY <2>9
  <2> QED BY <1>1, <1>6, <2>10 DEF Mp3Inv
<1>12. CASE Kind(file, k - 1) = "frame"
  <2>1. HeardFrame(file, k - 1) /\ DecoderAt(file, k, decoder) /\ ~Told(file)
    BY <1>2, <1>12 DEF InspectingAt
  <2>2. tag' = tag /\ frame' = frame /\ stream' = stream /\ decoder' = decoder
    BY <1>8, <1>9, <1>12 DEF Inspect
  <2>3. tag' = TagOf(file)
    BY <1>3, <2>1, <2>2 DEF TagOf
  <2>4. InWindow(k)'
    BY <1>3, <1>6, <2>2 DEF InWindow
  <2>5. /\ Heard(file, k) = PerFrame /\ PerFrame \in Nat
        /\ \A j \in 1..PerFrame : AllSamples(file)[0 + j] = <<k - 1, MainData(file, k - 1), j>>
    BY <1>1, <1>3, <1>4, <1>5, <2>1, HeardGrows, Constants
  <2>6. Holding(k)'
    <3>1. /\ frame'.item = k - 1 /\ frame'.main = MainData(file, k - 1)
          /\ frame'.used = 0 /\ frame'.rest = PerFrame
          /\ frame' = [item |-> frame'.item, bytes |-> frame'.bytes, main |-> frame'.main,
                       used |-> frame'.used, rest |-> frame'.rest]
      BY <1>3, <1>8, <2>2 DEF FrameAs
    <3>2. ASSUME NEW j \in 1..frame'.rest
          PROVE  AllSamples(file)[current' + j] = <<frame'.item, frame'.main, frame'.used + j>>
      <4>1. j \in 1..PerFrame /\ frame'.used + j = j /\ current' + j = 0 + j
        BY <1>6, <2>5, <3>1
      <4> QED BY <2>5, <3>1, <4>1
    <3> QED BY <1>6, <2>5, <3>1, <3>2 DEF Holding
  <2>7. ReadingAt(k)'
    BY <1>5, <1>6, <1>10, <2>1, <2>2, <2>3, <2>4, <2>6 DEF ReadingAt
  <2>8. \E i : ReadingAt(i)'
    BY <2>7
  <2> QED BY <1>1, <1>6, <2>8 DEF Mp3Inv
<1> QED BY <1>4, <1>11, <1>12


(***************************************************************************)
(* What a round of drmp3_read_pcm_frames_raw skips, sk, and copies, n: the *)
(* delay is passed before anything is copied, the padding never reached,   *)
(* and the round stops early only with the frame's rest used up.           *)
(***************************************************************************)
CopyRound(c, d, rest, want, ends, e, sk, n) ==
  /\ c \in Nat /\ d \in Nat /\ rest \in Nat /\ want \in Nat /\ ends \in BOOLEAN /\ (ends => e \in Nat)
  /\ sk = IF c < d THEN Least(rest, d - c) ELSE 0
  /\ n = IF ends THEN Least(Least(rest - sk, want), Most(0, e - (c + sk))) ELSE Least(rest - sk, want)

CopyBounds(c, d, rest, want, ends, e, sk, n) ==
  /\ sk \in Nat /\ n \in Nat /\ sk + n <= rest /\ n <= want
  /\ sk = 0 \/ (c < d /\ c + sk <= d)
  /\ n = 0 \/ d <= c + sk
  /\ ends /\ (c <= e \/ c <= d) => (c + sk) + n <= e \/ (c + sk) + n <= d
  /\ ~(ends /\ (c + sk) + n >= e) /\ n # want => sk + n = rest

\* The bounds of sk and n.
LEMMA CopyCounts ==
  ASSUME NEW c, NEW d, NEW rest, NEW want, NEW ends, NEW e, NEW sk, NEW n,
         CopyRound(c, d, rest, want, ends, e, sk, n)
  PROVE  CopyBounds(c, d, rest, want, ends, e, sk, n)
<1>0. PICK free : free = Least(rest - sk, want)
  OBVIOUS
<1> c \in Nat /\ d \in Nat /\ rest \in Nat /\ want \in Nat /\ ends \in BOOLEAN /\ (ends => e \in Nat)
  BY DEF CopyRound
<1>1. /\ sk \in Nat /\ sk <= rest /\ (sk = 0 \/ (c < d /\ c + sk <= d))
      /\ sk = rest \/ d <= c + sk
  BY DEF Least, CopyRound
<1>2. free \in Nat /\ free <= rest - sk /\ free <= want /\ (free = rest - sk \/ free = want)
  BY <1>0, <1>1 DEF Least
<1>3. CASE ~ends
  <2>1. n = free
    BY <1>0, <1>3 DEF CopyRound
  <2> QED BY <1>1, <1>2, <1>3, <2>1 DEF CopyBounds
<1>4. CASE ends
  <2>1. e \in Nat /\ n = Least(free, Most(0, e - (c + sk)))
    BY <1>0, <1>4 DEF CopyRound
  <2>2. /\ n \in Nat /\ n <= free /\ (n = 0 \/ (c + sk) + n <= e)
        /\ n = free \/ (c + sk) + n >= e
    BY <1>1, <1>2, <2>1 DEF Least, Most
  <2>3. n = 0 \/ d <= c + sk
    BY <1>1, <1>2, <2>2
  <2>4. c <= e \/ c <= d => (c + sk) + n <= e \/ (c + sk) + n <= d
    BY <1>1, <2>1, <2>2
  <2> QED BY <1>1, <1>2, <1>4, <2>2, <2>3, <2>4 DEF CopyBounds
<1> QED BY <1>3, <1>4

\* PerFrame u behind those gathered in o and t, of which c are past and sk are skipped.
Gathers(T, all, d, c, sk, n, o, t, u) ==
  /\ all \in Seq(T) /\ o \in Seq(T) /\ t \in Seq(T) /\ u \in Seq(T)
  /\ d \in Nat /\ c \in Nat /\ sk \in Nat /\ n \in Nat
  /\ o \o t = SubSeq(all, d + 1, c) /\ (c + sk) + n <= Len(all)
  /\ sk = 0 \/ (c < d /\ c + sk <= d)
  /\ n = 0 \/ d <= c + sk
  /\ Len(u) = n /\ \A i \in 1..n : u[i] = all[(c + sk) + i]

GathersOn(T, all, d, c, sk, n, o, t, u) ==
  /\ t \o u \in Seq(T) /\ Len(t \o u) = Len(t) + n
  /\ o \o (t \o u) = SubSeq(all, d + 1, (c + sk) + n)

\* PerFrame skipped before the delay and copied behind it continue those gathered.
LEMMA CopyGathers ==
  ASSUME NEW T, NEW all, NEW d, NEW c, NEW sk, NEW n, NEW o, NEW t, NEW u,
         Gathers(T, all, d, c, sk, n, o, t, u)
  PROVE  GathersOn(T, all, d, c, sk, n, o, t, u)
<1> /\ all \in Seq(T) /\ o \in Seq(T) /\ t \in Seq(T) /\ u \in Seq(T)
    /\ d \in Nat /\ c \in Nat /\ sk \in Nat /\ n \in Nat
    /\ o \o t = SubSeq(all, d + 1, c) /\ (c + sk) + n <= Len(all)
    /\ sk = 0 \/ (c < d /\ c + sk <= d)
    /\ n = 0 \/ d <= c + sk
    /\ Len(u) = n /\ \A i \in 1..n : u[i] = all[(c + sk) + i]
  BY DEF Gathers
<1>1. t \o u \in Seq(T) /\ Len(t \o u) = Len(t) + n
  BY ConcatParts
<1>2. (o \o t) \o u = o \o (t \o u)
  BY ONLY o \in Seq(T), t \in Seq(T), u \in Seq(T), SMTT(30)
<1>3. o \o t = SubSeq(all, d + 1, c + sk)
  <2>1. CASE sk = 0
    <3>1. c + sk = c
      BY <2>1
    <3> QED BY <3>1
  <2>2. CASE sk # 0
    <3>1. c <= d /\ c + sk <= d /\ c + sk \in Nat
      BY <2>2
    <3>2. SubSeq(all, d + 1, c) = <<>> /\ SubSeq(all, d + 1, c + sk) = <<>>
      BY <3>1, NothingBehind
    <3> QED BY <3>2
  <2> QED BY <2>1, <2>2
<1>0. PICK b : b = c + sk
  OBVIOUS
<1>4. b = c + sk /\ b \in Nat /\ b + n <= Len(all)
  BY ONLY <1>0, c \in Nat, sk \in Nat, (c + sk) + n <= Len(all)
<1>5. SubSeq(all, d + 1, b) \o u = SubSeq(all, d + 1, b + n)
  <2>1. CASE d <= b
    <3>1. \A i \in 1..n : u[i] = all[b + i]
      BY <1>4
    <3>2. Continues(all, u, d, b, b + n)
      BY <1>4, <2>1, <3>1 DEF Continues
    <3>3. Cat(Part(all, d, b), u) = Part(all, d, b + n)
      BY <1>4, <3>2, PartContinued
    <3> QED BY <3>3 DEF Cat, Part
  <2>2. CASE n = 0
    <3>1. u = <<>> /\ b + n = b
      BY <1>4, <2>2
    <3>2. SubSeq(all, d + 1, b) \in Seq(T)
      BY <1>4
    <3>3. SubSeq(all, d + 1, b) \o <<>> = SubSeq(all, d + 1, b)
      BY <3>2
    <3> QED BY <3>1, <3>3
  <2>3. d <= b \/ n = 0
    BY <1>4
  <2> QED BY <2>1, <2>2, <2>3
<1>6. o \o (t \o u) = SubSeq(all, d + 1, b + n)
  BY ONLY <1>2, <1>3, <1>4, <1>5
<1> QED BY <1>1, <1>4, <1>6 DEF GathersOn


\* What Copy does, from the counts of its round.
CopyBy(sk, n) ==
  /\ current' = (current + sk) + n
  /\ frame' = [item |-> frame.item, bytes |-> frame.bytes, main |-> frame.main,
               used |-> (frame.used + sk) + n, rest |-> frame.rest - (sk + n)]
  /\ temp' = temp \o [i \in 1..n |-> <<frame.item, frame.main, (frame.used + sk) + i>>]
  /\ stage' \in {"read", "next", "append"}
  /\ ask' \in [want : Nat, raw : Nat] /\ ask'.want = ask.want - n
  /\ stage' = "append" => ask.want = n \/ (EndsWith(tag) /\ (current + sk) + n >= SoundEnd(tag))
  /\ stage' = "next" => ask.want # n /\ ~(EndsWith(tag) /\ (current + sk) + n >= SoundEnd(tag))

\* Copy, from its counts.
LEMMA CopyIs ==
  ASSUME NEW k, Holding(k), ask \in [want : Nat, raw : Nat], Copy,
         NEW sk, sk = Skipped, sk \in Nat,
         NEW n, n = IF EndsWith(tag)
                    THEN Least(Least(frame.rest - sk, ask.want), Most(0, SoundEnd(tag) - (current + sk)))
                    ELSE Least(frame.rest - sk, ask.want),
         n \in Nat, n <= ask.want
  PROVE  CopyBy(sk, n)
<1>1. /\ frame = [item |-> frame.item, bytes |-> frame.bytes, main |-> frame.main,
                  used |-> frame.used, rest |-> frame.rest]
      /\ frame.used \in Nat /\ frame.rest \in Nat /\ current \in Nat
  BY DEF Holding
<1>2. PICK over : over = (EndsWith(tag) /\ (current + sk) + n >= SoundEnd(tag))
  OBVIOUS
<1>3. /\ current' = (current + sk) + n
      /\ frame' = [frame EXCEPT !.used = (frame.used + sk) + n, !.rest = (@ - sk) - n]
      /\ temp' = temp \o [i \in 1..n |-> <<frame.item, frame.main, (frame.used + sk) + i>>]
      /\ IF ask.want = n \/ (over /\ ask.raw + n = 0)
         THEN stage' = "append" /\ ask' = [want |-> ask.want - n, raw |-> 0]
         ELSE /\ stage' = IF over THEN "read" ELSE "next"
              /\ ask' = [want |-> ask.want - n, raw |-> IF over THEN 0 ELSE ask.raw + n]
  BY <1>2 DEF Copy
<1>4. frame' = [item |-> frame.item, bytes |-> frame.bytes, main |-> frame.main,
                used |-> (frame.used + sk) + n, rest |-> frame.rest - (sk + n)]
  <2>1. (frame.rest - sk) - n = frame.rest - (sk + n)
    BY <1>1
  <2>2. PICK a : a = frame.rest - (sk + n)
    OBVIOUS
  <2>3. PICK b : b = (frame.used + sk) + n
    OBVIOUS
  <2>4. frame' = [frame EXCEPT !.used = b, !.rest = a]
    BY <1>3, <2>1, <2>2, <2>3
  <2>5. frame' = [item |-> frame.item, bytes |-> frame.bytes, main |-> frame.main,
                  used |-> b, rest |-> a]
    BY ONLY <1>1, <2>4
  <2> QED BY <2>2, <2>3, <2>5
<1>5. /\ stage' \in {"read", "next", "append"}
      /\ ask' \in [want : Nat, raw : Nat] /\ ask'.want = ask.want - n
      /\ stage' = "append" => ask.want = n \/ over
      /\ stage' = "next" => ask.want # n /\ ~over
  <2>1. ask.want - n \in Nat /\ ask.raw + n \in Nat
    OBVIOUS
  <2>2. CASE ask.want = n \/ (over /\ ask.raw + n = 0)
    <3>1. stage' = "append" /\ ask' = [want |-> ask.want - n, raw |-> 0]
      BY <1>3, <2>2
    <3>2. ask.want = n \/ over
      BY <2>2
    <3> QED BY ONLY <2>1, <3>1, <3>2
  <2>3. CASE ~(ask.want = n \/ (over /\ ask.raw + n = 0))
    <3>1. PICK raw : raw = IF over THEN 0 ELSE ask.raw + n
      OBVIOUS
    <3>2. stage' = (IF over THEN "read" ELSE "next") /\ ask' = [want |-> ask.want - n, raw |-> raw]
      BY <1>3, <2>3, <3>1
    <3>3. raw \in Nat /\ ask.want # n
      BY <2>1, <2>3, <3>1
    <3>4. ask' \in [want : Nat, raw : Nat] /\ ask'.want = ask.want - n
      BY ONLY <2>1, <3>2, <3>3
    <3>5. CASE over
      BY <3>2, <3>3, <3>4, <3>5
    <3>6. CASE ~over
      BY <3>2, <3>3, <3>4, <3>6
    <3> QED BY <3>5, <3>6
  <2> QED BY <2>2, <2>3
<1>6. /\ current' = (current + sk) + n
      /\ temp' = temp \o [i \in 1..n |-> <<frame.item, frame.main, (frame.used + sk) + i>>]
  BY <1>3
<1>7. over <=> EndsWith(tag) /\ (current + sk) + n >= SoundEnd(tag)
  BY <1>2
<1> QED BY ONLY <1>4, <1>5, <1>6, <1>7 DEF CopyBy

\* A round of drmp3_read_pcm_frames_raw keeps the invariant.
LEMMA CopyInv ==
  ASSUME Mp3Assumption, Mp3Inv, Copy
  PROVE  Mp3Inv'
<1>1. stage = "read" /\ file \in Streams /\ "data" \in live
  BY DEF Copy, Mp3Inv
<1>2. PICK k : ReadingAt(k)
  BY <1>1 DEF Mp3Inv
<1>3. /\ InWindow(k) /\ k > First(file) /\ DecoderAt(file, k, decoder) /\ tag = TagOf(file)
      /\ Holding(k) /\ Collected
  BY <1>2 DEF ReadingAt
<1>4. PICK sk : sk = Skipped
  OBVIOUS
<1>5. PICK n : n = IF EndsWith(tag)
                   THEN Least(Least(frame.rest - sk, ask.want), Most(0, SoundEnd(tag) - (current + sk)))
                   ELSE Least(frame.rest - sk, ask.want)
  OBVIOUS
<1>6. /\ frame.used \in Nat /\ frame.rest \in Nat /\ current \in Nat
      /\ ask \in [want : Nat, raw : Nat] /\ tag.delay \in Nat
      /\ EndsWith(tag) \in BOOLEAN /\ (EndsWith(tag) => SoundEnd(tag) \in Nat)
  BY <1>1, <1>3, TagIs DEF Holding, Collected, EndsWith
<1>7. /\ sk \in Nat /\ n \in Nat /\ sk + n <= frame.rest /\ n <= ask.want
      /\ sk = 0 \/ (current < tag.delay /\ current + sk <= tag.delay)
      /\ n = 0 \/ tag.delay <= current + sk
      /\ EndsWith(tag) /\ (current <= SoundEnd(tag) \/ current <= tag.delay) =>
           (current + sk) + n <= SoundEnd(tag) \/ (current + sk) + n <= tag.delay
      /\ ~(EndsWith(tag) /\ (current + sk) + n >= SoundEnd(tag)) /\ n # ask.want => sk + n = frame.rest
  <2>1. CopyRound(current, tag.delay, frame.rest, ask.want, EndsWith(tag), SoundEnd(tag), sk, n)
    BY <1>4, <1>5, <1>6 DEF CopyRound, Skipped
  <2>2. CopyBounds(current, tag.delay, frame.rest, ask.want, EndsWith(tag), SoundEnd(tag), sk, n)
    BY ONLY <2>1, CopyCounts
  <2> QED BY <2>2 DEF CopyBounds
<1>8. CopyBy(sk, n)
  BY <1>3, <1>4, <1>5, <1>6, <1>7, CopyIs
<1>9. /\ file' = file /\ live' = live /\ tag' = tag /\ out' = out
      /\ filePos' = filePos /\ stream' = stream /\ size' = size /\ decoder' = decoder
  BY DEF Copy, inputVars
<1> DEFINE all == AllSamples(file)
<1>10. all \in Seq(SampleSet(file)) /\ Heard(file, k) \in 0..Len(all)
  <2>1. /\ First(file) \in {1, 2} /\ TagsFrom(file) \in First(file)..(Count(file) + 1)
        /\ Count(file) \in Nat
    BY <1>1, StreamIs, AudioIs, ItemsAre
  <2>2. k \in Places(file)
    BY <1>3, <2>1 DEF InWindow, AtItem, Places
  <2> QED BY <1>1, <2>2, HeardIs
<1>11. /\ current + frame.rest = Heard(file, k)
       /\ \A j \in 1..frame.rest : all[current + j] = <<frame.item, frame.main, frame.used + j>>
  BY <1>3 DEF Holding
<1>12. (current + sk) + n <= Len(all)
  BY <1>6, <1>7, <1>10, <1>11
<1> HIDE DEF all
<1>13. Holding(k)'
  <2>1. /\ current' = (current + sk) + n /\ frame'.used = (frame.used + sk) + n
        /\ frame'.rest = frame.rest - (sk + n)
        /\ frame'.item = frame.item /\ frame'.main = frame.main
        /\ frame' = [item |-> frame'.item, bytes |-> frame'.bytes, main |-> frame'.main,
                     used |-> frame'.used, rest |-> frame'.rest]
    BY <1>8 DEF CopyBy
  <2>2. /\ frame'.used \in Nat /\ frame'.rest \in Nat /\ current' \in Nat
        /\ current' + frame'.rest = Heard(file, k)
    BY <1>6, <1>7, <1>11, <2>1
  <2>3. ASSUME NEW j \in 1..frame'.rest
        PROVE  all[current' + j] = <<frame'.item, frame'.main, frame'.used + j>>
    <3>1. PICK i : i = (sk + n) + j
      OBVIOUS
    <3>2. i \in 1..frame.rest /\ current + i = current' + j /\ frame.used + i = frame'.used + j
      BY <1>6, <1>7, <2>1, <2>2, <3>1
    <3> QED BY <1>11, <2>1, <3>2
  <2> QED BY <1>9, <2>1, <2>2, <2>3 DEF Holding, all
<1>14. Collected'
  <2>1. PICK u : u = [i \in 1..n |-> <<frame.item, frame.main, (frame.used + sk) + i>>]
    OBVIOUS
  <2>2. ASSUME NEW i \in 1..n
        PROVE  u[i] = all[(current + sk) + i] /\ u[i] \in SampleSet(file)
    <3>1. PICK j : j = sk + i
      OBVIOUS
    <3>2. /\ j \in 1..frame.rest /\ current + j = (current + sk) + i
          /\ frame.used + j = (frame.used + sk) + i /\ current + j \in 1..Len(all)
      <4>1. j \in 1..frame.rest /\ j <= sk + n
        BY <1>6, <1>7, <3>1
      <4>2. current + j = (current + sk) + i /\ frame.used + j = (frame.used + sk) + i
        BY <1>6, <1>7, <3>1
      <4>3. Len(all) \in Nat
        BY <1>10
      <4>4. current + j \in 1..Len(all)
        BY <1>6, <1>7, <1>12, <4>1, <4>3
      <4> QED BY <4>1, <4>2, <4>4
    <3>3. u[i] = <<frame.item, frame.main, (frame.used + sk) + i>>
      BY <2>1
    <3>4. all[current + j] = <<frame.item, frame.main, frame.used + j>>
      BY <1>11, <3>2
    <3>5. all[current + j] \in SampleSet(file)
      BY <1>10, <3>2
    <3> QED BY <3>2, <3>3, <3>4, <3>5
  <2>3. u \in Seq(SampleSet(file)) /\ Len(u) = n
    <3>1. u \in [1..n -> SampleSet(file)]
      BY <2>1, <2>2
    <3> QED BY <1>7, <3>1, AsSequence
  <2>4. /\ out \in Seq(SampleSet(file)) /\ temp \in Seq(SampleSet(file))
        /\ out \o temp = SubSeq(all, tag.delay + 1, current)
        /\ EndsWith(tag) => current <= SoundEnd(tag) \/ current <= tag.delay
        /\ Len(temp) + ask.want = Buffered
    BY <1>3 DEF Collected, all
  <2>5. /\ temp \o u \in Seq(SampleSet(file)) /\ Len(temp \o u) = Len(temp) + n
        /\ out \o (temp \o u) = SubSeq(all, tag.delay + 1, (current + sk) + n)
    <3>1. Gathers(SampleSet(file), all, tag.delay, current, sk, n, out, temp, u)
      BY <1>6, <1>7, <1>10, <1>12, <2>2, <2>3, <2>4 DEF Gathers
    <3>2. GathersOn(SampleSet(file), all, tag.delay, current, sk, n, out, temp, u)
      BY ONLY <3>1, CopyGathers
    <3> QED BY <3>2 DEF GathersOn
  <2>6. /\ temp' = temp \o u /\ current' = (current + sk) + n
        /\ ask' \in [want : Nat, raw : Nat] /\ ask'.want = ask.want - n
    BY <1>8, <2>1 DEF CopyBy
  <2>7. Len(temp') + ask'.want = Buffered
    <3>1. Len(temp) \in Nat /\ ask.want \in Nat /\ n \in Nat /\ n <= ask.want
      BY <1>6, <1>7, <2>4
    <3>2. Len(temp') = Len(temp) + n /\ ask'.want = ask.want - n /\ Len(temp) + ask.want = Buffered
      BY <2>4, <2>5, <2>6
    <3> QED BY ONLY <3>1, <3>2
  <2>8. Buffered' = Buffered /\ file' = file
    BY <1>9 DEF Buffered
  <2> QED BY <1>7, <1>9, <2>4, <2>5, <2>6, <2>7, <2>8 DEF Collected, all
<1>15. stage' = "next" => frame'.rest = 0
  BY <1>6, <1>7, <1>8 DEF CopyBy
<1>16. stage' = "append" => Len(temp') = Buffered' \/ Finished(k)'
  <2>1. CASE ask.want = n
    <3>1. ask'.want = 0
      BY <1>7, <1>8, <2>1 DEF CopyBy
    <3>2. Len(temp') = Buffered'
      BY <1>14, <3>1 DEF Collected
    <3> QED BY <3>2
  <2>2. CASE EndsWith(tag) /\ (current + sk) + n >= SoundEnd(tag)
    <3>1. Finished(k)'
      BY <1>8, <1>9, <2>2 DEF Finished, CopyBy
    <3> QED BY <3>1
  <2> QED BY <1>8, <2>1, <2>2 DEF CopyBy
<1>17. InWindow(k)'
  BY <1>3, <1>9 DEF InWindow
<1>18. ReadingAt(k)'
  BY <1>3, <1>9, <1>13, <1>14, <1>15, <1>16, <1>17 DEF ReadingAt
<1>19. \E i : ReadingAt(i)'
  BY <1>18
<1>20. stage' \in {"read", "next", "append"}
  BY <1>8 DEF CopyBy
<1> QED BY <1>1, <1>9, <1>19, <1>20 DEF Mp3Inv


(***************************************************************************)
(* When all is read, what was collected is the sound of the file.          *)
(***************************************************************************)
LEMMA AllRead ==
  ASSUME Mp3Assumption, file \in Streams, NEW k, ReadingAt(k), Finished(k)
  PROVE  out \o temp = Sound(file)
<1>1. /\ InWindow(k) /\ tag = TagOf(file) /\ Holding(k) /\ Collected
  BY DEF ReadingAt
<1>2. /\ First(file) \in {1, 2} /\ TagsFrom(file) \in First(file)..(Count(file) + 1)
      /\ Count(file) \in Nat /\ \A j : IsFrame(file, j) => j \in First(file)..(TagsFrom(file) - 1)
  BY StreamIs, AudioIs, ItemsAre
<1>3. k \in Places(file) /\ TagsFrom(file) \in Places(file)
  BY <1>1, <1>2 DEF InWindow, AtItem, Places
<1>4. Heard(file, k) \in 0..Len(AllSamples(file)) /\ Len(AllSamples(file)) \in Nat
  BY <1>3, HeardIs
<1>5. /\ current \in Nat /\ frame.rest \in Nat /\ current + frame.rest = Heard(file, k)
  BY <1>1 DEF Holding
<1>6. current \in 0..Len(AllSamples(file))
  BY <1>4, <1>5
<1>7. current = Len(AllSamples(file)) \/ (EndsWith(tag) /\ current >= SoundEnd(tag))
  <2>1. CASE k = TagsFrom(file) /\ frame.rest = 0
    <3>1. current = Heard(file, TagsFrom(file))
      BY <1>4, <1>5, <2>1
    <3>2. \A j \in TagsFrom(file)..((Count(file) + 1) - 1) : ~HeardFrame(file, j)
      <4>1. ASSUME NEW j \in TagsFrom(file)..((Count(file) + 1) - 1), HeardFrame(file, j) PROVE FALSE
        <5>1. IsFrame(file, j)
          BY <4>1 DEF HeardFrame, IsFrame
        <5>2. j \in First(file)..(TagsFrom(file) - 1)
          BY <1>2, <5>1
        <5> QED BY <1>2, <4>1, <5>2
      <4> QED BY <4>1
    <3>3. Count(file) + 1 \in TagsFrom(file)..(Count(file) + 1)
      BY <1>2
    <3>4. Heard(file, Count(file) + 1) = Heard(file, TagsFrom(file))
      BY <1>3, <3>2, <3>3, HeardSame
    <3> QED BY <3>1, <3>4, HeardIs
  <2>2. CASE EndsWith(tag) /\ current >= SoundEnd(tag)
    BY <2>2
  <2> QED BY <2>1, <2>2 DEF Finished
<1>8. /\ out \o temp = SubSeq(AllSamples(file), tag.delay + 1, current)
      /\ EndsWith(tag) => current <= SoundEnd(tag) \/ current <= tag.delay
  BY <1>1 DEF Collected
<1>9. SubSeq(AllSamples(file), tag.delay + 1, current) = Sound(file)
  BY <1>1, <1>6, <1>7, <1>8, SoundDone
<1> QED BY <1>8, <1>9

\* drmp3__full_read_and_close_f32 keeps a full buffer and goes on, or is done.
LEMMA AppendTempInv ==
  ASSUME Mp3Assumption, Mp3Inv, AppendTemp
  PROVE  Mp3Inv'
<1>1. stage = "append" /\ file \in Streams /\ "data" \in live
  BY DEF AppendTemp, Mp3Inv
<1>2. PICK k : ReadingAt(k)
  BY <1>1 DEF Mp3Inv
<1>3. /\ InWindow(k) /\ k > First(file) /\ DecoderAt(file, k, decoder) /\ tag = TagOf(file)
      /\ Holding(k) /\ Collected /\ (Len(temp) = Buffered \/ Finished(k))
  BY <1>1, <1>2 DEF ReadingAt
<1>4. /\ out' = out \o temp /\ temp' = <<>> /\ live' = live \cup {"frames"}
      /\ stage' = IF Len(temp) = Buffered THEN "read" ELSE "close"
      /\ ask' = [want |-> Buffered, raw |-> 0]
      /\ file' = file /\ frame' = frame /\ tag' = tag /\ current' = current
      /\ filePos' = filePos /\ stream' = stream /\ size' = size /\ decoder' = decoder
  BY DEF AppendTemp, inputVars
<1>5. CASE Len(temp) = Buffered
  <2>1. stage' = "read"
    BY <1>4, <1>5
  <2>2. InWindow(k)'
    BY <1>3, <1>4 DEF InWindow
  <2>3. Holding(k)'
    BY <1>3, <1>4 DEF Holding
  <2>4. /\ out \in Seq(SampleSet(file)) /\ temp \in Seq(SampleSet(file))
        /\ out \o temp = SubSeq(AllSamples(file), tag.delay + 1, current)
        /\ EndsWith(tag) => current <= SoundEnd(tag) \/ current <= tag.delay
    BY <1>3 DEF Collected
  <2>5. /\ out' \in Seq(SampleSet(file)) /\ temp' \in Seq(SampleSet(file))
        /\ out' \o temp' = out'
    <3>1. out' \in Seq(SampleSet(file))
      BY <1>4, <2>4, ConcatParts
    <3>2. out' \o <<>> = out' /\ <<>> \in Seq(SampleSet(file))
      BY ONLY <3>1
    <3> QED BY <1>4, <3>1, <3>2
  <2>6. /\ ask' \in [want : Nat, raw : Nat] /\ Len(temp') + ask'.want = Buffered'
    <3>1. Buffered \in Nat /\ Buffered' = Buffered
      BY <1>1, <1>4, BufferedIs DEF Buffered
    <3>2. Len(temp') = 0 /\ ask'.want = Buffered
      BY <1>4
    <3> QED BY <1>4, <3>1, <3>2
  <2>7. Collected'
    BY <1>4, <2>4, <2>5, <2>6 DEF Collected
  <2>8. ReadingAt(k)'
    BY <1>3, <1>4, <2>1, <2>2, <2>3, <2>7 DEF ReadingAt
  <2>9. \E i : ReadingAt(i)'
    BY <2>8
  <2>10. "data" \in live'
    BY <1>1, <1>4
  <2> QED BY <1>1, <1>4, <2>1, <2>9, <2>10 DEF Mp3Inv
<1>6. CASE Len(temp) # Buffered
  <2>1. stage' = "close" /\ Finished(k)
    BY <1>3, <1>4, <1>6
  <2>2. out' = Sound(file)
    BY <1>1, <1>2, <1>4, <2>1, AllRead
  <2>3. filePos' <= AudioEnd(file)
    BY <1>3, <1>4 DEF InWindow
  <2> QED BY <1>1, <1>4, <2>1, <2>2, <2>3 DEF Mp3Inv
<1> QED BY <1>5, <1>6

\* Without memory for the samples nothing is returned.
LEMMA NoRoomInv ==
  ASSUME Mp3Inv, NoRoom
  PROVE  Mp3Inv'
<1>1. stage = "append" /\ file \in Streams
  BY DEF NoRoom, Mp3Inv
<1>2. PICK k : ReadingAt(k)
  BY <1>1 DEF Mp3Inv
<1>3. filePos <= AudioEnd(file)
  BY <1>2 DEF ReadingAt, InWindow
<1>4. stage' = "close" /\ out' = <<>> /\ file' = file /\ filePos' = filePos
  BY DEF NoRoom, inputVars
<1> QED BY <1>1, <1>3, <1>4 DEF Mp3Inv

\* An empty buffer is the end.
LEMMA NothingReadInv ==
  ASSUME Mp3Assumption, Mp3Inv, NothingRead
  PROVE  Mp3Inv'
<1>1. stage = "append" /\ file \in Streams /\ temp = <<>>
  BY DEF NothingRead, Mp3Inv
<1>2. PICK k : ReadingAt(k)
  BY <1>1 DEF Mp3Inv
<1>3. filePos <= AudioEnd(file) /\ (Len(temp) = Buffered \/ Finished(k)) /\ out \in Seq(SampleSet(file))
  BY <1>1, <1>2 DEF ReadingAt, InWindow, Collected
<1>4. Finished(k)
  <2>1. Len(temp) = 0 /\ Buffered \in Nat /\ Buffered >= 1
    BY <1>1, BufferedIs
  <2> QED BY <1>3, <2>1
<1>5. out = Sound(file)
  <2>1. out \o temp = Sound(file)
    BY <1>1, <1>2, <1>4, AllRead
  <2>2. out \o <<>> = out
    BY ONLY <1>3
  <2> QED BY <1>1, <2>1, <2>2
<1>6. stage' = "close" /\ out' = out /\ file' = file /\ filePos' = filePos
  BY DEF NothingRead, inputVars, outputVars
<1> QED BY <1>1, <1>3, <1>5, <1>6 DEF Mp3Inv

\* drmp3_uninit changes no sample.
LEMMA UninitInv ==
  ASSUME Mp3Inv, Uninit
  PROVE  Mp3Inv'
<1>1. stage = "close" /\ file \in Streams /\ (out = <<>> \/ out = Sound(file)) /\ filePos <= AudioEnd(file)
  BY DEF Uninit, Mp3Inv
<1>2. stage' = "loaded" /\ out' = out /\ file' = file /\ filePos' = filePos
  BY DEF Uninit, inputVars, outputVars
<1> QED BY <1>1, <1>2 DEF Mp3Inv

\* Steps of others change nothing.
LEMMA Mp3Stutter ==
  ASSUME Mp3Inv, UNCHANGED <<file, stage, live, inputVars, frame, tag, outputVars>>
  PROVE  Mp3Inv'
<1>1. /\ file' = file /\ stage' = stage /\ live' = live /\ frame' = frame /\ tag' = tag
      /\ filePos' = filePos /\ stream' = stream /\ size' = size /\ decoder' = decoder
      /\ current' = current /\ ask' = ask /\ temp' = temp /\ out' = out
  BY DEF inputVars, outputVars
<1>2. \A k : SearchingAt(k) => SearchingAt(k)'
  BY <1>1 DEF SearchingAt, InWindow, Fresh
<1>3. \A k : InspectingAt(k) => InspectingAt(k)'
  BY <1>1 DEF InspectingAt, InWindow
<1>4. \A k : ReadingAt(k) => ReadingAt(k)'
  <2> TAKE k
  <2> HAVE ReadingAt(k)
  <2>1. InWindow(k)' /\ Holding(k)' /\ (Finished(k) => Finished(k)')
    BY <1>1 DEF ReadingAt, InWindow, Holding, Finished
  <2>2. Collected' /\ Buffered' = Buffered
    BY <1>1 DEF ReadingAt, Collected, Buffered
  <2> QED BY <1>1, <2>1, <2>2 DEF ReadingAt
<1>5. Fresh => Fresh'
  BY <1>1 DEF Fresh
<1> QED BY <1>1, <1>2, <1>3, <1>4, <1>5 DEF Mp3Inv

\* Every step keeps the invariant.
LEMMA Mp3InvNext ==
  ASSUME Mp3Assumption, Mp3Inv, [Mp3Next]_mp3Vars
  PROVE  Mp3Inv'
<1>1. CASE ReadTags
  BY <1>1, ReadTagsInv
<1>2. CASE OutOfMemory
  BY <1>2, OutOfMemoryInv
<1>3. CASE Round
  BY <1>3, RoundInv
<1>4. CASE Inspect
  BY <1>4, InspectInv
<1>5. CASE Copy
  BY <1>5, CopyInv
<1>6. CASE AppendTemp
  BY <1>6, AppendTempInv
<1>7. CASE NoRoom
  BY <1>7, NoRoomInv
<1>8. CASE NothingRead
  BY <1>8, NothingReadInv
<1>9. CASE Uninit
  BY <1>9, UninitInv
<1>10. CASE \E f \in Streams : OpenFile(f)
  BY <1>10, OpenFileInv
<1>11. CASE UNCHANGED mp3Vars
  BY <1>11, Mp3Stutter DEF mp3Vars
<1> QED BY <1>1, <1>2, <1>3, <1>4, <1>5, <1>6, <1>7, <1>8, <1>9, <1>10, <1>11 DEF Mp3Next, Step

(***************************************************************************)
(* In every state load_mp3 can reach the window begins at an item of the   *)
(* file and ends before its tags, the decoder holds the main data of the   *)
(* frames in step before it, and what drmp3_read_pcm_frames_f32 collected  *)
(* are the samples up to the current one, in order.                        *)
(***************************************************************************)
THEOREM Mp3Invariant == ASSUME Mp3Assumption PROVE Mp3Spec => []Mp3Inv
<1>1. Mp3Init => Mp3Inv
  BY InitInv
<1>2. Mp3Inv /\ [Mp3Next]_mp3Vars => Mp3Inv'
  BY Mp3InvNext
<1> QED BY <1>1, <1>2, PTL DEF Mp3Spec, mp3Vars

(***************************************************************************)
(* For every file the program is meant for, whatever its size and wherever *)
(* the window is cut, load_mp3 returns every sample of the stream that can *)
(* be heard, in order and decoded from its own main data, without delay,   *)
(* padding and tags; or, out of memory, nothing.                           *)
(***************************************************************************)
THEOREM SoundAlwaysIsStream == ASSUME Mp3Assumption PROVE Mp3Spec => []SoundIsStream
<1>1. Mp3Inv => SoundIsStream
  BY DEF Mp3Inv, SoundIsStream
<1> QED BY <1>1, Mp3Invariant, PTL

(***************************************************************************)
(* For those files (no Xing tag together with tags at the end: with both,  *)
(* the cursor that drmp3__on_read clamps by falls behind the file's) no    *)
(* byte of a tag at the end enters the window.                             *)
(***************************************************************************)
THEOREM TagsNeverRead == ASSUME Mp3Assumption PROVE Mp3Spec => []TagsNotAudio
<1>1. ASSUME Mp3Inv PROVE TagsNotAudio
  <2>1. ASSUME stage \in {"read", "next", "append"} PROVE filePos <= AudioEnd(file)
    <3>1. PICK k : ReadingAt(k)
      BY <2>1, <1>1 DEF Mp3Inv
    <3> QED BY <3>1 DEF ReadingAt, InWindow
  <2>2. stage \in {"close", "loaded"} => filePos <= AudioEnd(file)
    BY <1>1 DEF Mp3Inv
  <2> QED BY <2>1, <2>2 DEF TagsNotAudio
<1> QED BY <1>1, Mp3Invariant, PTL
================================================================================
