------------------------ MODULE StreamingSession_proofs ------------------------
(***************************************************************************)
(* Proofs about a session of the demo, for any speech, audio of any length *)
(* and any durations in which the overlap lies within the chunk before:    *)
(* whatever is missing from the text or repeated in it lies in a chunk     *)
(* whose call came back short or in a window whose merge had no grounds,   *)
(* and for even speech without repeated wording there is no such window.   *)
(*                                                                         *)
(* The invariant: answers still unread belong to chunks that came back     *)
(* short, and before each window either the whole overlap has a cause      *)
(* already or the text ends with exactly the units of the overlap.  In the *)
(* first case a wrong cut is excused; in the second, with grounds, the     *)
(* longest match is the whole overlap, so the cut is exact.                *)
(***************************************************************************)
EXTENDS StreamingSession, DataInduction

(***************************************************************************)
(* Pieces of the perfect transcript.                                       *)
(***************************************************************************)
LEMMA PerfectIs ==
  ASSUME NEW lo \in Nat, NEW hi \in Nat, lo <= hi
  PROVE  /\ Perfect(lo, hi) \in Seq(Units(lo, hi)) /\ Len(Perfect(lo, hi)) = hi - lo
         /\ \A i \in 1..(hi - lo) : Perfect(lo, hi)[i] = lo + i - 1
<1>1. hi - lo \in Nat
  OBVIOUS
<1>2. Perfect(lo, hi) \in [1..(hi - lo) -> Units(lo, hi)]
  BY DEF Perfect, Units
<1>3. Perfect(lo, hi) \in Seq(Units(lo, hi)) /\ Len(Perfect(lo, hi)) = hi - lo
  BY <1>1, <1>2, AsSequence
<1>4. \A i \in 1..(hi - lo) : Perfect(lo, hi)[i] = lo + i - 1
  BY DEF Perfect
<1> QED BY <1>3, <1>4

LEMMA PerfectFromStart ==
  ASSUME NEW p \in Nat
  PROVE  /\ Perfect(0, p) \in Seq(Units(0, p)) /\ Len(Perfect(0, p)) = p
         /\ \A i \in 1..p : Perfect(0, p)[i] = i - 1
<1>1. 0 \in Nat /\ 0 <= p /\ p - 0 = p
  OBVIOUS
<1>2. /\ Perfect(0, p) \in Seq(Units(0, p)) /\ Len(Perfect(0, p)) = p - 0
      /\ \A i \in 1..(p - 0) : Perfect(0, p)[i] = 0 + i - 1
  BY <1>1, PerfectIs
<1> HIDE DEF Perfect
<1> QED BY <1>1, <1>2

LEMMA PrefixType ==
  ASSUME NEW lo \in Nat, NEW hi \in Nat, lo <= hi, NEW n \in 0..(hi - lo)
  PROVE  SubSeq(Perfect(lo, hi), 1, n) \in Seq(Units(lo, hi))
<1>1. Perfect(lo, hi) \in Seq(Units(lo, hi)) /\ Len(Perfect(lo, hi)) = hi - lo
  BY PerfectIs
<1>2. n \in Nat /\ n <= hi - lo
  OBVIOUS
<1> HIDE DEF Perfect
<1> QED BY <1>1, <1>2

LEMMA WithoutIs ==
  ASSUME NEW T, NEW s \in Seq(T), NEW n \in Nat
  PROVE  /\ Without(s, n) \in Seq(T)
         /\ n <= Len(s) => /\ Len(Without(s, n)) = Len(s) - n
                           /\ \A i \in 1..(Len(s) - n) : Without(s, n)[i] = s[n + i]
BY DEF Without

(***************************************************************************)
(* The best match: the longest, of these the earliest in a, then in b.     *)
(***************************************************************************)
LEMMA BestMatch ==
  ASSUME NEW S \in SUBSET (Nat \X Nat \X Nat), NEW x \in S, NEW m \in Nat, \A y \in S : y[3] <= m
  PROVE  \E b \in S : \A y \in S : Better(b, y)
<1> DEFINE Gaps == {m - y[3] : y \in S}
<1>1. Gaps \in SUBSET Nat /\ m - x[3] \in Gaps
  OBVIOUS
<1>2. PICK g \in Gaps : \A h \in Gaps : g <= h
  BY <1>1, LeastOf
<1>3. PICK u \in S : g = m - u[3]
  OBVIOUS
<1>4. \A y \in S : y[3] <= u[3]
  <2> SUFFICES ASSUME NEW y \in S PROVE y[3] <= u[3]
    OBVIOUS
  <2>1. m - y[3] \in Gaps /\ y[3] \in Nat /\ u[3] \in Nat
    OBVIOUS
  <2>2. g <= m - y[3]
    BY <1>2, <2>1
  <2> QED BY <1>3, <2>1, <2>2
<1> DEFINE Firsts == {y[1] : y \in {z \in S : z[3] = u[3]}}
<1>5. Firsts \in SUBSET Nat /\ u[1] \in Firsts
  OBVIOUS
<1>6. PICK f \in Firsts : \A h \in Firsts : f <= h
  BY <1>5, LeastOf
<1>7. PICK v \in S : v[3] = u[3] /\ v[1] = f
  OBVIOUS
<1> DEFINE Seconds == {y[2] : y \in {z \in S : z[3] = u[3] /\ z[1] = f}}
<1>8. Seconds \in SUBSET Nat /\ v[2] \in Seconds
  BY <1>7
<1>9. PICK s \in Seconds : \A h \in Seconds : s <= h
  BY <1>8, LeastOf
<1>10. PICK b \in S : b[3] = u[3] /\ b[1] = f /\ b[2] = s
  BY <1>9
<1>11. ASSUME NEW y \in S PROVE Better(b, y)
  <2>1. y[3] <= u[3]
    BY <1>4
  <2>2. CASE y[3] = u[3]
    <3>1. y[1] \in Firsts
      BY <2>2
    <3>2. f <= y[1]
      BY <1>6, <3>1
    <3>3. CASE y[1] = f
      <4>1. y[2] \in Seconds
        BY <2>2, <3>3
      <4>2. s <= y[2]
        BY <1>9, <4>1
      <4> QED BY <1>10, <2>2, <3>3, <4>2 DEF Better
    <3>4. CASE y[1] # f
      BY <1>10, <2>2, <3>2, <3>4 DEF Better
    <3> QED BY <3>3, <3>4
  <2>3. CASE y[3] # u[3]
    BY <1>10, <2>1, <2>3 DEF Better
  <2> QED BY <2>2, <2>3
<1> QED BY <1>11

LEMMA BestIsMatch ==
  ASSUME NEW T, NEW a \in Seq(T), NEW b \in Seq(T), Long(a, b) # {}
  PROVE  /\ Best(a, b) \in Long(a, b)
         /\ \A n \in Long(a, b) : Better(Best(a, b), n)
<1>1. Long(a, b) \in SUBSET (Nat \X Nat \X Nat) /\ Len(a) \in Nat /\ \A y \in Long(a, b) : y[3] <= Len(a)
  BY SMTT(30) DEF Long, Matches
<1>2. PICK x \in Long(a, b) : TRUE
  OBVIOUS
<1>3. \E m \in Long(a, b) : \A n \in Long(a, b) : Better(m, n)
  BY <1>1, <1>2, BestMatch
<1> QED BY <1>3 DEF Best

MatchAt(a, b, m, i, j, l) ==
  /\ i \in 1..Len(a) /\ j \in 1..Len(b) /\ l \in 1..Len(a)
  /\ m[1] = i /\ m[2] = j /\ m[3] = l /\ l >= MinMatch
  /\ i + l - 1 <= Len(a) /\ j + l - 1 <= Len(b)
  /\ \A k \in 0..(l - 1) : audio.said[a[i + k]] = audio.said[b[j + k]]

LEMMA MatchIs ==
  ASSUME NEW a, NEW b, NEW m \in Long(a, b)
  PROVE  \E i, j, l : MatchAt(a, b, m, i, j, l)
<1>1. MatchAt(a, b, m, m[1], m[2], m[3])
  BY DEF Long, Matches, MatchAt
<1> QED BY <1>1

(***************************************************************************)
(* What _lcs_dedup cuts from the new text.                                 *)
(***************************************************************************)
Cut(prev, new, width) ==
  LET long == Long(TailOf(prev, new, width), HeadOf(new, width))
      m == Best(TailOf(prev, new, width), HeadOf(new, width))
  IN  IF prev = <<>> \/ new = <<>> THEN 0 ELSE IF long = {} THEN Share(new, width) ELSE m[2] + m[3] - 1

LEMMA ShareNat ==
  ASSUME NEW T, NEW new \in Seq(T), NEW width \in Nat \ {0}
  PROVE  Share(new, width) \in Nat
<1>1. Len(new) * Overlap \in Nat
  BY SessionAssumption
<1> QED BY <1>1, DivisionBounds DEF Share

LEMMA TailAndHead ==
  ASSUME NEW T, NEW prev \in Seq(T), NEW new \in Seq(T), NEW width \in Nat \ {0}
  PROVE  LET t == TailOf(prev, new, width)
             h == HeadOf(new, width)
             sl == Share(new, width) + Slack
         IN  /\ t \in Seq(T) /\ h \in Seq(T) /\ sl \in Nat
             /\ Len(t) = Smaller(Len(prev), sl) /\ Len(h) = Smaller(Len(new), sl)
             /\ \A i \in 1..Len(t) : t[i] = prev[Len(prev) - Len(t) + i]
             /\ \A i \in 1..Len(h) : h[i] = new[i]
<1> DEFINE sl == Share(new, width) + Slack
           k == Smaller(Len(prev), sl)
           l == Smaller(Len(new), sl)
<1>1. sl \in Nat
  BY ShareNat, SessionAssumption, SMTT(30)
<1> HIDE DEF sl
<1>2. /\ Len(prev) \in Nat /\ Len(new) \in Nat
      /\ k \in Nat /\ k <= Len(prev) /\ l \in Nat /\ l <= Len(new)
  BY <1>1 DEF Smaller
<1> HIDE DEF k, l
<1>3. /\ Without(prev, Len(prev) - k) \in Seq(T) /\ Len(Without(prev, Len(prev) - k)) = k
      /\ \A i \in 1..k : Without(prev, Len(prev) - k)[i] = prev[Len(prev) - k + i]
  <2> DEFINE d == Len(prev) - k
  <2>1. d \in Nat /\ d <= Len(prev) /\ Len(prev) - d = k
    BY <1>2
  <2> HIDE DEF d
  <2>2. /\ Without(prev, d) \in Seq(T) /\ Len(Without(prev, d)) = Len(prev) - d
        /\ \A i \in 1..(Len(prev) - d) : Without(prev, d)[i] = prev[d + i]
    BY <2>1, WithoutIs, Zenon
  <2> QED BY <2>1, <2>2, Zenon DEF d
<1>4. /\ SubSeq(new, 1, l) \in Seq(T) /\ Len(SubSeq(new, 1, l)) = l
      /\ \A i \in 1..l : SubSeq(new, 1, l)[i] = new[i]
  BY <1>2
<1> QED BY <1>1, <1>3, <1>4 DEF TailOf, HeadOf, k, l, sl

LEMMA DedupCuts ==
  ASSUME NEW T, NEW prev \in Seq(T), NEW new \in Seq(T), NEW width \in Nat \ {0}
  PROVE  /\ Cut(prev, new, width) \in Nat
         /\ Dedup(prev, new, width) = Without(new, Cut(prev, new, width))
<1> DEFINE t == TailOf(prev, new, width)
           h == HeadOf(new, width)
<1>1. t \in Seq(T) /\ h \in Seq(T)
  BY TailAndHead
<1>2. ASSUME Long(t, h) # {} PROVE Best(t, h)[2] + Best(t, h)[3] - 1 \in Nat
  <2>1. Best(t, h) \in Long(t, h)
    BY <1>1, <1>2, BestIsMatch
  <2>2. \E i, j, l : MatchAt(t, h, Best(t, h), i, j, l)
    BY <2>1, MatchIs
  <2>3. PICK j \in 1..Len(h), l \in 1..Len(t) : Best(t, h)[2] = j /\ Best(t, h)[3] = l
    BY <2>2 DEF MatchAt
  <2> HIDE DEF t, h
  <2> QED BY <1>1, <2>3
<1>3. Cut(prev, new, width) \in Nat
  BY <1>2, ShareNat DEF Cut
<1>4. Without(new, 0) = new
  BY DEF Without
<1>5. Dedup(prev, new, width) = Without(new, Cut(prev, new, width))
  BY <1>4 DEF Dedup, Cut
<1> QED BY <1>3, <1>5

\* The last n elements of the text are the units before p.
EndsBefore(s, n, p) == n <= Len(s) /\ \A i \in 1..n : s[Len(s) - n + i] = p - n + i - 1

(***************************************************************************)
(* A whole window whose merge has grounds is cut within the overlap; when  *)
(* the text ends with the overlap, it is cut at its end.                   *)
(***************************************************************************)
LEMMA CutOfPerfect ==
  ASSUME NEW start \in Nat, NEW p \in Nat, NEW end \in Nat, start <= p, p <= end,
         NEW width \in Nat \ {0}, NEW prev \in Seq(Units(0, p)),
         Grounds(prev, Perfect(start, end), p - start, width)
  PROVE  LET q == Cut(prev, Perfect(start, end), width)
         IN  /\ q \in 0..(p - start)
             /\ EndsBefore(prev, p - start, p) => q = p - start
<1> DEFINE overlap == p - start
           new == Perfect(start, end)
           t == TailOf(prev, new, width)
           h == HeadOf(new, width)
           q == Cut(prev, new, width)
           share == Share(new, width)
           T == Units(0, end)
<1>1. MinMatch \in Nat \ {0} /\ Slack \in Nat \ {0}
  BY SessionAssumption
<1>2. overlap \in Nat /\ overlap = p - start /\ overlap <= end - start /\ end - start \in Nat
  OBVIOUS
<1> HIDE DEF overlap
<1>3. /\ new \in Seq(Units(start, end)) /\ Len(new) = end - start
      /\ \A i \in 1..(end - start) : new[i] = start + i - 1
  <2>1. start <= end
    OBVIOUS
  <2> QED BY <2>1, PerfectIs
<1>4. Units(start, end) \subseteq T /\ Units(0, p) \subseteq T
  BY DEF Units
<1>5. new \in Seq(T) /\ prev \in Seq(T) /\ Len(prev) \in Nat
  <2> HIDE DEF new, T
  <2> QED BY <1>3, <1>4
<1> HIDE DEF new, T
<1>6. share \in Nat
  BY <1>5, ShareNat
<1>7. /\ t \in Seq(T) /\ h \in Seq(T)
      /\ Len(t) = Smaller(Len(prev), share + Slack) /\ Len(h) = Smaller(end - start, share + Slack)
      /\ \A i \in 1..Len(t) : t[i] = prev[Len(prev) - Len(t) + i]
      /\ \A i \in 1..Len(h) : h[i] = new[i]
  <2>1. /\ t \in Seq(T) /\ h \in Seq(T)
        /\ Len(t) = Smaller(Len(prev), Share(new, width) + Slack)
        /\ Len(h) = Smaller(Len(new), Share(new, width) + Slack)
        /\ \A i \in 1..Len(t) : t[i] = prev[Len(prev) - Len(t) + i]
        /\ \A i \in 1..Len(h) : h[i] = new[i]
    BY <1>5, TailAndHead
  <2> HIDE DEF t, h
  <2> QED BY <1>3, <2>1
<1>8. Grounds(prev, new, overlap, width)
  BY DEF new, overlap
<1>9. q = IF prev = <<>> \/ new = <<>> THEN 0 ELSE IF Long(t, h) = {} THEN share ELSE Best(t, h)[2] + Best(t, h)[3] - 1
  BY DEF Cut
\* Nothing to merge.
<1>10. CASE prev = <<>> \/ new = <<>>
  <2>1. q = 0
    BY <1>9, <1>10
  <2>2. EndsBefore(prev, overlap, p) => overlap = 0
    <3>1. CASE prev = <<>>
      BY <1>2, <3>1 DEF EndsBefore
    <3>2. CASE new = <<>>
      BY <1>2, <1>3, <3>2
    <3> QED BY <1>10, <3>1, <3>2
  <2> HIDE DEF q
  <2> QED BY <1>2, <2>1, <2>2 DEF overlap, q, new
<1>11. CASE prev # <<>> /\ new # <<>>
  <2>1. /\ overlap <= share + Slack
        /\ Long(t, h) = {} => share = overlap
        /\ SameSpeech(t, h)
    BY <1>8, <1>11 DEF Grounds
  <2>2. q = IF Long(t, h) = {} THEN share ELSE Best(t, h)[2] + Best(t, h)[3] - 1
    BY <1>9, <1>11
  <2> HIDE DEF t, h, q, share
  <2>3. Len(h) \in Nat /\ Len(h) <= end - start /\ Len(h) >= overlap /\ Len(t) \in Nat /\ Len(t) <= Len(prev)
    BY <1>1, <1>2, <1>5, <1>6, <1>7, <2>1, SMTT(30) DEF Smaller
  <2>4. ASSUME NEW i \in 1..Len(h) PROVE h[i] = start + i - 1
    <3>1. i \in 1..(end - start)
      BY <1>2, <2>3
    <3>2. h[i] = new[i] /\ new[i] = start + i - 1
      BY <1>3, <1>7, <3>1
    <3> QED BY <3>2
  <2>5. \A i \in 1..Len(t) : t[i] < p /\ t[i] \in Nat
    <3> TAKE i \in 1..Len(t)
    <3>1. Len(prev) - Len(t) + i \in 1..Len(prev)
      BY <1>5, <2>3
    <3>2. prev[Len(prev) - Len(t) + i] \in Units(0, p)
      BY <3>1
    <3> QED BY <1>7, <3>2, SMTT(30) DEF Units
\* A match ends within the overlap: it is the same speech, and the text is not ahead of it.
  <2>6. ASSUME NEW m \in Long(t, h) PROVE m[3] \in Nat \ {0} /\ m[2] \in Nat \ {0} /\ m[2] + m[3] - 1 <= overlap
    <3>0. PICK i, j, l : MatchAt(t, h, m, i, j, l)
      BY MatchIs
    <3>1. /\ i \in 1..Len(t) /\ j \in 1..Len(h) /\ l \in 1..Len(t)
          /\ m[1] = i /\ m[2] = j /\ m[3] = l /\ l >= MinMatch
          /\ i + l - 1 <= Len(t) /\ j + l - 1 <= Len(h)
      BY <3>0 DEF MatchAt
    <3>2. l - 1 \in 0..(l - 1) /\ i + (l - 1) \in 1..Len(t) /\ j + (l - 1) \in 1..Len(h)
      BY <2>3, <3>1
    <3>3. t[i + (l - 1)] = h[j + (l - 1)]
      BY <2>1, <3>1, <3>2 DEF SameSpeech
    <3>4. h[j + (l - 1)] = start + (j + (l - 1)) - 1
      BY <2>4, <3>2
    <3>5. t[i + (l - 1)] < p
      BY <2>5, <3>2
    <3>6. j + l - 1 <= overlap
      BY <1>2, <2>3, <3>1, <3>3, <3>4, <3>5
    <3>7. l \in Nat \ {0} /\ j \in Nat \ {0}
      BY <2>3, <3>1, SMTT(30)
    <3> QED BY <3>1, <3>6, <3>7
  <2>7. q \in 0..overlap
    <3>1. ASSUME Long(t, h) # {} PROVE Best(t, h)[2] + Best(t, h)[3] - 1 \in 0..overlap
      <4>1. Best(t, h) \in Long(t, h)
        BY <1>7, <3>1, BestIsMatch
      <4>2. /\ Best(t, h)[3] \in Nat \ {0} /\ Best(t, h)[2] \in Nat \ {0}
            /\ Best(t, h)[2] + Best(t, h)[3] - 1 <= overlap
        BY <2>6, <4>1
      <4> QED BY <1>2, <4>2, SMTT(30)
    <3> QED BY <1>2, <2>1, <2>2, <3>1
  <2>8. ASSUME EndsBefore(prev, overlap, p) PROVE q = overlap
    <3>1. Len(prev) >= overlap /\ \A i \in 1..overlap : prev[Len(prev) - overlap + i] = start + i - 1
      BY <1>2, <2>8 DEF EndsBefore
    <3>2. Len(t) >= overlap
      BY <1>1, <1>2, <1>5, <1>6, <1>7, <2>1, <3>1, SMTT(30) DEF Smaller
    <3>3. CASE overlap >= MinMatch
      <4> DEFINE whole == <<Len(t) - overlap + 1, 1, overlap>>
      <4>1. /\ Len(t) - overlap + 1 \in 1..Len(t) /\ 1 \in 1..Len(h) /\ overlap \in 1..Len(t)
            /\ (Len(t) - overlap + 1) + overlap - 1 <= Len(t) /\ 1 + overlap - 1 <= Len(h)
        BY <1>1, <1>2, <2>3, <3>2, <3>3
      <4>2. ASSUME NEW k \in 0..(overlap - 1) PROVE t[(Len(t) - overlap + 1) + k] = h[1 + k]
        <5>1. /\ (Len(t) - overlap + 1) + k \in 1..Len(t) /\ 1 + k \in 1..Len(h) /\ k + 1 \in 1..overlap
              /\ Len(prev) - Len(t) + ((Len(t) - overlap + 1) + k) = Len(prev) - overlap + (k + 1)
          BY <1>2, <1>5, <2>3, <3>2
        <5>2. t[(Len(t) - overlap + 1) + k] = prev[Len(prev) - overlap + (k + 1)]
          BY <1>7, <5>1
        <5>3. prev[Len(prev) - overlap + (k + 1)] = start + (k + 1) - 1
          BY <3>1, <5>1
        <5>4. h[1 + k] = start + (1 + k) - 1
          BY <2>4, <5>1
        <5> QED BY <5>2, <5>3, <5>4
      <4>3. whole \in Long(t, h)
        BY <3>3, <4>1, <4>2 DEF Long, Matches
      <4>4. Best(t, h) \in Long(t, h) /\ Better(Best(t, h), whole)
        BY <1>7, <4>3, BestIsMatch
      <4>5. /\ Best(t, h)[3] \in Nat \ {0} /\ Best(t, h)[2] \in Nat \ {0}
            /\ Best(t, h)[2] + Best(t, h)[3] - 1 <= overlap
        BY <2>6, <4>4
      <4>6. Best(t, h)[3] >= overlap
        BY <1>2, <4>4, <4>5 DEF Better
      <4>7. Best(t, h)[2] + Best(t, h)[3] - 1 = overlap
        BY <1>2, <4>5, <4>6, SMTT(30)
      <4> QED BY <2>2, <4>3, <4>7
    <3>4. CASE overlap < MinMatch
      <4>1. Long(t, h) = {}
        <5> SUFFICES ASSUME NEW m \in Long(t, h) PROVE FALSE
          OBVIOUS
        <5>1. m[3] >= MinMatch
          BY DEF Long
        <5>2. m[3] \in Nat \ {0} /\ m[2] \in Nat \ {0} /\ m[2] + m[3] - 1 <= overlap
          BY <2>6
        <5> QED BY <1>1, <1>2, <3>4, <5>1, <5>2, SMTT(30)
      <4> QED BY <2>1, <2>2, <4>1
    <3> QED BY <1>1, <1>2, <3>3, <3>4
  <2>9. q \in 0..overlap /\ (EndsBefore(prev, overlap, p) => q = overlap)
    BY <2>7, <2>8
  <2> QED BY <2>9 DEF q, new, overlap
<1> QED BY <1>10, <1>11

(***************************************************************************)
(* What a recording says before two instants.                              *)
(***************************************************************************)
LEMMA SaidBefore ==
  ASSUME audio \in Recordings
  PROVE  /\ audio.length \in Nat \ {0} /\ audio.at[0] = 0
         /\ \A t \in 0..audio.length : audio.at[t] \in Nat
         /\ \A s, t \in 0..audio.length : s <= t => audio.at[s] <= audio.at[t]
         /\ DOMAIN audio.said = 0..(audio.at[audio.length] - 1)
<1>1. IsRecording(audio)
  BY SessionAssumption
<1> QED BY <1>1 DEF IsRecording

(***************************************************************************)
(* The invariant.                                                          *)
(***************************************************************************)
OverlapReady ==
  LET lo == audio.at[pos - Overlap]
      hi == audio.at[pos]
  IN  /\ Overlap <= pos
      /\ Units(lo, hi) \subseteq short \cup unsure \/ EndsBefore(text, hi - lo, hi)

Known ==
  /\ audio \in Recordings /\ pos \in 0..audio.length
  /\ phase \in {"start", "draft", "refine", "windows", "done", "raised"}
  /\ phase = "start" => pos = 0 /\ text = <<>> /\ unread = <<>>
  /\ phase = "draft" => pos = 0 /\ audio.length > Draft + Margin
  /\ phase = "refine" => pos = Draft /\ audio.length > Draft + Margin
  /\ phase \in {"start", "draft", "refine"} => unsure = {}

Exact ==
  /\ short = {} /\ unsure = {} => text = Perfect(0, audio.at[pos])
  /\ Plain(audio) /\ short = {} => unsure = {}

SessionInv ==
  /\ Known
  /\ text \in Seq(Units(0, audio.at[pos]))
  /\ unread \in Seq(Seq(short \cap Units(0, audio.at[pos])))
  /\ phase = "windows" /\ pos < audio.length => OverlapReady
  /\ MissingHasCause /\ BackwardsHasCause /\ Exact

LEMMA PerfectNothing == Perfect(0, 0) = <<>>
BY DEF Perfect

LEMMA InvBegins == SessionInit => SessionInv
<1> SUFFICES ASSUME SessionInit PROVE SessionInv
  OBVIOUS
<1>0. audio \in Recordings /\ audio.length \in Nat \ {0} /\ audio.at[0] = 0
  BY SaidBefore DEF SessionInit
<1>1. Known
  BY <1>0 DEF SessionInit, Known
<1>2. /\ text = <<>> /\ unread = <<>> /\ pos = 0 /\ phase = "start" /\ audio.at[pos] = 0
      /\ short = {} /\ unsure = {}
  BY <1>0 DEF SessionInit
<1>3. <<>> \in Seq(Units(0, 0)) /\ <<>> \in Seq(Seq(short \cap Units(0, 0)))
  OBVIOUS
<1>4. MissingHasCause /\ BackwardsHasCause
  BY <1>2 DEF MissingHasCause, BackwardsHasCause, Units
<1>5. Exact
  BY <1>2, PerfectNothing DEF Exact
<1> QED BY <1>1, <1>2, <1>3, <1>4, <1>5 DEF SessionInv

(***************************************************************************)
(* A call: what it returns, and what is left unread.                       *)
(***************************************************************************)
Answered(lo, hi, a) ==
  /\ \/ a = Perfect(lo, hi) /\ short' = short
     \/ a \in Seq(short' \cap Units(0, hi)) /\ short' = short \cup Units(lo, hi)
  /\ unread' \in Seq(Seq(short' \cap Units(0, hi)))

\* An old answer that happens to be the chunk's own text is of units that came
\* back short before.
LEMMA PerfectCovers ==
  ASSUME NEW lo \in Nat, NEW hi \in Nat, lo <= hi, NEW X, Perfect(lo, hi) \in Seq(X)
  PROVE  Units(lo, hi) \subseteq X
<1>1. Len(Perfect(lo, hi)) = hi - lo /\ \A i \in 1..(hi - lo) : Perfect(lo, hi)[i] = lo + i - 1
  BY PerfectIs
<1> HIDE DEF Perfect
<1>2. ASSUME NEW x \in Units(lo, hi) PROVE x \in X
  <2>1. x \in Nat /\ x - lo + 1 \in 1..(hi - lo)
    BY <1>2 DEF Units
  <2>2. Perfect(lo, hi)[x - lo + 1] = lo + (x - lo + 1) - 1
    BY <1>1, <2>1
  <2>3. Perfect(lo, hi)[x - lo + 1] = x
    BY <2>1, <2>2
  <2>4. Perfect(lo, hi)[x - lo + 1] \in X
    BY <1>1, <2>1
  <2> QED BY <2>3, <2>4
<1> QED BY <1>2

LEMMA OwnAnswer ==
  ASSUME NEW lo \in Nat, NEW hi \in Nat, lo <= hi, NEW n \in 0..(hi - lo), NEW X, Units(lo, hi) \subseteq X
  PROVE  SubSeq(Perfect(lo, hi), 1, n) \in Seq(X \cap Units(0, hi))
<1>1. SubSeq(Perfect(lo, hi), 1, n) \in Seq(Units(lo, hi))
  BY PrefixType
<1>2. Units(lo, hi) \subseteq X \cap Units(0, hi)
  BY DEF Units
<1> HIDE DEF Units
<1> DEFINE s == SubSeq(Perfect(lo, hi), 1, n)
<1> HIDE DEF s
<1>3. s \in Seq(Units(lo, hi))
  BY <1>1 DEF s
<1>4. s \in Seq(X \cap Units(0, hi))
  BY <1>2, <1>3
<1> QED BY <1>4 DEF s

\* The first of two queues of texts, and what is left.
LEMMA QueueOf ==
  ASSUME NEW T, NEW u \in Seq(Seq(T)), NEW a \in Seq(Seq(T)), a # <<>>
  PROVE  /\ Head(u \o a) \in Seq(T) /\ Tail(u \o a) \in Seq(Seq(T))
         /\ u # <<>> => Head(u \o a) = Head(u) /\ Head(u) \in Seq(T)
         /\ u = <<>> => u \o a = a
<1> DEFINE V == Seq(T)
<1>1. u \in Seq(V) /\ a \in Seq(V)
  OBVIOUS
<1> HIDE DEF V
<1>2. u \o a \in Seq(V) /\ u \o a # <<>>
  BY <1>1
<1>3. u # <<>> => (u \o a)[1] = u[1] /\ u[1] \in V
  BY <1>1
<1>4. u = <<>> => u \o a = a
  BY <1>1
<1>5. Head(u \o a) \in V /\ Tail(u \o a) \in Seq(V)
  BY <1>2
<1>6. u # <<>> => Head(u \o a) = Head(u) /\ Head(u) \in V
  BY <1>3
<1> QED BY <1>4, <1>5, <1>6 DEF V

LEMMA SeqWider ==
  ASSUME NEW T, NEW U, T \subseteq U
  PROVE  /\ Seq(T) \subseteq Seq(U) /\ Seq(Seq(T)) \subseteq Seq(Seq(U))
<1>1. Seq(T) \subseteq Seq(U)
  OBVIOUS
<1> DEFINE V == Seq(T)
           W == Seq(U)
<1>2. V \subseteq W
  BY <1>1
<1> HIDE DEF V, W
<1>3. Seq(V) \subseteq Seq(W)
  BY <1>2
<1> QED BY <1>1, <1>3 DEF V, W

LEMMA InferAnswers ==
  ASSUME SessionInv, NEW lo \in Nat, NEW hi \in Nat, lo <= hi, audio.at[pos] <= hi, NEW a, Infer(lo, hi, a)
  PROVE  Answered(lo, hi, a)
<1> DEFINE own == short \cup Units(lo, hi)
           T == own \cap Units(0, hi)
           p == audio.at[pos]
           Old == short \cap Units(0, p)
<1>1. p \in Nat /\ p <= hi /\ Units(lo, hi) \subseteq own
  BY SaidBefore DEF SessionInv, Known
<1>2. unread \in Seq(Seq(Old)) /\ Old \subseteq T /\ Old \subseteq short
      /\ Old \subseteq short \cap Units(0, hi)
  <2>1. unread \in Seq(Seq(Old))
    BY DEF SessionInv
  <2> HIDE DEF p
  <2>2. Units(0, p) \subseteq Units(0, hi)
    BY <1>1 DEF Units
  <2> QED BY <2>1, <2>2
<1> HIDE DEF p
<1>3. unread \in Seq(Seq(T)) /\ unread \in Seq(Seq(short \cap Units(0, hi)))
  <2> HIDE DEF T, Old
  <2> QED BY <1>2, SeqWider, Zenon
<1>4. short' = IF a = Perfect(lo, hi) THEN short ELSE own
  BY DEF Infer
<1>5. ASSUME NEW n \in 0..(hi - lo) PROVE SubSeq(Perfect(lo, hi), 1, n) \in Seq(T)
  BY <1>1, OwnAnswer
<1>6. \A X : <<>> \in Seq(X)
  OBVIOUS
\* Nothing new is left unread, or the answer is not the chunk's own.
<1>7. CASE a \in Seq(T) /\ a \in Seq(short) /\ unread' \in Seq(Seq(T))
  <2>1. CASE a = Perfect(lo, hi)
    <3>1. Units(lo, hi) \subseteq short
      BY <1>7, <2>1, PerfectCovers
    <3>2. own = short /\ short' = short
      BY <1>4, <2>1, <3>1
    <3> QED BY <1>7, <2>1, <3>2 DEF Answered
  <2>2. CASE a # Perfect(lo, hi)
    BY <1>4, <1>7, <2>2 DEF Answered
  <2> QED BY <2>1, <2>2
<1>8. CASE a \in Seq(T) /\ unread' = unread
  BY <1>3, <1>4, <1>8 DEF Answered
<1>9. ASSUME NEW ans \in Answers(lo, hi) PROVE ans \in Seq(Seq(T)) /\ ans # <<>>
  <2>1. CASE \E n \in 0..(hi - lo) : ans = <<SubSeq(Perfect(lo, hi), 1, n)>>
    <3>1. PICK n \in 0..(hi - lo) : ans = <<SubSeq(Perfect(lo, hi), 1, n)>>
      BY <2>1
    <3> DEFINE V == Seq(T)
               s == SubSeq(Perfect(lo, hi), 1, n)
    <3>2. s \in V
      BY <1>5
    <3> HIDE DEF V, s
    <3>3. <<s>> \in Seq(V) /\ <<s>> # <<>>
      BY <3>2
    <3> QED BY <3>1, <3>3 DEF V, s
  <2>2. CASE ans = << <<>>, <<>> >>
    <3> DEFINE V == Seq(T)
    <3>1. <<>> \in V
      BY <1>6
    <3> HIDE DEF V
    <3>2. << <<>>, <<>> >> \in Seq(V) /\ << <<>>, <<>> >> # <<>>
      BY <3>1
    <3> QED BY <2>2, <3>2 DEF V
  <2> QED BY <2>1, <2>2 DEF Answers
<1>10. CASE FromServer(lo, hi, a)
  <2>1. PICK ans \in Answers(lo, hi) : a = Head(unread \o ans) /\ unread' = Tail(unread \o ans)
    BY <1>10 DEF FromServer
  <2>2. ans \in Seq(Seq(T)) /\ ans # <<>>
    BY <1>9
  <2> HIDE DEF T, own
  <2>3. a \in Seq(T) /\ unread' \in Seq(Seq(T))
    BY <1>3, <2>1, <2>2, QueueOf
  <2>4. CASE unread # <<>>
    <3>1. a \in Seq(Old)
      <4>1. a = Head(unread)
        BY <1>3, <2>1, <2>2, <2>4, QueueOf
      <4> DEFINE V == Seq(Old)
      <4>2. unread \in Seq(V)
        BY <1>2
      <4> HIDE DEF V
      <4>3. Head(unread) \in V
        BY <2>4, <4>2
      <4> QED BY <4>1, <4>3 DEF V
    <3>2. a \in Seq(short)
      <4> HIDE DEF Old
      <4> QED BY <1>2, <3>1, SeqWider, Zenon
    <3> QED BY <1>7, <2>3, <3>2
  <2>5. CASE unread = <<>>
    <3>1. a = Head(ans) /\ unread' = Tail(ans)
      BY <1>3, <2>1, <2>2, <2>5, QueueOf
    <3>2. CASE \E n \in 0..(hi - lo) : ans = <<SubSeq(Perfect(lo, hi), 1, n)>>
      <4>1. PICK s : ans = <<s>>
        BY <3>2
      <4>2. unread' = <<>>
        BY <3>1, <4>1
      <4> QED BY <1>8, <2>3, <2>5, <4>2
    <3>3. CASE ans = << <<>>, <<>> >>
      <4>1. a = <<>>
        BY <3>1, <3>3
      <4> QED BY <1>6, <1>7, <2>3, <4>1
    <3> QED BY <3>2, <3>3 DEF Answers
  <2> QED BY <2>4, <2>5
<1>11. CASE FromDyingServer(lo, hi, a)
  BY <1>5, <1>8, <1>11 DEF FromDyingServer
<1>12. CASE FromDeadServer(lo, hi, a)
  BY <1>6, <1>8, <1>12 DEF FromDeadServer
<1>13. CASE FromTool(lo, hi, a)
  BY <1>5, <1>8, <1>13 DEF FromTool
<1> QED BY <1>10, <1>11, <1>12, <1>13 DEF Infer

(***************************************************************************)
(* Steps.                                                                  *)
(***************************************************************************)
LEMMA TextElements ==
  ASSUME NEW T, NEW s \in Seq(T)
  PROVE  Len(s) \in Nat /\ DOMAIN s = 1..Len(s) /\ \A i \in 1..Len(s) : s[i] \in T
OBVIOUS

\* All of it came back short.
LEMMA AllShort ==
  ASSUME NEW p \in Nat, p = (audio.at[pos])', text' \in Seq(Units(0, p)), Units(0, p) \subseteq short',
         unsure' = {}
  PROVE  MissingHasCause' /\ BackwardsHasCause' /\ Exact'
<1>1. DOMAIN text' = 1..Len(text') /\ \A i \in 1..Len(text') : text'[i] \in short'
  BY TextElements
<1>2. MissingHasCause' /\ BackwardsHasCause'
  BY <1>1 DEF MissingHasCause, BackwardsHasCause
<1>3. ASSUME short' = {} PROVE text' = Perfect(0, p)
  <2>0. 0 < p => 0 \in Units(0, p)
    BY DEF Units
  <2>1. p = 0 /\ Units(0, p) = {}
    BY <1>3, <2>0
  <2>2. Len(text') \in Nat /\ \A i \in 1..Len(text') : FALSE
    BY <1>1, <1>3, TextElements
  <2>3. text' = <<>>
    BY <2>2
  <2> QED BY <2>1, <2>3, PerfectNothing
<1> QED BY <1>2, <1>3 DEF Exact

\* All of it came back.
LEMMA AllPerfect ==
  ASSUME NEW p \in Nat, p = (audio.at[pos])', text' = Perfect(0, p), unsure' = {}
  PROVE  /\ text' \in Seq(Units(0, p)) /\ MissingHasCause' /\ BackwardsHasCause' /\ Exact'
         /\ \A n \in 0..p : EndsBefore(text', n, p)
<1> DEFINE s == text'
<1>1. /\ s \in Seq(Units(0, p)) /\ Len(s) = p
      /\ \A i \in 1..p : s[i] = i - 1
  BY PerfectFromStart
<1>2. DOMAIN s = 1..p
  BY <1>1, TextElements
<1> HIDE DEF s
<1>3. ASSUME NEW x \in Units(0, p) PROVE \E i \in DOMAIN s : s[i] = x
  <2>1. x \in 0..(p - 1)
    BY DEF Units
  <2>2. x + 1 \in 1..p
    BY <2>1
  <2>3. s[x + 1] = x
    BY <1>1, <2>1, <2>2
  <2> QED BY <1>2, <2>2, <2>3
<1>4. \A x \in Units(0, p) : x \in Heard'
  BY <1>3 DEF Heard, s
<1>5. \A i, j \in 1..p : i < j => s[j] > s[i]
  BY <1>1
<1>6. ASSUME NEW n \in 0..p PROVE EndsBefore(s, n, p)
  <2>1. n \in Nat /\ n <= Len(s)
    BY <1>1
  <2>2. ASSUME NEW i \in 1..n PROVE s[Len(s) - n + i] = p - n + i - 1
    <3>1. Len(s) - n + i \in 1..p
      BY <1>1, <2>1, SMTT(30)
    <3> QED BY <1>1, <3>1, SMTT(30)
  <2> QED BY <2>1, <2>2 DEF EndsBefore
<1>7. MissingHasCause'
  BY <1>4 DEF MissingHasCause
<1>8. BackwardsHasCause'
  <2>1. \A i, j \in DOMAIN s : ~(i < j /\ s[j] <= s[i])
    BY <1>1, <1>2, <1>5
  <2> QED BY <2>1 DEF BackwardsHasCause, s
<1>9. Exact'
  BY DEF Exact
<1> QED BY <1>1, <1>6, <1>7, <1>8, <1>9 DEF s

\* A chunk from the start of the audio: the answer, or the text so far.
LEMMA ChunkFromStart ==
  ASSUME SessionInv, NEW end \in Nat, audio.at[pos] <= end, end = (audio.at[pos])', NEW a, Answered(0, end, a),
         text' = a \/ (a = <<>> /\ text' = text), unsure' = {}
  PROVE  /\ text' \in Seq(Units(0, end)) /\ MissingHasCause' /\ BackwardsHasCause' /\ Exact'
         /\ unread' \in Seq(Seq(short' \cap Units(0, end)))
         /\ Units(0, end) \subseteq short' \/ text' = Perfect(0, end)
<1>0. text \in Seq(Units(0, end))
  <2>1. text \in Seq(Units(0, audio.at[pos])) /\ audio.at[pos] \in Nat
    BY SaidBefore DEF SessionInv, Known
  <2>2. Units(0, audio.at[pos]) \subseteq Units(0, end)
    BY <2>1 DEF Units
  <2> HIDE DEF Units
  <2> QED BY <2>1, <2>2, SeqWider
<1>1. unread' \in Seq(Seq(short' \cap Units(0, end)))
  BY DEF Answered
<1>2. CASE a = Perfect(0, end)
  <2>1. Len(Perfect(0, end)) = end
    BY PerfectFromStart
  <2>2. ASSUME a = <<>> PROVE text = <<>>
    <3>1. end = 0
      <4> HIDE DEF Perfect
      <4> QED BY <1>2, <2>1, <2>2
    <3>2. Units(0, end) = {}
      BY <3>1 DEF Units
    <3>3. Len(text) \in Nat /\ \A i \in 1..Len(text) : FALSE
      BY <1>0, <3>2, TextElements
    <3> QED BY <1>0, <3>3
  <2>3. text' = Perfect(0, end)
    BY <1>2, <2>2
  <2> QED BY <1>1, <2>3, AllPerfect
<1>3. CASE a \in Seq(short' \cap Units(0, end)) /\ short' = short \cup Units(0, end)
  <2>2. a \in Seq(Units(0, end))
    <3>1. short' \cap Units(0, end) \subseteq Units(0, end)
      OBVIOUS
    <3> QED BY <1>3, <3>1, SeqWider, Zenon
  <2>3. text' \in Seq(Units(0, end)) /\ Units(0, end) \subseteq short'
    BY <1>0, <1>3, <2>2
  <2> QED BY <1>1, <2>3, AllShort
<1> QED BY <1>2, <1>3 DEF Answered

LEMMA StepOffline == ASSUME SessionInv, Offline PROVE SessionInv'
<1> DEFINE all == audio.at[audio.length]
<1>0. audio \in Recordings /\ audio.length \in Nat \ {0} /\ audio.length \in 0..audio.length
  BY SaidBefore DEF SessionInv, Known
<1>1. /\ pos' = audio.length /\ phase' = "done" /\ audio' = audio /\ all = (audio.at[pos])' /\ all \in Nat
      /\ unread' = <<>> /\ unsure' = {}
      /\ short' = IF text' = Perfect(0, all) THEN {} ELSE Units(0, all)
  <2>1. all \in Nat
    BY <1>0, SaidBefore
  <2> QED BY <1>0, <2>1 DEF Offline, SessionInv, Known
<1>2. PICK n \in 0..all : text' = SubSeq(Perfect(0, all), 1, n)
  BY DEF Offline
<1> HIDE DEF all
<1>3. text' \in Seq(Units(0, all))
  <2>1. n \in 0..(all - 0)
    BY <1>1
  <2> QED BY <1>1, <1>2, <2>1, PrefixType
<1>4. MissingHasCause' /\ BackwardsHasCause' /\ Exact'
  BY <1>1, <1>3, AllPerfect, AllShort
<1>5. unread' \in Seq(Seq(short' \cap Units(0, (audio.at[pos])')))
  BY <1>1
<1>6. Known'
  BY <1>0, <1>1 DEF Known
<1>7. text' \in Seq(Units(0, (audio.at[pos])'))
  BY <1>1, <1>3
<1> QED BY <1>1, <1>4, <1>5, <1>6, <1>7 DEF SessionInv

LEMMA StepDraft == ASSUME SessionInv, DraftChunk PROVE SessionInv'
<1>0. audio \in Recordings /\ audio.length \in Nat \ {0} /\ audio.at[0] = 0
  BY SaidBefore DEF SessionInv, Known
<1>1. /\ pos = 0 /\ audio.length > Draft + Margin /\ phase' = "refine" /\ audio' = audio /\ unsure' = {}
      /\ Draft \in Nat \ {0} /\ Margin \in Nat
  BY SessionAssumption DEF DraftChunk, SessionInv, Known
<1>2. Smaller(Draft, audio.length) = Draft /\ Draft \in 0..audio.length
  BY <1>0, <1>1 DEF Smaller
<1> DEFINE end == audio.at[Draft]
<1>3. PICK a : Infer(0, end, a) /\ text' = a /\ pos' = Draft
  BY <1>2 DEF DraftChunk
<1>4. end \in Nat /\ audio.at[pos] <= end /\ end = (audio.at[pos])' /\ 0 <= end
  BY <1>0, <1>1, <1>2, <1>3, SaidBefore
<1> HIDE DEF end
<1>5. Answered(0, end, a)
  BY <1>3, <1>4, InferAnswers
<1>6. /\ text' \in Seq(Units(0, end)) /\ MissingHasCause' /\ BackwardsHasCause' /\ Exact'
      /\ unread' \in Seq(Seq(short' \cap Units(0, end)))
  BY <1>1, <1>3, <1>4, <1>5, ChunkFromStart
<1>7. Known'
  BY <1>0, <1>1, <1>2, <1>3 DEF Known
<1> QED BY <1>1, <1>4, <1>6, <1>7 DEF SessionInv

LEMMA StepRefine == ASSUME SessionInv, RefineChunk PROVE SessionInv'
<1>0. audio \in Recordings /\ audio.length \in Nat \ {0} /\ audio.at[0] = 0
  BY SaidBefore DEF SessionInv, Known
<1>1. /\ pos = Draft /\ audio.length > Draft + Margin /\ phase' = "windows" /\ audio' = audio /\ unsure' = {}
      /\ Draft \in Nat \ {0} /\ Margin \in Nat /\ Chunk \in Nat /\ Draft < Chunk
      /\ Overlap \in Nat \ {0} /\ Search \in Nat \ {0} /\ Overlap + Search <= Chunk
  BY SessionAssumption DEF RefineChunk, SessionInv, Known
<1> DEFINE e == Smaller(Chunk, audio.length)
           end == audio.at[e]
<1>2. e \in 0..audio.length /\ pos < e /\ pos \in 0..audio.length /\ (e < audio.length => e = Chunk)
  BY <1>0, <1>1 DEF Smaller
<1>3. PICK a : Infer(0, end, a) /\ text' = (IF a # <<>> THEN a ELSE text) /\ pos' = e
  BY DEF RefineChunk
<1> HIDE DEF e
<1>4. end \in Nat /\ audio.at[pos] <= end /\ end = (audio.at[pos])' /\ 0 <= end
  BY <1>0, <1>1, <1>2, <1>3, SaidBefore
<1>5. end = audio.at[e]
  OBVIOUS
<1> HIDE DEF end
<1>6. Answered(0, end, a)
  BY <1>3, <1>4, InferAnswers
<1>7. /\ text' \in Seq(Units(0, end)) /\ MissingHasCause' /\ BackwardsHasCause' /\ Exact'
      /\ unread' \in Seq(Seq(short' \cap Units(0, end)))
      /\ Units(0, end) \subseteq short' \/ text' = Perfect(0, end)
  BY <1>1, <1>3, <1>4, <1>6, ChunkFromStart
<1>8. Known'
  BY <1>0, <1>1, <1>2, <1>3 DEF Known
<1>9. pos' < audio.length => OverlapReady'
  <2> SUFFICES ASSUME e < audio.length PROVE OverlapReady'
    BY <1>3
  <2> DEFINE lo == audio.at[e - Overlap]
  <2>1. Overlap <= e /\ e - Overlap \in 0..audio.length /\ e - Overlap <= e
    BY <1>0, <1>1, <1>2
  <2>2. lo \in Nat /\ lo <= end
    BY <1>0, <1>2, <1>5, <2>1, SaidBefore
  <2>3. Overlap <= pos' /\ lo = (audio.at[pos - Overlap])' /\ end = (audio.at[pos])'
    BY <1>1, <1>3, <1>4, <2>1
  <2> HIDE DEF lo
  <2>4. Units(lo, end) \subseteq Units(0, end) /\ end - lo \in 0..end
    BY <1>4, <2>2 DEF Units
  <2>5. text' = Perfect(0, end) => EndsBefore(text', end - lo, end)
    BY <1>1, <1>4, <2>4, AllPerfect
  <2> QED BY <1>1, <1>7, <2>3, <2>4, <2>5 DEF OverlapReady
<1> QED BY <1>1, <1>4, <1>7, <1>8, <1>9 DEF SessionInv

(***************************************************************************)
(* A window: the two halves of the property for a text, and what appending *)
(* does to them.                                                           *)
(***************************************************************************)
Missing(s, p, S) == \A x \in Units(0, p) : x \in S \/ \E i \in 1..Len(s) : s[i] = x
Backwards(s, S) == \A i, j \in 1..Len(s) : i < j /\ s[j] <= s[i] => s[j] \in S

LEMMA Halves ==
  ASSUME NEW T, text \in Seq(T), NEW U, text' \in Seq(U)
  PROVE  /\ MissingHasCause /\ BackwardsHasCause
              <=> Missing(text, audio.at[pos], short \cup unsure) /\ Backwards(text, short \cup unsure)
         /\ (MissingHasCause /\ BackwardsHasCause)'
              <=> Missing(text', (audio.at[pos])', (short \cup unsure)') /\ Backwards(text', (short \cup unsure)')
<1>1. DOMAIN text = 1..Len(text) /\ DOMAIN text' = 1..Len(text')
  BY TextElements
<1>2. /\ MissingHasCause <=> Missing(text, audio.at[pos], short \cup unsure)
      /\ MissingHasCause' <=> Missing(text', (audio.at[pos])', (short \cup unsure)')
  BY <1>1 DEF MissingHasCause, Missing, Heard
<1>3. /\ BackwardsHasCause <=> Backwards(text, short \cup unsure)
      /\ BackwardsHasCause' <=> Backwards(text', (short \cup unsure)')
  BY <1>1 DEF BackwardsHasCause, Backwards
<1> QED BY <1>2, <1>3

\* The elements of a text with more appended.
LEMMA Appended ==
  ASSUME NEW T, NEW a \in Seq(T), NEW b \in Seq(T)
  PROVE  /\ a \o b \in Seq(T) /\ Len(a \o b) = Len(a) + Len(b)
         /\ \A i \in 1..Len(a) : (a \o b)[i] = a[i]
         /\ \A i \in 1..Len(b) : (a \o b)[Len(a) + i] = b[i]
         /\ \A i \in 1..Len(a \o b) : i \in 1..Len(a) \/ i - Len(a) \in 1..Len(b)
OBVIOUS

LEMMA AppendShort ==
  ASSUME NEW p \in Nat, NEW end \in Nat, NEW lo \in Nat, lo <= p, p <= end, NEW S, NEW S2,
         NEW prev \in Seq(Units(0, p)), Missing(prev, p, S), Backwards(prev, S),
         S2 = S \cup Units(lo, end), NEW add \in Seq(S2 \cap Units(0, end))
  PROVE  Missing(prev \o add, end, S2) /\ Backwards(prev \o add, S2)
<1> DEFINE T == Units(0, end)
           s == prev \o add
<1>1. prev \in Seq(T) /\ add \in Seq(T)
  <2>1. Units(0, p) \subseteq T /\ S2 \cap T \subseteq T
    BY DEF Units
  <2> HIDE DEF T
  <2>2. add \in Seq(S2 \cap T)
    BY DEF T
  <2> QED BY <2>1, <2>2, SeqWider
<1>2. /\ Len(s) = Len(prev) + Len(add)
      /\ \A i \in 1..Len(prev) : s[i] = prev[i]
      /\ \A i \in 1..Len(add) : s[Len(prev) + i] = add[i]
      /\ \A i \in 1..Len(s) : i \in 1..Len(prev) \/ i - Len(prev) \in 1..Len(add)
      /\ Len(prev) \in Nat /\ Len(add) \in Nat
  BY <1>1, Appended
<1>3. \A i \in 1..Len(add) : add[i] \in S2
  BY TextElements
<1> HIDE DEF s
<1>4. ASSUME NEW x \in Units(0, end) PROVE x \in S2 \/ \E i \in 1..Len(s) : s[i] = x
  <2>1. x \in Units(lo, end) \/ x \in Units(0, p)
    BY DEF Units
  <2>2. CASE x \in Units(0, p)
    <3>1. x \in S \/ \E i \in 1..Len(prev) : prev[i] = x
      BY <2>2 DEF Missing
    <3>2. ASSUME NEW i \in 1..Len(prev), prev[i] = x PROVE i \in 1..Len(s) /\ s[i] = x
      BY <1>2, <3>2
    <3> QED BY <3>1, <3>2
  <2> QED BY <2>1, <2>2
<1>5. ASSUME NEW i \in 1..Len(s), NEW j \in 1..Len(s), i < j, s[j] <= s[i] PROVE s[j] \in S2
  <2>1. CASE j \in 1..Len(prev)
    <3>1. i \in 1..Len(prev) /\ s[i] = prev[i] /\ s[j] = prev[j]
      BY <1>2, <1>5, <2>1
    <3>2. prev[j] \in S
      BY <1>5, <2>1, <3>1 DEF Backwards
    <3> QED BY <3>1, <3>2
  <2>2. CASE j - Len(prev) \in 1..Len(add)
    <3>1. j = Len(prev) + (j - Len(prev))
      BY <1>2
    <3>2. s[j] = add[j - Len(prev)]
      BY <1>2, <2>2, <3>1
    <3> QED BY <1>3, <2>2, <3>2
  <2> QED BY <1>2, <2>1, <2>2
<1> QED BY <1>4, <1>5 DEF Missing, Backwards, s

LEMMA AppendWhole ==
  ASSUME NEW start \in Nat, NEW p \in Nat, NEW end \in Nat, start <= p, p <= end, NEW S,
         NEW prev \in Seq(Units(0, p)), Missing(prev, p, S), Backwards(prev, S),
         NEW q \in 0..(p - start), q = p - start \/ Units(start, p) \subseteq S,
         NEW add, add = Without(Perfect(start, end), q)
  PROVE  /\ add \in Seq(Units(0, end))
         /\ Missing(prev \o add, end, S) /\ Backwards(prev \o add, S)
         /\ \A n \in 0..(end - p) : EndsBefore(prev \o add, n, end)
<1> DEFINE T == Units(0, end)
           s == prev \o add
           new == Perfect(start, end)
<1>0. start <= end /\ q \in Nat /\ q <= p - start
  OBVIOUS
<1>1. new \in Seq(Units(start, end)) /\ Len(new) = end - start /\ \A i \in 1..(end - start) : new[i] = start + i - 1
  BY <1>0, PerfectIs
<1>2. add = Without(new, q) /\ Units(start, end) \subseteq T /\ Units(0, p) \subseteq T
  BY <1>0 DEF Units
<1> HIDE DEF new, T
<1>3. prev \in Seq(T) /\ new \in Seq(T)
  BY <1>1, <1>2, SeqWider
<1>4. /\ add \in Seq(T) /\ Len(add) = end - start - q
      /\ \A i \in 1..Len(add) : add[i] = start + q + i - 1
  <2>1. q \in Nat /\ q <= Len(new)
    BY <1>0, <1>1
  <2>2. /\ Without(new, q) \in Seq(T) /\ Len(Without(new, q)) = Len(new) - q
        /\ \A i \in 1..(Len(new) - q) : Without(new, q)[i] = new[q + i]
    BY <1>3, <2>1, WithoutIs
  <2>3. ASSUME NEW i \in 1..(Len(new) - q) PROVE new[q + i] = start + (q + i) - 1
    <3>1. q + i \in 1..(end - start)
      BY <1>0, <1>1, <2>1
    <3> QED BY <1>1, <3>1
  <2> QED BY <1>0, <1>1, <1>2, <2>2, <2>3, SMTT(30)
<1>5. /\ Len(s) = Len(prev) + Len(add)
      /\ \A i \in 1..Len(prev) : s[i] = prev[i]
      /\ \A i \in 1..Len(add) : s[Len(prev) + i] = add[i]
      /\ \A i \in 1..Len(s) : i \in 1..Len(prev) \/ i - Len(prev) \in 1..Len(add)
      /\ Len(prev) \in Nat /\ Len(add) \in Nat
  <2>1. prev \in Seq(T) /\ add \in Seq(T)
    BY <1>3, <1>4
  <2>2. Len(prev) \in Nat /\ Len(add) \in Nat
    BY <2>1, TextElements
  <2>3. /\ Len(s) = Len(prev) + Len(add)
        /\ \A i \in 1..Len(prev) : s[i] = prev[i]
        /\ \A i \in 1..Len(add) : s[Len(prev) + i] = add[i]
        /\ \A i \in 1..Len(s) : i \in 1..Len(prev) \/ i - Len(prev) \in 1..Len(add)
    BY <2>1, Appended
  <2> QED BY <2>2, <2>3
<1> HIDE DEF s
<1>6. ASSUME NEW x \in Units(0, end) PROVE x \in S \/ \E i \in 1..Len(s) : s[i] = x
  <2>1. x \in Units(0, p) \/ x \in p..(end - 1)
    BY DEF Units
  <2>2. CASE x \in Units(0, p)
    <3>1. x \in S \/ \E i \in 1..Len(prev) : prev[i] = x
      BY <2>2 DEF Missing
    <3>2. ASSUME NEW i \in 1..Len(prev), prev[i] = x PROVE i \in 1..Len(s) /\ s[i] = x
      BY <1>5, <3>2, SMTT(30)
    <3> QED BY <3>1, <3>2
  <2>3. CASE x \in p..(end - 1)
    <3> DEFINE i == x - start - q + 1
    <3>1. i \in 1..Len(add) /\ start + q + i - 1 = x
      BY <1>0, <1>4, <2>3
    <3> HIDE DEF i
    <3>2. Len(prev) + i \in 1..Len(s)
      <4>1. Len(s) = Len(prev) + Len(add) /\ Len(prev) \in Nat /\ Len(add) \in Nat /\ i \in 1..Len(add)
        BY <1>5, <3>1
      <4> QED BY <4>1
    <3>3. s[Len(prev) + i] = add[i] /\ add[i] = start + q + i - 1
      BY <1>4, <1>5, <3>1
    <3> QED BY <3>1, <3>2, <3>3
  <2> QED BY <2>1, <2>2, <2>3
<1>7. ASSUME NEW i \in 1..Len(s), NEW j \in 1..Len(s), i < j, s[j] <= s[i] PROVE s[j] \in S
  <2>1. CASE j \in 1..Len(prev)
    <3>1. i \in 1..Len(prev) /\ s[i] = prev[i] /\ s[j] = prev[j]
      BY <1>5, <1>7, <2>1
    <3>2. prev[j] \in S
      BY <1>7, <2>1, <3>1 DEF Backwards
    <3> QED BY <3>1, <3>2
  <2>2. CASE j - Len(prev) \in 1..Len(add)
    <3> DEFINE l == j - Len(prev)
    <3>1. j = Len(prev) + l /\ l \in 1..Len(add) /\ l \in Nat \ {0}
      BY <1>5, <2>2
    <3> HIDE DEF l
    <3>2. s[j] = start + q + l - 1
      BY <1>4, <1>5, <3>1
    <3>3. CASE i \in 1..Len(prev)
      <4>1. s[i] \in Units(0, p)
        BY <1>5, <3>3, TextElements
      <4>2. s[i] \in Nat /\ s[i] < p
        BY <4>1 DEF Units
      <4>3. s[j] < p /\ s[j] >= start
        BY <1>0, <1>7, <3>1, <3>2, <4>2
      <4>4. q # p - start
        BY <1>0, <3>1, <3>2, <4>3
      <4>5. s[j] \in Units(start, p)
        BY <1>0, <3>1, <3>2, <4>3 DEF Units
      <4> QED BY <4>4, <4>5
    <3>4. CASE i - Len(prev) \in 1..Len(add)
      <4> DEFINE m == i - Len(prev)
      <4>1. i = Len(prev) + m /\ m \in 1..Len(add) /\ m \in Nat \ {0}
        BY <1>5, <3>4
      <4> HIDE DEF m
      <4>2. s[i] = start + q + m - 1
        BY <1>4, <1>5, <4>1
      <4> QED BY <1>0, <1>5, <1>7, <3>1, <3>2, <4>1, <4>2
    <3> QED BY <1>5, <3>3, <3>4
  <2> QED BY <1>5, <2>1, <2>2
<1>8. ASSUME NEW n \in 0..(end - p) PROVE EndsBefore(s, n, end)
  <2>1. n \in Nat /\ n <= Len(add) /\ n <= Len(s)
    BY <1>0, <1>4, <1>5
  <2>2. ASSUME NEW i \in 1..n PROVE s[Len(s) - n + i] = end - n + i - 1
    <3> DEFINE l == Len(add) - n + i
    <3>0. /\ Len(add) = end - start - q /\ Len(s) = Len(prev) + Len(add) /\ n <= Len(add)
          /\ Len(add) \in Nat /\ Len(prev) \in Nat /\ n \in Nat /\ q \in Nat
      BY <1>0, <1>4, <1>5, <2>1
    <3>1. i \in Nat /\ i >= 1 /\ i <= n
      BY <3>0
    <3>2. l \in 1..Len(add)
      BY <3>0, <3>1
    <3>3. Len(s) - n + i = Len(prev) + l
      BY <3>0, <3>1
    <3>4. start + q + l - 1 = end - n + i - 1
      BY <3>0, <3>1
    <3> HIDE DEF l
    <3>5. s[Len(prev) + l] = add[l] /\ add[l] = start + q + l - 1
      BY <1>4, <1>5, <3>2
    <3> QED BY <3>3, <3>4, <3>5
  <2> QED BY <2>1, <2>2 DEF EndsBefore
<1> QED BY <1>4, <1>6, <1>7, <1>8 DEF Missing, Backwards, s, T

(***************************************************************************)
(* The same for a text without a fault and a cut at the right place.       *)
(***************************************************************************)
LEMMA AppendExact ==
  ASSUME NEW start \in Nat, NEW p \in Nat, NEW end \in Nat, start <= p, p <= end
  PROVE  Perfect(0, p) \o Without(Perfect(start, end), p - start) = Perfect(0, end)
<1> DEFINE T == Units(0, end)
           new == Perfect(start, end)
           prev == Perfect(0, p)
           add == Without(new, p - start)
           s == prev \o add
           u == Perfect(0, end)
<1>1. prev \in Seq(Units(0, p)) /\ Len(prev) = p /\ \A i \in 1..p : prev[i] = i - 1
  BY PerfectFromStart
<1>2. start <= end /\ Units(0, p) \subseteq T /\ Units(start, end) \subseteq T
  BY DEF Units
<1>3. new \in Seq(Units(start, end)) /\ Len(new) = end - start /\ \A i \in 1..(end - start) : new[i] = start + i - 1
  BY <1>2, PerfectIs
<1>4. u \in Seq(T) /\ Len(u) = end /\ \A i \in 1..end : u[i] = i - 1
  BY PerfectFromStart
<1> HIDE DEF T, new, prev, u
<1>5. prev \in Seq(T) /\ new \in Seq(T)
  BY <1>1, <1>2, <1>3, SeqWider
<1>6. p - start \in Nat /\ p - start <= Len(new)
  BY <1>3
<1>7. /\ add \in Seq(T) /\ Len(add) = Len(new) - (p - start)
      /\ \A i \in 1..(Len(new) - (p - start)) : add[i] = new[(p - start) + i]
  BY <1>5, <1>6, WithoutIs
<1> HIDE DEF add
<1>8. Len(add) = end - p /\ \A i \in 1..(end - p) : add[i] = p + i - 1
  <2>1. Len(add) = end - p
    BY <1>3, <1>7
  <2>2. ASSUME NEW i \in 1..(end - p) PROVE add[i] = p + i - 1
    <3>1. (p - start) + i \in 1..(end - start) /\ i \in 1..(Len(new) - (p - start))
      BY <1>3
    <3>2. add[i] = new[(p - start) + i] /\ new[(p - start) + i] = start + ((p - start) + i) - 1
      BY <1>3, <1>7, <3>1
    <3> QED BY <3>2
  <2> QED BY <2>1, <2>2
<1>9. /\ s \in Seq(T) /\ Len(s) = end
      /\ \A i \in 1..p : s[i] = prev[i]
      /\ \A i \in 1..(end - p) : s[p + i] = add[i]
  <2>1. s \in Seq(T)
    BY <1>5, <1>7
  <2>2. Len(prev) = p /\ Len(add) = end - p
    BY <1>1, <1>8
  <2>3. /\ Len(s) = Len(prev) + Len(add)
        /\ \A i \in 1..Len(prev) : s[i] = prev[i]
        /\ \A i \in 1..Len(add) : s[Len(prev) + i] = add[i]
    BY <1>5, <1>7, SMTT(30)
  <2> HIDE DEF s
  <2> QED BY <2>1, <2>2, <2>3
<1> HIDE DEF s
<1>10. ASSUME NEW i \in 1..end PROVE s[i] = u[i]
  <2>1. CASE i <= p
    <3>1. i \in 1..p
      BY <2>1
    <3> QED BY <1>1, <1>4, <1>9, <3>1
  <2>2. CASE i > p
    <3>1. i - p \in 1..(end - p) /\ p + (i - p) = i
      BY <2>2
    <3>2. s[p + (i - p)] = p + (i - p) - 1
      BY <1>8, <1>9, <3>1
    <3> QED BY <1>4, <3>1, <3>2
  <2> QED BY <2>1, <2>2
<1>11. s = u
  BY <1>4, <1>9, <1>10
<1> QED BY <1>11 DEF s, prev, add, new, u

(***************************************************************************)
(* Plain speech gives every merge its grounds: the overlap is what its     *)
(* share says, and no run of MinMatch units is found where it was not said.*)
(***************************************************************************)
LEMMA PlainHasGrounds ==
  ASSUME audio \in Recordings, Plain(audio), NEW p \in 0..audio.length, NEW e \in 0..audio.length,
         Overlap <= p, p < e
  PROVE  Grounds(Perfect(0, audio.at[p]), Perfect(audio.at[p - Overlap], audio.at[e]),
                 audio.at[p] - audio.at[p - Overlap], e - (p - Overlap))
<1> DEFINE P == audio.at[p]
           lo == audio.at[p - Overlap]
           hi == audio.at[e]
           N == audio.at[audio.length]
           rate == audio.at[1]
           width == e - (p - Overlap)
           prev == Perfect(0, P)
           new == Perfect(lo, hi)
           t == TailOf(prev, new, width)
           h == HeadOf(new, width)
           T == Units(0, N)
<1>1. /\ audio.length \in Nat \ {0} /\ Overlap \in Nat \ {0} /\ Slack \in Nat \ {0} /\ MinMatch \in Nat \ {0}
      /\ p - Overlap \in 0..audio.length /\ 1 \in 0..audio.length /\ audio.length \in 0..audio.length
      /\ p \in Nat /\ e \in Nat
  <2>1. Overlap \in Nat \ {0} /\ Slack \in Nat \ {0} /\ MinMatch \in Nat \ {0}
    BY SessionAssumption
  <2>2. audio.length \in Nat \ {0}
    BY SaidBefore
  <2> QED BY <2>1, <2>2
<1>2. /\ P \in Nat /\ lo \in Nat /\ hi \in Nat /\ N \in Nat /\ rate \in Nat
      /\ lo <= P /\ P <= hi /\ hi <= N
  BY <1>1, SaidBefore
<1>3. width \in Nat \ {0}
  BY <1>1
<1>4. P = rate * p /\ lo = rate * (p - Overlap) /\ hi = rate * e
  BY <1>1 DEF Plain
<1>5. \A i, j \in 0..(N - MinMatch) : (\A k \in 0..(MinMatch - 1) : audio.said[i + k] = audio.said[j + k]) => i = j
  BY DEF Plain
<1>6. hi - lo = rate * width /\ P - lo = rate * Overlap
  BY <1>1, <1>2, <1>4
<1> HIDE DEF P, lo, hi, N, rate
<1>7. /\ Len(prev) = P /\ prev \in Seq(Units(0, P)) /\ \A i \in 1..P : prev[i] = i - 1
      /\ Len(new) = hi - lo /\ new \in Seq(Units(lo, hi)) /\ \A i \in 1..(hi - lo) : new[i] = lo + i - 1
  <2>1. lo <= hi
    BY <1>2
  <2>2. Len(prev) = P /\ prev \in Seq(Units(0, P)) /\ \A i \in 1..P : prev[i] = i - 1
    BY <1>2, PerfectFromStart
  <2> QED BY <1>2, <2>1, <2>2, PerfectIs
<1>8. prev \in Seq(T) /\ new \in Seq(T)
  <2>1. Units(0, P) \subseteq T /\ Units(lo, hi) \subseteq T
    BY <1>2 DEF Units
  <2> HIDE DEF T, prev, new
  <2> QED BY <1>7, <2>1, SeqWider
<1> HIDE DEF prev, new, width, T
<1>9. Share(new, width) = P - lo
  <2>1. 0 \in 0..(width - 1) /\ (rate * Overlap) * width + 0 = (rate * width) * Overlap /\ rate * Overlap \in Nat
    BY <1>1, <1>2, <1>3
  <2>2. (rate * width) * Overlap \in Nat
    BY <1>1, <1>2, <1>3
  <2>3. ((rate * width) * Overlap) \div width = rate * Overlap
    BY <1>3, <2>1, <2>2, DivisionUnique
  <2> QED BY <1>6, <1>7, <2>3 DEF Share
<1>10. /\ t \in Seq(T) /\ h \in Seq(T) /\ Len(t) \in Nat /\ Len(h) \in Nat /\ Len(t) <= P /\ Len(h) <= hi - lo
       /\ \A i \in 1..Len(t) : t[i] = prev[P - Len(t) + i]
       /\ \A i \in 1..Len(h) : h[i] = new[i]
  <2>1. /\ t \in Seq(T) /\ h \in Seq(T) /\ Share(new, width) + Slack \in Nat
        /\ Len(t) = Smaller(Len(prev), Share(new, width) + Slack)
        /\ Len(h) = Smaller(Len(new), Share(new, width) + Slack)
        /\ \A i \in 1..Len(t) : t[i] = prev[Len(prev) - Len(t) + i]
        /\ \A i \in 1..Len(h) : h[i] = new[i]
    BY <1>3, <1>8, TailAndHead
  <2> HIDE DEF t, h
  <2> QED BY <1>2, <1>7, <2>1 DEF Smaller
<1> HIDE DEF t, h
<1>11. ASSUME NEW m \in Long(t, h), NEW k \in 0..(m[3] - 1) PROVE t[m[1] + k] = h[m[2] + k]
  <2>0. PICK i, j, l : MatchAt(t, h, m, i, j, l)
    BY MatchIs
  <2>1. /\ i \in 1..Len(t) /\ j \in 1..Len(h) /\ l \in 1..Len(t)
        /\ m[1] = i /\ m[2] = j /\ m[3] = l /\ l >= MinMatch
        /\ i + l - 1 <= Len(t) /\ j + l - 1 <= Len(h)
        /\ \A x \in 0..(l - 1) : audio.said[t[i + x]] = audio.said[h[j + x]]
    BY <2>0 DEF MatchAt
  <2>9. /\ Len(t) \in Nat /\ Len(h) \in Nat /\ Len(t) <= P /\ Len(h) <= hi - lo
        /\ i \in Nat \ {0} /\ j \in Nat \ {0} /\ l \in Nat \ {0} /\ l >= MinMatch
        /\ i + l - 1 <= Len(t) /\ j + l - 1 <= Len(h)
    BY <1>10, <2>1
  <2> DEFINE A == P - Len(t) + i - 1
             B == lo + j - 1
  <2>2. ASSUME NEW x \in 0..(l - 1) PROVE t[i + x] = A + x /\ h[j + x] = B + x
    <3>1. /\ i + x \in 1..Len(t) /\ j + x \in 1..Len(h)
          /\ P - Len(t) + (i + x) \in 1..P /\ j + x \in 1..(hi - lo)
      BY <1>2, <2>9, SMTT(30)
    <3>2. t[i + x] = prev[P - Len(t) + (i + x)] /\ h[j + x] = new[j + x]
      BY <1>10, <3>1
    <3>3. prev[P - Len(t) + (i + x)] = (P - Len(t) + (i + x)) - 1 /\ new[j + x] = lo + (j + x) - 1
      BY <1>7, <3>1
    <3> QED BY <1>2, <2>9, <3>2, <3>3, SMTT(30)
  <2>3. A \in 0..(N - MinMatch) /\ B \in 0..(N - MinMatch)
    BY <1>1, <1>2, <2>9, SMTT(30)
  <2> HIDE DEF A, B
  <2>4. ASSUME NEW x \in 0..(MinMatch - 1) PROVE audio.said[A + x] = audio.said[B + x]
    <3>1. x \in 0..(l - 1)
      BY <1>1, <2>9
    <3> QED BY <2>1, <2>2, <3>1
  <2>5. A = B
    BY <1>5, <2>3, <2>4
  <2>6. k \in 0..(l - 1) /\ t[m[1] + k] = t[i + k] /\ h[m[2] + k] = h[j + k]
    BY <2>1
  <2> QED BY <2>2, <2>5, <2>6
<1>12. SameSpeech(t, h)
  BY <1>11 DEF SameSpeech
<1>13. P - lo \in Nat /\ P - lo <= P - lo + Slack
  BY <1>1, <1>2
<1>14. Grounds(prev, new, P - lo, width)
  BY <1>9, <1>12, <1>13 DEF Grounds, t, h
<1> QED BY <1>14 DEF prev, new, P, lo, hi, width

LEMMA StepWindow == ASSUME SessionInv, Window PROVE SessionInv'
<1>1. /\ audio \in Recordings /\ audio.length \in Nat \ {0} /\ pos \in 0..audio.length /\ pos < audio.length
      /\ phase = "windows" /\ phase' = phase /\ audio' = audio
      /\ OverlapReady /\ Overlap <= pos
      /\ Overlap \in Nat \ {0} /\ Search \in Nat \ {0} /\ Chunk \in Nat /\ Overlap + Search <= Chunk
  BY SessionAssumption, SaidBefore DEF Window, SessionInv, Known, OverlapReady
<1>2. PICK e \in Ends :
        LET start == IF pos < Overlap THEN 0 ELSE pos - Overlap
            l == audio.at[start]
            h == audio.at[e]
        IN  /\ \E a \in Heads(l, h) :
                 /\ Infer(l, h, a)
                 /\ text' = text \o Dedup(text, a, e - start)
                 /\ unsure' = unsure \cup (IF Grounds(text, a, audio.at[pos] - l, e - start)
                                          THEN {} ELSE Units(l, h))
            /\ pos' = e
  BY DEF Window
<1> DEFINE from == pos - Overlap
           width == e - from
           lo == audio.at[from]
           hi == audio.at[e]
           P == audio.at[pos]
           S == short \cup unsure
           S2 == short' \cup unsure'
<1>3. /\ from = (IF pos < Overlap THEN 0 ELSE pos - Overlap) /\ from \in 0..audio.length /\ from = pos - Overlap
      /\ from <= pos
  BY <1>1
<1>4. PICK a : /\ Infer(lo, hi, a) /\ text' = text \o Dedup(text, a, width)
               /\ unsure' = unsure \cup (IF Grounds(text, a, P - lo, width) THEN {} ELSE Units(lo, hi))
  BY <1>2, <1>3
<1>5. e \in 0..audio.length /\ pos < e /\ (e < audio.length => Overlap <= e - pos)
  BY <1>1 DEF Ends, Smaller
<1>6. pos' = e /\ hi = (audio.at[pos])' /\ audio' = audio
  BY <1>1, <1>2
<1>7. from < e /\ width \in Nat \ {0}
  BY <1>1, <1>3, <1>5
<1>8. lo \in Nat /\ P \in Nat /\ hi \in Nat /\ lo <= P /\ P <= hi /\ lo <= hi
  BY <1>1, <1>3, <1>5, SaidBefore
<1>9. /\ Units(lo, P) \subseteq S \/ EndsBefore(text, P - lo, P)
      /\ text \in Seq(Units(0, P)) /\ Exact
      /\ Missing(text, P, S) /\ Backwards(text, S)
  <2>1. text \in Seq(Units(0, P)) /\ MissingHasCause /\ BackwardsHasCause /\ Exact
    BY DEF SessionInv
  <2>2. DOMAIN text = 1..Len(text)
    BY <2>1, TextElements
  <2>3. Missing(text, P, S) /\ Backwards(text, S)
    BY <2>1, <2>2 DEF MissingHasCause, BackwardsHasCause, Missing, Backwards, Heard
  <2> QED BY <1>1, <2>1, <2>3 DEF OverlapReady
\* Where the next window will begin.
<1>10. e < audio.length =>
         audio.at[e - Overlap] \in Nat /\ P <= audio.at[e - Overlap] /\ audio.at[e - Overlap] <= hi /\ Overlap <= e
  <2> SUFFICES ASSUME e < audio.length
               PROVE  audio.at[e - Overlap] \in Nat /\ P <= audio.at[e - Overlap] /\ audio.at[e - Overlap] <= hi
                      /\ Overlap <= e
    OBVIOUS
  <2>1. e - Overlap \in 0..audio.length /\ pos <= e - Overlap /\ e - Overlap <= e /\ Overlap <= e
    BY <1>1, <1>5
  <2> QED BY <1>1, <1>5, <2>1, SaidBefore
<1> DEFINE next == audio.at[e - Overlap]
           q == Cut(text, a, width)
           add == Dedup(text, a, width)
           T == Units(0, hi)
<1> HIDE DEF from, width, lo, hi, P, next
<1>11. Answered(lo, hi, a)
  <2>1. audio.at[pos] <= hi
    BY <1>8 DEF P
  <2> QED BY <1>4, <1>8, <2>1, InferAnswers
<1>12. text \in Seq(T)
  <2>1. Units(0, P) \subseteq T
    BY <1>8 DEF Units
  <2> HIDE DEF T
  <2> QED BY <1>9, <2>1, SeqWider
\* The text that results, in each case.
<1>13. /\ add \in Seq(T) /\ Missing(text \o add, hi, S2) /\ Backwards(text \o add, S2)
       /\ e < audio.length => Units(next, hi) \subseteq S2 \/ EndsBefore(text \o add, hi - next, hi)
  <2>1. CASE a = Perfect(lo, hi) /\ short' = short /\ Grounds(text, a, P - lo, width)
    <3>1. a \in Seq(T)
      <4>1. Perfect(lo, hi) \in Seq(Units(lo, hi))
        BY <1>8, PerfectIs
      <4>2. Units(lo, hi) \subseteq T
        BY <1>8 DEF Units
      <4> HIDE DEF T
      <4> QED BY <2>1, <4>1, <4>2, SeqWider
    <3>2. add = Without(a, q)
      BY <1>7, <1>12, <3>1, DedupCuts
    <3>3. q \in 0..(P - lo) /\ (EndsBefore(text, P - lo, P) => q = P - lo)
      <4>1. LET r == Cut(text, Perfect(lo, hi), width)
            IN  r \in 0..(P - lo) /\ (EndsBefore(text, P - lo, P) => r = P - lo)
        BY <1>7, <1>8, <1>9, <2>1, CutOfPerfect
      <4> QED BY <2>1, <4>1
    <3>4. q = P - lo \/ Units(lo, P) \subseteq S
      BY <1>9, <3>3
    <3>5. add = Without(Perfect(lo, hi), q)
      BY <2>1, <3>2
    <3>6. S2 = S
      BY <1>4, <2>1
    <3> HIDE DEF add, q, S, S2, T
    <3>7. /\ add \in Seq(Units(0, hi))
          /\ Missing(text \o add, hi, S) /\ Backwards(text \o add, S)
          /\ \A n \in 0..(hi - P) : EndsBefore(text \o add, n, hi)
      BY <1>8, <1>9, <3>3, <3>4, <3>5, AppendWhole
    <3>8. e < audio.length => hi - next \in 0..(hi - P)
      BY <1>8, <1>10 DEF next
    <3> QED BY <3>6, <3>7, <3>8 DEF T
  <2>2. CASE /\ a \in Seq(S2 \cap Units(0, hi)) /\ S2 = S \cup Units(lo, hi)
    <3> DEFINE W == S2 \cap Units(0, hi)
    <3>1. a \in Seq(W) /\ W \subseteq T
      BY <2>2
    <3>2. a \in Seq(T)
      <4> HIDE DEF W, T
      <4> QED BY <3>1, SeqWider
    <3>3. add = Without(a, q) /\ q \in Nat
      BY <1>7, <1>12, <3>2, DedupCuts
    <3>4. add \in Seq(W)
      <4> HIDE DEF W, add, q
      <4> QED BY <3>1, <3>3, WithoutIs
    <3>5. Missing(text \o add, hi, S2) /\ Backwards(text \o add, S2)
      <4>1. add \in Seq(S2 \cap Units(0, hi))
        BY <3>4
      <4> HIDE DEF add, S, S2
      <4> QED BY <1>8, <1>9, <2>2, <4>1, AppendShort
    <3>6. add \in Seq(T)
      <4> HIDE DEF W, add, T
      <4> QED BY <3>1, <3>4, SeqWider
    <3>7. e < audio.length => Units(next, hi) \subseteq S2
      <4> SUFFICES ASSUME e < audio.length PROVE Units(next, hi) \subseteq Units(lo, hi)
        BY <2>2
      <4>1. lo <= next /\ next \in Nat
        BY <1>8, <1>10 DEF next
      <4> QED BY <1>8, <4>1 DEF Units
    <3> QED BY <3>5, <3>6, <3>7
  <2>3. CASE a = Perfect(lo, hi) /\ short' = short /\ ~Grounds(text, a, P - lo, width)
    <3>1. S2 = S \cup Units(lo, hi)
      BY <1>4, <2>3
    <3>2. Perfect(lo, hi) \in Seq(Units(lo, hi)) /\ Units(lo, hi) \subseteq S2 \cap Units(0, hi)
      <4>1. Units(lo, hi) \subseteq Units(0, hi)
        BY <1>8 DEF Units
      <4> QED BY <1>8, <3>1, <4>1, PerfectIs
    <3>3. a \in Seq(S2 \cap Units(0, hi))
      <4> HIDE DEF S2
      <4> QED BY <2>3, <3>2, SeqWider, Zenon
    <3> QED BY <2>2, <3>1, <3>3
  <2>4. CASE a \in Seq(short' \cap Units(0, hi)) /\ short' = short \cup Units(lo, hi)
    <3>1. S2 = S \cup Units(lo, hi)
      BY <1>4, <2>4
    <3>2. short' \cap Units(0, hi) \subseteq S2 \cap Units(0, hi)
      OBVIOUS
    <3>3. a \in Seq(S2 \cap Units(0, hi))
      <4> HIDE DEF S2
      <4> QED BY <2>4, <3>2, SeqWider, Zenon
    <3> QED BY <2>2, <3>1, <3>3
  <2> QED BY <1>11, <2>1, <2>3, <2>4 DEF Answered
\* While every call returned everything.
<1>14. ASSUME short' = {} PROVE short = {} /\ a = Perfect(lo, hi)
  <2>1. CASE a = Perfect(lo, hi) /\ short' = short
    BY <1>14, <2>1
  <2>2. CASE a \in Seq(short' \cap Units(0, hi)) /\ short' = short \cup Units(lo, hi)
    <3>1. Units(lo, hi) = {} /\ short = {} /\ short' \cap Units(0, hi) = {}
      BY <1>14, <2>2
    <3>2. ~(lo < hi)
      <4>1. lo < hi => lo \in Units(lo, hi)
        BY <1>8 DEF Units
      <4> QED BY <3>1, <4>1
    <3>3. Len(Perfect(lo, hi)) = 0 /\ Perfect(lo, hi) \in Seq(Units(lo, hi))
      BY <1>8, <3>2, PerfectIs
    <3>4. Len(a) \in Nat /\ \A i \in 1..Len(a) : FALSE
      BY <2>2, <3>1, TextElements
    <3>5. a = <<>> /\ Perfect(lo, hi) = <<>>
      <4> HIDE DEF Perfect
      <4> QED BY <2>2, <3>3, <3>4
    <3> QED BY <3>1, <3>5
  <2> QED BY <1>11, <2>1, <2>2 DEF Answered
<1>15. ASSUME short' = {}, unsure' = {} PROVE text \o add = Perfect(0, hi)
  <2>1. short = {} /\ unsure = {} /\ a = Perfect(lo, hi)
    BY <1>4, <1>14, <1>15
  <2>2. text = Perfect(0, P)
    BY <1>9, <2>1 DEF Exact, P
  <2>3. CASE Grounds(text, a, P - lo, width)
    <3>1. a \in Seq(T)
      <4>1. Perfect(lo, hi) \in Seq(Units(lo, hi))
        BY <1>8, PerfectIs
      <4>2. Units(lo, hi) \subseteq T
        BY <1>8 DEF Units
      <4> HIDE DEF T
      <4> QED BY <2>1, <4>1, <4>2, SeqWider
    <3>2. add = Without(Perfect(lo, hi), q)
      BY <1>7, <1>12, <2>1, <3>1, DedupCuts
    <3>3. EndsBefore(text, P - lo, P)
      <4>1. P - lo \in Nat /\ P - lo <= P
        BY <1>8
      <4>2. Len(text) = P /\ \A i \in 1..P : text[i] = i - 1
        BY <1>8, <2>2, PerfectFromStart
      <4>3. ASSUME NEW i \in 1..(P - lo) PROVE text[Len(text) - (P - lo) + i] = P - (P - lo) + i - 1
        <5>1. Len(text) - (P - lo) + i \in 1..P
          BY <1>8, <4>2
        <5> QED BY <1>8, <4>2, <5>1
      <4> QED BY <4>1, <4>2, <4>3 DEF EndsBefore
    <3>4. q = P - lo /\ q \in 0..(P - lo)
      <4>1. LET r == Cut(text, Perfect(lo, hi), width)
            IN  r \in 0..(P - lo) /\ (EndsBefore(text, P - lo, P) => r = P - lo)
        BY <1>7, <1>8, <1>9, <2>1, <2>3, CutOfPerfect
      <4> QED BY <2>1, <3>3, <4>1
    <3> HIDE DEF add, q, S, T
    <3>5. Perfect(0, P) \o Without(Perfect(lo, hi), P - lo) = Perfect(0, hi)
      <4> HIDE DEF Perfect
      <4> QED BY <1>8, AppendExact
    <3> QED BY <2>2, <3>2, <3>4, <3>5
  <2>4. CASE ~Grounds(text, a, P - lo, width)
    <3>1. Units(lo, hi) = {}
      BY <1>4, <1>15, <2>4
    <3>2. ~(lo < hi)
      <4>1. lo < hi => lo \in Units(lo, hi)
        BY <1>8 DEF Units
      <4> QED BY <3>1, <4>1
    <3>3. Len(Perfect(lo, hi)) = 0 /\ Perfect(lo, hi) \in Seq(Units(lo, hi))
      BY <1>8, <3>2, PerfectIs
    <3>4. a = <<>>
      <4> HIDE DEF Perfect
      <4> QED BY <2>1, <3>3
    <3> QED BY <2>4, <3>4 DEF Grounds
  <2> QED BY <2>3, <2>4
<1>16. Plain(audio) /\ short' = {} => unsure' = {}
  <2> SUFFICES ASSUME Plain(audio), short' = {} PROVE unsure' = {}
    OBVIOUS
  <2>1. short = {} /\ unsure = {} /\ a = Perfect(lo, hi) /\ text = Perfect(0, P)
    BY <1>9, <1>14 DEF Exact, P
  <2>2. Grounds(Perfect(0, P), Perfect(lo, hi), P - lo, width)
    BY <1>1, <1>5, PlainHasGrounds DEF P, lo, hi, width, from
  <2> QED BY <1>4, <2>1, <2>2
<1>17. text' = text \o add
  BY <1>4
<1>18. S2 = (short \cup unsure)'
  OBVIOUS
<1> HIDE DEF add, q, S, S2
<1>19. text' \in Seq(T)
  <2> HIDE DEF T
  <2>1. text \o add \in Seq(T)
    BY <1>12, <1>13, Appended
  <2> QED BY <1>17, <2>1
<1>20. MissingHasCause' /\ BackwardsHasCause'
  <2>1. Missing(text', (audio.at[pos])', (short \cup unsure)') /\ Backwards(text', (short \cup unsure)')
    BY <1>6, <1>13, <1>17, <1>18
  <2> HIDE DEF T
  <2> QED BY <1>9, <1>19, <2>1, Halves
<1>21. text' \in Seq(Units(0, (audio.at[pos])')) /\ unread' \in Seq(Seq(short' \cap Units(0, (audio.at[pos])')))
  BY <1>6, <1>11, <1>19 DEF Answered
<1>22. pos' < audio'.length => OverlapReady'
  <2> SUFFICES ASSUME e < audio.length PROVE OverlapReady'
    BY <1>6
  <2>1. /\ next = (audio.at[pos - Overlap])' /\ Overlap <= pos'
        /\ Units(next, hi) \subseteq S2 \/ EndsBefore(text', hi - next, hi)
    BY <1>6, <1>10, <1>13, <1>17 DEF next
  <2> QED BY <1>6, <1>18, <2>1 DEF OverlapReady
<1>23. Exact'
  BY <1>6, <1>15, <1>16, <1>17 DEF Exact
<1>24. Known'
  BY <1>1, <1>5, <1>6 DEF Known
<1> QED BY <1>20, <1>21, <1>22, <1>23, <1>24 DEF SessionInv

\* The steps that leave the text alone.
LEMMA StepQuiet ==
  ASSUME SessionInv, UNCHANGED <<audio, pos, text, unread, short, unsure>>,
         phase' \in {"start", "draft", "refine", "windows", "done", "raised"},
         phase' = "start" => phase = "start", phase' = "refine" => phase = "refine",
         phase' = "draft" => pos = 0 /\ audio.length > Draft + Margin /\ unsure = {}, phase' = "windows" => phase = "windows"
  PROVE  SessionInv'
<1>1. Known'
  BY DEF Known, SessionInv
<1>2. MissingHasCause' /\ BackwardsHasCause' /\ Exact'
  BY DEF SessionInv, MissingHasCause, BackwardsHasCause, Heard, Exact
<1>3. text' \in Seq(Units(0, (audio.at[pos])')) /\ unread' \in Seq(Seq(short' \cap Units(0, (audio.at[pos])')))
  BY DEF SessionInv
<1>4. phase' = "windows" /\ pos' < audio'.length => OverlapReady'
  BY DEF SessionInv, OverlapReady
<1> QED BY <1>1, <1>2, <1>3, <1>4 DEF SessionInv

LEMMA SessionStep == SessionInv /\ [SessionNext]_sessionVars => SessionInv'
<1> SUFFICES ASSUME SessionInv, [SessionNext]_sessionVars PROVE SessionInv'
  OBVIOUS
<1>1. CASE Offline
  BY <1>1, StepOffline
<1>2. CASE Online
  BY <1>2, StepQuiet DEF Online, SessionInv, Known
<1>3. CASE DraftChunk
  BY <1>3, StepDraft
<1>4. CASE RefineChunk
  BY <1>4, StepRefine
<1>5. CASE Window
  BY <1>5, StepWindow
<1>6. CASE Finish
  BY <1>6, StepQuiet DEF Finish
<1>7. CASE BrokenPipe
  BY <1>7, StepQuiet DEF BrokenPipe
<1>8. CASE UNCHANGED sessionVars
  BY <1>8, StepQuiet DEF sessionVars, SessionInv, Known
<1> QED BY <1>1, <1>2, <1>3, <1>4, <1>5, <1>6, <1>7, <1>8 DEF SessionNext

(***************************************************************************)
(* Whatever is said and wherever the audio is cut, whatever a server or a  *)
(* tool that stops early, dies, or refuses a chunk returns, and however    *)
(* its unread answers then shift: a unit is missing from the text of       *)
(* transcribe_streaming(), repeated or out of order, only if it lies in a  *)
(* chunk whose call did not return all of it or in a window whose merge    *)
(* had no grounds; and when speech is even and without repeated wording    *)
(* and every call returns everything, the text is exactly what was said.   *)
(***************************************************************************)
THEOREM WrongAlwaysHasCause == SessionSpec => []WrongHasCause
<1>1. SessionInv => WrongHasCause
  BY DEF SessionInv, Exact, WrongHasCause, PlainIsPerfect
<1> QED BY InvBegins, SessionStep, <1>1, PTL DEF SessionSpec
===============================================================================
