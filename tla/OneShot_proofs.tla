---------------------------- MODULE OneShot_proofs ----------------------------
(***************************************************************************)
(* Proofs about the one-shot program.  The hotwords (HotwordTrie): for     *)
(* every vocabulary and every list of entries the trie has one node per    *)
(* prefix, the cursor stands for what was emitted last, and only           *)
(* continuations are boosted.  The audio (AudioInput): the samples are the *)
(* file's for every file and rate.  The program (AsrInfer): what it holds  *)
(* on every path, the prompt for every context, the lines it prints.  The  *)
(* decoder of WAV (WavFile): its frames are the file's sound.              *)
(***************************************************************************)
EXTENDS HotwordTrie, AudioInput, AsrInfer, WavFile, DataInduction, SequenceTheorems

(***************************************************************************)
(* HotwordTrie.  The invariant behind the three says that the arcs spell   *)
(* the nodes: an arc labelled t leads from a node to the node spelt one t  *)
(* longer, every node but the root has such an arc, and no two nodes are   *)
(* spelt alike.  First, sequences.                                         *)
(***************************************************************************)
LEMMA PrefixGrows ==
  ASSUME NEW S, NEW w \in Seq(S), NEW k \in 0..(Len(w) - 1)
  PROVE  /\ SubSeq(w, 1, k) \in Seq(S) /\ w[k + 1] \in S
         /\ SubSeq(w, 1, k + 1) = Append(SubSeq(w, 1, k), w[k + 1])
<1>1. Len(w) \in Nat /\ w[k + 1] \in S
  BY LenProperties, ElementOfSeq
<1>2. SubSeq(w, 1, k) \in Seq(S) /\ Len(SubSeq(w, 1, k)) = k
      /\ \A i \in 1..k : SubSeq(w, 1, k)[i] = w[i]
  BY <1>1, SubSeqProperties, ElementOfSeq
<1>3. SubSeq(w, 1, k + 1) \in Seq(S) /\ Len(SubSeq(w, 1, k + 1)) = k + 1
      /\ \A i \in 1..(k + 1) : SubSeq(w, 1, k + 1)[i] = w[i]
  BY <1>1, SubSeqProperties, ElementOfSeq
<1>4. LET a == Append(SubSeq(w, 1, k), w[k + 1])
      IN  /\ a \in Seq(S) /\ Len(a) = k + 1
          /\ \A i \in 1..k : a[i] = w[i]
          /\ a[k + 1] = w[k + 1]
  BY <1>1, <1>2, AppendProperties
<1>5. \A i \in 1..(k + 1) :
        SubSeq(w, 1, k + 1)[i] = Append(SubSeq(w, 1, k), w[k + 1])[i]
  BY <1>1, <1>3, <1>4
<1> QED
  BY <1>1, <1>2, <1>3, <1>4, <1>5, SeqEqual

LEMMA SuffixIsSubSeq ==
  ASSUME NEW S, NEW e \in Seq(S)
  PROVE  \A s : s \in Suffixes(e) <=> \E k \in 1..(Len(e) + 1) : s = SubSeq(e, k, Len(e))
<1>1. Len(e) \in Nat /\ SubSeq(e, Len(e) + 1, Len(e)) = <<>>
  BY LenProperties, SubSeqEmpty
<1>2. 1..(Len(e) + 1) = 1..Len(e) \cup {Len(e) + 1}
  BY <1>1
<1> QED
  BY <1>1, <1>2 DEF Suffixes

LEMMA SuffixGrows ==
  ASSUME NEW S, NEW e \in Seq(S), NEW s \in Suffixes(e), NEW t \in S
  PROVE  s \in Seq(S) /\ Append(s, t) \in Suffixes(Append(e, t))
<1>1. PICK k \in 1..(Len(e) + 1) : s = SubSeq(e, k, Len(e))
  BY SuffixIsSubSeq
<1>2. Len(e) \in Nat
  BY LenProperties
<1>3. /\ s \in Seq(S) /\ Len(s) = Len(e) - k + 1
      /\ \A i \in 1..(Len(e) - k + 1) : s[i] = e[k + i - 1]
  BY <1>1, <1>2, SubSeqProperties, ElementOfSeq
<1> DEFINE f == Append(e, t)
<1>4. /\ f \in Seq(S) /\ Len(f) = Len(e) + 1
      /\ \A i \in 1..Len(e) : f[i] = e[i]
      /\ f[Len(e) + 1] = t
  BY AppendProperties
<1>5. /\ SubSeq(f, k, Len(f)) \in Seq(S) /\ Len(SubSeq(f, k, Len(f))) = Len(e) - k + 2
      /\ \A i \in 1..(Len(e) - k + 2) : SubSeq(f, k, Len(f))[i] = f[k + i - 1]
  <2> HIDE DEF f
  <2>1. \A i \in k..Len(f) : f[i] \in S
    BY <1>2, <1>4, ElementOfSeq
  <2> QED
    BY <1>2, <1>4, <2>1, SubSeqProperties
<1>6. /\ Append(s, t) \in Seq(S) /\ Len(Append(s, t)) = Len(e) - k + 2
      /\ \A i \in 1..(Len(e) - k + 1) : Append(s, t)[i] = s[i]
      /\ Append(s, t)[Len(e) - k + 2] = t
  BY <1>2, <1>3, AppendProperties
<1>7. \A i \in 1..(Len(e) - k + 2) : Append(s, t)[i] = SubSeq(f, k, Len(f))[i]
  <2> HIDE DEF f
  <2> TAKE i \in 1..(Len(e) - k + 2)
  <2>1. CASE i = Len(e) - k + 2
    BY <1>2, <1>4, <1>5, <1>6, <2>1
  <2>2. CASE i # Len(e) - k + 2
    <3>1. i \in 1..(Len(e) - k + 1) /\ k + i - 1 \in 1..Len(e)
      BY <1>2, <2>2
    <3>2. SubSeq(f, k, Len(f))[i] = f[k + i - 1]
      BY <1>5
    <3> QED
      BY <3>1, <3>2, <1>3, <1>4, <1>6
  <2> QED
    BY <2>1, <2>2
<1>8. Append(s, t) = SubSeq(f, k, Len(f))
  <2> HIDE DEF f
  <2> QED
    BY <1>5, <1>6, <1>7, SeqEqual
<1>9. k \in 1..(Len(f) + 1)
  BY <1>2, <1>4
<1> HIDE DEF f
<1>10. SubSeq(f, k, Len(f)) \in Suffixes(f)
  BY <1>4, <1>9, SuffixIsSubSeq
<1>11. s \in Seq(S) /\ Append(s, t) \in Suffixes(f)
  BY <1>3, <1>8, <1>10
<1> QED
  BY <1>11 DEF f

LEMMA EmptyIsSuffix ==
  ASSUME NEW S, NEW e \in Seq(S)
  PROVE  <<>> \in Suffixes(e)
BY DEF Suffixes

LEMMA EmptyIsPrefix ==
  ASSUME NEW S, NEW w \in Seq(S)
  PROVE  SubSeq(w, 1, 0) = <<>> /\ <<>> \in Prefixes(w)
<1>1. Len(w) \in Nat /\ SubSeq(w, 1, 0) = <<>>
  BY LenProperties, SubSeqEmpty
<1> QED
  BY <1>1 DEF Prefixes

LEMMA OnlyEmptyPrefix == Prefixes(<<>>) = {<<>>}
<1>1. <<>> \in Seq({}) /\ Len(<<>>) = 0
  BY EmptySeq
<1>2. SubSeq(<<>>, 1, 0) = <<>> /\ <<>> \in Prefixes(<<>>)
  BY <1>1, EmptyIsPrefix
<1>3. \A p \in Prefixes(<<>>) : p = <<>>
  BY <1>1, <1>2 DEF Prefixes
<1> QED
  BY <1>2, <1>3

(***************************************************************************)
(* The inductive invariant.                                                *)
(***************************************************************************)
Known == Entries \cup {<<>>}

\* The arcs spell the nodes.
Spelling ==
  /\ spelt[0] = <<>>
  /\ \A a \in arcs : spelt[child[a]] = Append(spelt[a[1]], a[2])
  /\ \A n \in Node : n # 0 => \E a \in arcs : child[a] = n
  /\ \A m, n \in Node : spelt[m] = spelt[n] => m = n

\* Nodes are prefixes of entries, and all those of inserted entries are there.
Inserted ==
  /\ word \in Known /\ word \notin todo
  /\ spelt[cur] = SubSeq(word, 1, at)
  /\ \A n \in Node : \E w \in Known : spelt[n] \in Prefixes(w)
  /\ \A k \in 0..at : \E n \in Node : spelt[n] = SubSeq(word, 1, k)
  /\ \A w \in Known \ todo : w # word =>
       \A p \in Prefixes(w) : \E n \in Node : spelt[n] = p

\* Sampling starts when the trie is finished.
Decoding == CursorIsRecent /\ (~Built => cursor = 0 /\ emitted = <<>>)

IInv == TypeOK /\ Spelling /\ Inserted /\ Decoding

LEMMA KnownAreSeqs == Known \subseteq Seq(Tokens)
  BY TrieAssumption, EmptySeq DEF Known

LEMMA InitIInv == Init => IInv
<1> SUFFICES ASSUME Init PROVE IInv
  OBVIOUS
<1> USE DEF Init
<1>1. TypeOK
  <2>1. <<>> \in Seq(Tokens) /\ Len(<<>>) = 0
    BY EmptySeq
  <2>2. Node = {0}
    BY DEF Node
  <2>3. child \in [arcs -> Node]
    BY SMT
  <2> QED
    BY <2>1, <2>2, <2>3 DEF TypeOK
<1>2. Spelling
  BY DEF Spelling, Node
<1>3. Inserted
  <2>1. word \in Known /\ word \notin todo
    BY TrieAssumption DEF Known
  <2>2. <<>> \in Seq({})
    BY EmptySeq
  <2>3. SubSeq(<<>>, 1, 0) = <<>> /\ <<>> \in Prefixes(<<>>)
    BY <2>2, EmptyIsPrefix
  <2>4. Prefixes(<<>>) = {<<>>}
    BY OnlyEmptyPrefix
  <2>5. Node = {0} /\ spelt[0] = <<>>
    BY DEF Node
  <2> QED
    BY <2>1, <2>3, <2>4, <2>5 DEF Inserted, Known
<1>4. Decoding
  BY EmptySeq, EmptyIsSuffix DEF Decoding, CursorIsRecent
<1> QED
  BY <1>1, <1>2, <1>3, <1>4 DEF IInv

LEMMA NextEntryIInv == IInv /\ NextEntry => IInv'
<1> SUFFICES ASSUME IInv, NextEntry PROVE IInv'
  OBVIOUS
<1>1. PICK w \in todo : word' = w /\ todo' = todo \ {w}
  BY DEF NextEntry
<1>2. /\ at = Len(word) /\ todo # {} /\ at' = 0 /\ cur' = 0 /\ Node' = Node
      /\ UNCHANGED <<size, arcs, child, spelt, cursor, emitted>>
  BY DEF NextEntry, decodeVars, Node
<1>3. w \in Entries /\ w \in Seq(Tokens) /\ Len(w) \in Nat
  BY TrieAssumption, LenProperties DEF IInv, TypeOK
<1>4. TypeOK'
  <2>1. 0 \in Node
    BY DEF IInv, TypeOK, Node
  <2> QED
    BY <1>1, <1>2, <1>3, <2>1 DEF IInv, TypeOK
<1>5. Spelling'
  BY <1>2 DEF IInv, Spelling
<1>6. Inserted'
  <2>1. word' \in Known /\ word' \notin todo'
    BY <1>1, <1>3 DEF Known
  <2>2. spelt'[cur'] = SubSeq(word', 1, at')
    BY <1>1, <1>2, <1>3, EmptyIsPrefix DEF IInv, Spelling
  <2>3. \A n \in Node' : \E v \in Known : spelt'[n] \in Prefixes(v)
    BY <1>2 DEF IInv, Inserted
  <2>4. \A k \in 0..at' : \E n \in Node' : spelt'[n] = SubSeq(word', 1, k)
    <3>1. 0 \in Node' /\ \A k \in 0..at' : k = 0
      BY <1>2 DEF IInv, TypeOK, Node
    <3> QED
      BY <3>1, <2>2, <1>2
  <2>5. \A p \in Prefixes(word) : \E n \in Node : spelt[n] = p
    BY <1>2 DEF IInv, Inserted, Prefixes
  <2>6. \A v \in Known \ todo' : v # word' =>
          \A p \in Prefixes(v) : \E n \in Node' : spelt'[n] = p
    BY <1>1, <1>2, <2>5 DEF IInv, Inserted
  <2> QED
    BY <2>1, <2>2, <2>3, <2>4, <2>6 DEF Inserted
<1>7. Decoding'
  BY <1>2 DEF IInv, Decoding, CursorIsRecent, Built
<1> QED
  BY <1>4, <1>5, <1>6, <1>7 DEF IInv

\* What both ways to go one token further have in common.
LEMMA OneTokenFurther ==
  ASSUME IInv, at < Len(word)
  PROVE  /\ word[at + 1] \in Tokens /\ at + 1 \in 0..Len(word)
         /\ SubSeq(word, 1, at + 1) \in Seq(Tokens)
         /\ SubSeq(word, 1, at + 1) = Append(spelt[cur], word[at + 1])
         /\ ~Built /\ cursor = 0 /\ emitted = <<>>
<1>1. at \in 0..(Len(word) - 1) /\ Len(word) \in Nat /\ word \in Seq(Tokens)
  BY LenProperties DEF IInv, TypeOK
<1>2. /\ SubSeq(word, 1, at) \in Seq(Tokens) /\ word[at + 1] \in Tokens
      /\ SubSeq(word, 1, at + 1) = Append(SubSeq(word, 1, at), word[at + 1])
  BY <1>1, PrefixGrows
<1>3. SubSeq(word, 1, at + 1) \in Seq(Tokens)
  BY <1>2, AppendProperties
<1>4. ~Built
  BY <1>1 DEF Built
<1> QED
  BY <1>1, <1>2, <1>3, <1>4 DEF IInv, Inserted, Decoding

LEMMA FollowIInv == IInv /\ Follow => IInv'
<1> SUFFICES ASSUME IInv, Follow PROVE IInv'
  OBVIOUS
<1> DEFINE a == <<cur, word[at + 1]>>
<1>1. /\ at < Len(word) /\ a \in arcs /\ cur' = child[a] /\ at' = at + 1 /\ Node' = Node
      /\ UNCHANGED <<todo, word, size, arcs, child, spelt, cursor, emitted>>
  BY DEF Follow, decodeVars, Node
<1>2. /\ at + 1 \in 0..Len(word)
      /\ SubSeq(word, 1, at + 1) = Append(spelt[cur], word[at + 1])
      /\ ~Built /\ cursor = 0 /\ emitted = <<>>
  BY <1>1, OneTokenFurther
<1>3. TypeOK'
  BY <1>1, <1>2 DEF IInv, TypeOK
<1>4. Spelling'
  BY <1>1 DEF IInv, Spelling
<1>5. spelt[cur'] = SubSeq(word, 1, at + 1) /\ cur' \in Node
  BY <1>1, <1>2 DEF IInv, Spelling, TypeOK
<1>6. Inserted'
  <2>1. \A k \in 0..at' : k \in 0..at \/ k = at + 1
    BY <1>1 DEF IInv, TypeOK
  <2>2. \A k \in 0..at' : \E n \in Node' : spelt'[n] = SubSeq(word', 1, k)
    BY <1>1, <1>5, <2>1 DEF IInv, Inserted
  <2> QED
    BY <1>1, <1>5, <2>2 DEF IInv, Inserted
<1>7. Decoding'
  BY <1>1, <1>2 DEF IInv, Decoding, CursorIsRecent
<1> QED
  BY <1>3, <1>4, <1>6, <1>7 DEF IInv

\* A spelling one token longer than that of m belongs to a child of m.
LEMMA LongerIsChild ==
  ASSUME TypeOK, Spelling, NEW m \in Node, NEW t \in Tokens, NEW n \in Node,
         spelt[n] = Append(spelt[m], t)
  PROVE  <<m, t>> \in arcs
<1>0. spelt[m] \in Seq(Tokens)
  BY DEF TypeOK
<1>1. Append(spelt[m], t) # <<>>
  BY <1>0, AppendProperties
<1>2. PICK p \in Node, x \in Tokens : <<p, x>> \in arcs /\ child[<<p, x>>] = n
  <2>1. PICK b \in arcs : child[b] = n
    BY <1>1 DEF Spelling
  <2>2. PICK p \in Node, x \in Tokens : b = <<p, x>>
    BY DEF TypeOK
  <2> QED
    BY <2>1, <2>2
<1>3. spelt[n] = Append(spelt[p], x) /\ spelt[p] \in Seq(Tokens)
  BY <1>2 DEF Spelling, TypeOK
<1>4. spelt[p] = spelt[m] /\ x = t
  <2> DEFINE r == spelt[p]
             s == spelt[m]
  <2>1. r \in Seq(Tokens) /\ s \in Seq(Tokens) /\ Append(r, x) = Append(s, t)
    BY <1>0, <1>3
  <2>2. r = s /\ x = t
    <3> HIDE DEF r, s
    <3> QED
      BY <2>1, AppendInjective
  <2> QED
    BY <2>2
<1>5. p = m
  BY <1>4 DEF Spelling
<1> QED
  BY <1>2, <1>4, <1>5

LEMMA GrowIInv == IInv /\ Grow => IInv'
<1> SUFFICES ASSUME IInv, Grow PROVE IInv'
  OBVIOUS
<1> DEFINE a == <<cur, word[at + 1]>>
           new == SubSeq(word, 1, at + 1)
<1>1. /\ at < Len(word) /\ a \notin arcs /\ arcs' = arcs \cup {a}
      /\ child' = [b \in arcs' |-> IF b \in arcs THEN child[b] ELSE size]
      /\ spelt' = [n \in 0..size |-> IF n < size THEN spelt[n] ELSE new]
      /\ size' = size + 1 /\ cur' = size /\ at' = at + 1
      /\ UNCHANGED <<todo, word, cursor, emitted>>
  BY DEF Grow, decodeVars
<1>2. /\ word[at + 1] \in Tokens /\ at + 1 \in 0..Len(word) /\ new \in Seq(Tokens)
      /\ new = Append(spelt[cur], word[at + 1])
      /\ ~Built /\ cursor = 0 /\ emitted = <<>>
  BY <1>1, OneTokenFurther
<1>3. /\ size \in Nat \ {0} /\ Node = 0..(size - 1) /\ Node' = 0..size
      /\ Node' = Node \cup {size} /\ size \notin Node
      /\ \A n \in Node : n \in 0..size /\ n < size
  BY <1>1 DEF IInv, TypeOK, Node
<1>4. (\A n \in Node : spelt'[n] = spelt[n]) /\ spelt'[size] = new
  <2>1. size \in 0..size /\ ~(size < size)
    BY <1>3
  <2> HIDE DEF new
  <2> QED BY <1>1, <1>3, <2>1
<1>5. (\A b \in arcs : child'[b] = child[b]) /\ child'[a] = size
  BY <1>1
<1>6. a \in Node' \X Tokens /\ cur \in Node /\ cursor \in Node
  BY <1>2, <1>3 DEF IInv, TypeOK
<1> HIDE DEF a, new
<1>7. \A n \in Node : spelt[n] # new
  BY <1>1, <1>2, <1>6, LongerIsChild DEF IInv, a
<1>8. TypeOK'
  <2>1. spelt' \in [Node' -> Seq(Tokens)]
    BY <1>1, <1>2, <1>3 DEF IInv, TypeOK
  <2>2. child' \in [arcs' -> Node']
    BY <1>1, <1>3 DEF IInv, TypeOK
  <2>3. arcs' \subseteq Node' \X Tokens
    BY <1>1, <1>3, <1>6 DEF IInv, TypeOK
  <2>4. size' \in Nat \ {0} /\ cur' \in Node' /\ cursor' \in Node' /\ at' \in 0..Len(word')
    BY <1>1, <1>2, <1>3, <1>6
  <2> QED
    BY <1>1, <2>1, <2>2, <2>3, <2>4 DEF IInv, TypeOK
<1>9. Spelling'
  <2>1. spelt'[0] = <<>>
    <3>1. 0 \in Node
      BY <1>3
    <3> QED
      BY <3>1, <1>4 DEF IInv, Spelling
  <2>2. \A b \in arcs' : spelt'[child'[b]] = Append(spelt'[b[1]], b[2])
    <3> TAKE b \in arcs'
    <3>1. CASE b \in arcs
      <4>1. child[b] \in Node /\ b[1] \in Node
        BY <3>1 DEF IInv, TypeOK
      <4> QED
        BY <3>1, <4>1, <1>4, <1>5, ZenonT(40) DEF IInv, Spelling
    <3>2. CASE b = a
      <4>1. b[1] = cur /\ b[2] = word[at + 1]
        BY <3>2 DEF a
      <4> QED
        BY <3>2, <4>1, <1>2, <1>4, <1>5, <1>6
    <3> QED
      BY <3>1, <3>2, <1>1
  <2>3. \A n \in Node' : n # 0 => \E b \in arcs' : child'[b] = n
    BY <1>1, <1>3, <1>5 DEF IInv, Spelling
  <2>4. \A m, n \in Node' : spelt'[m] = spelt'[n] => m = n
    BY <1>3, <1>4, <1>7 DEF IInv, Spelling
  <2> QED
    BY <2>1, <2>2, <2>3, <2>4 DEF Spelling
<1>10. Inserted'
  <2>1. word' \in Known /\ word' \notin todo'
    BY <1>1 DEF IInv, Inserted
  <2>2. spelt'[cur'] = SubSeq(word', 1, at')
    BY <1>1, <1>4 DEF new
  <2>3. new \in Prefixes(word)
    BY <1>2 DEF Prefixes, new
  <2>4. \A n \in Node' : \E v \in Known : spelt'[n] \in Prefixes(v)
    BY <1>1, <1>3, <1>4, <2>1, <2>3 DEF IInv, Inserted
  <2>5. \A k \in 0..at' : \E n \in Node' : spelt'[n] = SubSeq(word', 1, k)
    <3> TAKE k \in 0..at'
    <3>1. CASE k \in 0..at
      <4>1. PICK n \in Node : spelt[n] = SubSeq(word, 1, k)
        BY <3>1 DEF IInv, Inserted
      <4> QED
        BY <4>1, <1>1, <1>3, <1>4
    <3>2. CASE k = at + 1
      BY <3>2, <1>1, <1>3, <1>4 DEF new
    <3>3. k \in 0..at \/ k = at + 1
      BY <1>1 DEF IInv, TypeOK
    <3> QED
      BY <3>1, <3>2, <3>3
  <2>6. \A v \in Known \ todo' : v # word' =>
          \A p \in Prefixes(v) : \E n \in Node' : spelt'[n] = p
    <3> SUFFICES ASSUME NEW v \in Known \ todo, v # word, NEW p \in Prefixes(v)
                 PROVE  \E n \in Node' : spelt'[n] = p
      BY <1>1
    <3>1. PICK n \in Node : spelt[n] = p
      BY DEF IInv, Inserted
    <3> QED
      BY <3>1, <1>3, <1>4
  <2> QED
    BY <2>1, <2>2, <2>4, <2>5, <2>6 DEF Inserted
<1>11. Decoding'
  <2>1. spelt'[cursor'] = spelt[cursor]
    BY <1>1, <1>4, <1>6
  <2> QED
    BY <2>1, <1>1, <1>2 DEF IInv, Decoding, CursorIsRecent
<1> QED
  BY <1>8, <1>9, <1>10, <1>11 DEF IInv

\* Going from a node whose spelling was emitted last along the arc of the next token.
LEMMA ChildIsRecent ==
  ASSUME IInv, NEW m \in Node, NEW t \in Tokens, <<m, t>> \in arcs,
         spelt[m] \in Suffixes(emitted)
  PROVE  /\ child[<<m, t>>] \in Node
         /\ spelt[child[<<m, t>>]] \in Suffixes(Append(emitted, t))
<1>1. emitted \in Seq(Tokens) /\ child[<<m, t>>] \in Node
  BY DEF IInv, TypeOK
<1>2. spelt[child[<<m, t>>]] = Append(spelt[m], t)
  <2>1. <<m, t>>[1] = m /\ <<m, t>>[2] = t
    OBVIOUS
  <2> QED
    BY <2>1 DEF IInv, Spelling
<1>3. Append(spelt[m], t) \in Suffixes(Append(emitted, t))
  BY <1>1, SuffixGrows
<1> QED
  BY <1>1, <1>2, <1>3

LEMMA SampleIInv == ASSUME IInv, NEW t \in Tokens, Sample(t) PROVE IInv'
<1>1. /\ Built /\ emitted' = Append(emitted, t) /\ Node' = Node
      /\ IF Active THEN Advance(t) ELSE UNCHANGED cursor
      /\ UNCHANGED <<todo, word, at, cur, size, arcs, child, spelt>>
  BY DEF Sample, insertVars, Node
<1>2. emitted \in Seq(Tokens) /\ emitted' \in Seq(Tokens) /\ 0 \in Node /\ cursor \in Node
  BY <1>1, AppendProperties DEF IInv, TypeOK, Node
<1>3. spelt[0] = <<>> /\ spelt[cursor] \in Suffixes(emitted)
  BY DEF IInv, Spelling, Decoding, CursorIsRecent
<1>4. <<>> \in Suffixes(emitted) /\ <<>> \in Suffixes(emitted')
  BY <1>2, EmptyIsSuffix
<1>5. cursor' \in Node /\ spelt[cursor'] \in Suffixes(emitted')
  <2>1. CASE Active /\ <<cursor, t>> \in arcs
    <3>1. cursor' = child[<<cursor, t>>]
      BY <1>1, <2>1 DEF Advance, Children
    <3> QED
      BY <3>1, <2>1, <1>1, <1>2, <1>3, ChildIsRecent
  <2>2. CASE Active /\ <<cursor, t>> \notin arcs /\ <<0, t>> \in arcs
    <3>1. cursor' = child[<<0, t>>]
      BY <1>1, <2>2 DEF Advance, Children
    <3> QED
      BY <3>1, <2>2, <1>1, <1>2, <1>3, <1>4, ChildIsRecent
  <2>3. CASE Active /\ <<cursor, t>> \notin arcs /\ <<0, t>> \notin arcs
    <3>1. cursor' = 0
      BY <1>1, <2>3 DEF Advance, Children
    <3> QED
      BY <3>1, <1>2, <1>3, <1>4
  <2>4. CASE ~Active
    <3>1. cursor' = cursor /\ cursor = 0
      BY <1>1, <1>2, <2>4 DEF Active, IInv, TypeOK, Node
    <3> QED
      BY <3>1, <1>2, <1>3, <1>4
  <2> QED
    BY <2>1, <2>2, <2>3, <2>4
<1>6. TypeOK'
  BY <1>1, <1>2, <1>5 DEF IInv, TypeOK
<1>7. Spelling'
  BY <1>1 DEF IInv, Spelling
<1>8. Inserted'
  BY <1>1 DEF IInv, Inserted
<1>9. Decoding'
  BY <1>1, <1>5 DEF Decoding, CursorIsRecent, Built
<1> QED
  BY <1>6, <1>7, <1>8, <1>9 DEF IInv

LEMMA NextIInv == IInv /\ [Next]_vars => IInv'
<1> SUFFICES ASSUME IInv, [Next]_vars PROVE IInv'
  OBVIOUS
<1>1. CASE NextEntry
  BY <1>1, NextEntryIInv
<1>2. CASE Follow
  BY <1>2, FollowIInv
<1>3. CASE Grow
  BY <1>3, GrowIInv
<1>4. ASSUME NEW t \in Tokens, Sample(t) PROVE IInv'
  BY <1>4, SampleIInv
<1>5. CASE UNCHANGED vars
  <2> USE <1>5 DEF vars, insertVars, decodeVars
  <2>1. TypeOK'
    BY DEF IInv, TypeOK, Node
  <2>2. Spelling' /\ Inserted'
    BY DEF IInv, Spelling, Inserted, Node
  <2>3. Decoding'
    BY DEF IInv, Decoding, CursorIsRecent, Built
  <2> QED
    BY <2>1, <2>2, <2>3 DEF IInv
<1> QED
  BY <1>1, <1>2, <1>3, <1>4, <1>5 DEF Next

LEMMA Invariance == Spec => []IInv
<1>1. Init => IInv
  BY InitIInv
<1>2. IInv /\ [Next]_vars => IInv'
  BY NextIInv
<1> QED
  BY <1>1, <1>2, PTL DEF Spec

(***************************************************************************)
(* The variables keep their types.                                         *)
(***************************************************************************)
THEOREM TypeCorrect == Spec => []TypeOK
<1>1. IInv => TypeOK
  BY DEF IInv
<1> QED
  BY <1>1, Invariance, PTL

(***************************************************************************)
(* However the entries overlap and in whatever order they are inserted,    *)
(* the finished trie has exactly one node for each of their prefixes.      *)
(***************************************************************************)
THEOREM TrieIsExact == Spec => []OneNodePerPrefix
<1>1. ASSUME IInv PROVE OneNodePerPrefix
  <2>1. \A m, n \in Node : spelt[m] = spelt[n] => m = n
    BY <1>1 DEF IInv, Spelling
  <2>2. ASSUME Built
        PROVE  {spelt[n] : n \in Node} = UNION {Prefixes(w) : w \in Known}
    <3>1. ASSUME NEW n \in Node PROVE \E w \in Known : spelt[n] \in Prefixes(w)
      BY <1>1 DEF IInv, Inserted
    <3>2. ASSUME NEW w \in Known, NEW p \in Prefixes(w)
          PROVE  \E n \in Node : spelt[n] = p
      <4>1. todo = {} /\ at = Len(word)
        BY <2>2 DEF Built
      <4>2. CASE w = word
        BY <4>1, <4>2, <1>1 DEF IInv, Inserted, Prefixes
      <4>3. CASE w # word
        BY <4>1, <4>3, <1>1 DEF IInv, Inserted
      <4> QED
        BY <4>2, <4>3
    <3> QED
      BY <3>1, <3>2
  <2> QED
    BY <2>1, <2>2 DEF OneNodePerPrefix, Known
<1> QED
  BY <1>1, Invariance, PTL

(***************************************************************************)
(* The cursor always stands for the tokens sampled last.                   *)
(***************************************************************************)
THEOREM CursorFollows == Spec => []CursorIsRecent
<1>1. IInv => CursorIsRecent
  BY DEF IInv, Decoding
<1> QED
  BY <1>1, Invariance, PTL

\* An arc out of a node that was emitted last continues an entry.
LEMMA ArcContinues ==
  ASSUME IInv, NEW m \in Node, NEW t \in Tokens, <<m, t>> \in arcs,
         spelt[m] \in Suffixes(emitted)
  PROVE  Continues(t)
<1>1. child[<<m, t>>] \in Node /\ spelt[m] \in Seq(Tokens)
  BY DEF IInv, TypeOK
<1>2. spelt[child[<<m, t>>]] = Append(spelt[m], t)
  <2>1. <<m, t>>[1] = m /\ <<m, t>>[2] = t
    OBVIOUS
  <2> QED
    BY <2>1 DEF IInv, Spelling
<1>3. PICK w \in Known : Append(spelt[m], t) \in Prefixes(w)
  BY <1>1, <1>2 DEF IInv, Inserted
<1>4. w # <<>>
  <2> SUFFICES ASSUME w = <<>> PROVE FALSE
    OBVIOUS
  <2>1. Prefixes(<<>>) = {<<>>}
    BY OnlyEmptyPrefix
  <2>2. Append(spelt[m], t) # <<>>
    BY <1>1, AppendProperties
  <2> QED
    BY <1>3, <2>1, <2>2
<1>5. w \in Entries
  BY <1>4 DEF Known
<1> QED
  BY <1>3, <1>5 DEF Continues

(***************************************************************************)
(* A bonus goes to continuations only, and once to each.                   *)
(***************************************************************************)
THEOREM BonusIsRight == Spec => []OnlyContinuationsBoosted
<1>1. ASSUME IInv PROVE OnlyContinuationsBoosted
  <2> SUFFICES ASSUME NEW t \in Tokens, Bonus(t) > 0
               PROVE  Bonus(t) = 1 /\ Continues(t)
    BY DEF OnlyContinuationsBoosted
  <2>1. 0 \in Node /\ cursor \in Node /\ emitted \in Seq(Tokens)
    BY <1>1 DEF IInv, TypeOK, Node
  <2>2. spelt[0] \in Suffixes(emitted) /\ spelt[cursor] \in Suffixes(emitted)
    BY <1>1, <2>1, EmptyIsSuffix DEF IInv, Spelling, Decoding, CursorIsRecent
  <2>3. Bonus(t) = 1 /\ (<<cursor, t>> \in arcs \/ <<0, t>> \in arcs)
    BY DEF Bonus, Children
  <2> QED
    BY <1>1, <2>1, <2>2, <2>3, ArcContinues
<1> QED
  BY <1>1, Invariance, PTL

(***************************************************************************)
(* A new match can begin wherever the cursor stands.                       *)
(***************************************************************************)
THEOREM AlwaysFresh == Spec => []FreshMatchBoosted
<1>1. ASSUME IInv PROVE FreshMatchBoosted
  <2> SUFFICES ASSUME Built, NEW w \in Entries PROVE Bonus(w[1]) = 1
    BY DEF FreshMatchBoosted
  <2>1. w \in Seq(Tokens) /\ Len(w) \in Nat /\ Len(w) # 0
    BY TrieAssumption, LenProperties, EmptySeq
  <2>2. /\ w[1] \in Tokens /\ SubSeq(w, 1, 1) = Append(SubSeq(w, 1, 0), w[1])
    <3>1. 0 \in 0..(Len(w) - 1)
      BY <2>1
    <3>2. w[0 + 1] \in Tokens /\ SubSeq(w, 1, 0 + 1) = Append(SubSeq(w, 1, 0), w[0 + 1])
      BY <2>1, <3>1, PrefixGrows
    <3> QED
      BY <3>2
  <2>3. SubSeq(w, 1, 1) \in Prefixes(w)
    BY <2>1 DEF Prefixes
  <2>4. PICK n \in Node : spelt[n] = SubSeq(w, 1, 1)
    <3>1. todo = {} /\ at = Len(word)
      BY DEF Built
    <3>2. w \in Known
      BY DEF Known
    <3>3. CASE w = word
      <4>1. 1 \in 0..at
        BY <3>1, <3>3, <2>1
      <4> QED
        BY <4>1, <3>3, <1>1 DEF IInv, Inserted
    <3>4. CASE w # word
      BY <3>1, <3>2, <3>4, <1>1, <2>3 DEF IInv, Inserted
    <3> QED
      BY <3>3, <3>4
  <2>5. 0 \in Node /\ spelt[n] = Append(spelt[0], w[1])
    <3>1. SubSeq(w, 1, 0) = <<>>
      BY <2>1, EmptyIsPrefix
    <3>2. 0 \in Node /\ spelt[0] = <<>>
      BY <1>1 DEF IInv, TypeOK, Spelling, Node
    <3> QED
      BY <3>1, <3>2, <2>2, <2>4
  <2>6. <<0, w[1]>> \in arcs
    BY <1>1, <2>2, <2>4, <2>5, LongerIsChild DEF IInv
  <2> QED
    BY <2>2, <2>6 DEF Bonus, Children
<1> QED
  BY <1>1, Invariance, PTL

(***************************************************************************)
(* The tokens boosted are exactly those that continue, or begin, a match.  *)
(***************************************************************************)
THEOREM BoostIsExact == Spec => []ExactBoost
<1>1. OnlyContinuationsBoosted /\ FreshMatchBoosted => ExactBoost
  BY DEF ExactBoost
<1> QED
  BY <1>1, BonusIsRight, AlwaysFresh, PTL

(***************************************************************************)
(* AudioInput: the interleaved values are frame by frame, so a mixed value *)
(* is of one frame; a resampled one lies before the end.                   *)
(***************************************************************************)
Interleaved(F, C) == [p \in 1..(F * C) |-> [frame |-> (p - 1) \div C, channel |-> (p - 1) % C]]
Averaged(F, C) == [i \in 1..F |-> [frame : {i - 1}, channel : 0..(C - 1)]]
Position == [at : Nat, left : Nat, right : Nat]

\* The sample at i of a file of F frames at R, resampled to T.
Lies(s, i, F, R, T) ==
  /\ s.at = ((i - 1) * R) \div T
  /\ {s.left, s.right} \subseteq 0..(F - 1)
  /\ s.left \in {s.at, s.at - 1}
  /\ s.right - s.left \in {0, 1}
  /\ s.right = s.left => R = T \/ s.left = F - 1

Resampled(ss, F, R, T) ==
  /\ ss \in Seq(Position)
  /\ \A i \in 1..Len(ss) : Lies(ss[i], i, F, R, T)
  /\ F * T - Len(ss) * R \in 0..R

InputInv ==
  /\ source \in Sources /\ target \in Rates
  /\ step \in {"decode", "mix", "resample", "normalize", "loaded", "failed"}
  /\ step \in {"mix", "resample", "normalize", "loaded"} => source.frames > 0
  /\ step = "mix" => raw = Interleaved(source.frames, source.channels)
  /\ step \in {"resample", "normalize", "loaded"} => mono = Averaged(source.frames, source.channels)
  /\ step \in {"normalize", "loaded"} => Resampled(samples, source.frames, source.rate, target)

LEMMA SourceType ==
  ASSUME NEW s \in Sources
  PROVE  s.channels \in Nat \ {0} /\ s.rate \in Nat \ {0} /\ s.frames \in Nat
BY InputAssumption

LEMMA InputInit_Inv == InputInit => InputInv
BY DEF InputInit, InputInv

\* Value (i - 1) * C + c of the interleaved ones is channel c - 1 of frame i - 1.
LEMMA ValueAt ==
  ASSUME NEW F \in Nat, NEW C \in Nat \ {0}, NEW i \in 1..F, NEW c \in 1..C
  PROVE  Interleaved(F, C)[(i - 1) * C + c] = [frame |-> i - 1, channel |-> c - 1]
<1> DEFINE p == (i - 1) * C + c
<1>1. p \in 1..(F * C)
  <2>1. C * i <= C * F /\ (i - 1) * C = C * i - C /\ C * F = F * C /\ C * i \in Nat
    BY ProductMonotone
  <2>2. (i - 1) * C \in Nat
    OBVIOUS
  <2> QED BY <2>1, <2>2
<1>2. ((i - 1) * C + (c - 1)) % C = c - 1 /\ ((i - 1) * C + (c - 1)) \div C = i - 1
  <2>1. i - 1 \in Nat /\ c - 1 \in 0..(C - 1)
    OBVIOUS
  <2> QED BY <2>1, DivisionUnique
<1>3. p - 1 = (i - 1) * C + (c - 1)
  <2>1. (i - 1) * C \in Int
    OBVIOUS
  <2> QED BY <2>1
<1>4. (p - 1) % C = c - 1 /\ (p - 1) \div C = i - 1
  BY <1>2, <1>3
<1> HIDE DEF p
<1>5. Interleaved(F, C)[p] = [frame |-> i - 1, channel |-> c - 1]
  BY <1>1, <1>4 DEF Interleaved
<1> QED BY <1>5 DEF p

LEMMA MixedIsFrame ==
  ASSUME NEW F \in Nat, NEW C \in Nat \ {0}, source.channels = C, raw = Interleaved(F, C), NEW i \in 1..F
  PROVE  Mixed(i) = [frame : {i - 1}, channel : 0..(C - 1)]
<1>1. Mixed(i) = {raw[(i - 1) * C + c] : c \in 1..C}
  BY DEF Mixed
<1>2. \A c \in 1..C : raw[(i - 1) * C + c] = [frame |-> i - 1, channel |-> c - 1]
  BY ValueAt
<1>3. ASSUME NEW x \in Mixed(i) PROVE x \in [frame : {i - 1}, channel : 0..(C - 1)]
  <2>1. PICK c \in 1..C : x = raw[(i - 1) * C + c]
    BY <1>1, <1>3, Zenon
  <2>2. x = [frame |-> i - 1, channel |-> c - 1]
    BY <1>2, <2>1, Zenon
  <2>3. c - 1 \in 0..(C - 1)
    OBVIOUS
  <2> QED BY <2>2, <2>3
<1>4. ASSUME NEW x \in [frame : {i - 1}, channel : 0..(C - 1)] PROVE x \in Mixed(i)
  <2>1. x = [frame |-> i - 1, channel |-> x.channel] /\ x.channel \in 0..(C - 1)
    OBVIOUS
  <2> DEFINE c == x.channel + 1
  <2>2. c \in 1..C /\ c - 1 = x.channel
    BY <2>1
  <2> HIDE DEF c
  <2>3. x = raw[(i - 1) * C + c]
    BY <1>2, <2>1, <2>2
  <2> QED BY <1>1, <2>2, <2>3, Zenon
<1> QED BY <1>3, <1>4

\* Unresampled: sample i is value i - 1.
LEMMA SameRate ==
  ASSUME NEW F \in Nat, NEW R \in Nat \ {0}
  PROVE  Resampled([i \in 1..F |-> [at |-> i - 1, left |-> i - 1, right |-> i - 1]], F, R, R)
<1> DEFINE ss == [i \in 1..F |-> [at |-> i - 1, left |-> i - 1, right |-> i - 1]]
<1>1. ss \in Seq(Position) /\ Len(ss) = F
  BY DEF Position
<1>2. ASSUME NEW i \in 1..F PROVE Lies(ss[i], i, F, R, R)
  <2>1. ss[i].at = i - 1 /\ ss[i].left = i - 1 /\ ss[i].right = i - 1
    OBVIOUS
  <2>2. i - 1 \in Nat /\ 0 \in 0..(R - 1) /\ (i - 1) * R + 0 = (i - 1) * R
    OBVIOUS
  <2>3. ((i - 1) * R) \div R = i - 1
    BY <2>2, DivisionUnique
  <2> HIDE DEF ss
  <2> QED BY <2>1, <2>3 DEF Lies
<1> HIDE DEF ss
<1>3. F * R - Len(ss) * R \in 0..R
  BY <1>1
<1>4. Resampled(ss, F, R, R)
  BY <1>1, <1>2, <1>3 DEF Resampled
<1> QED BY <1>4 DEF ss

\* What the double's floor of a * b / c is.
LEMMA FloorsAre ==
  ASSUME NEW a \in Nat, NEW b \in Nat \ {0}, NEW c \in Nat \ {0}, NEW f \in Floors(a, b, c)
  PROVE  /\ f \in Nat /\ f \in {(a * b) \div c, (a * b) \div c - 1}
         /\ (a * b) - f * c \in 0..c
<1> DEFINE n == a * b
           q == n \div c
           r == n % c
<1>1. n \in Nat
  OBVIOUS
<1>2. f = q \/ (f = q - 1 /\ r = 0 /\ a > 0)
  BY DEF Floors
<1>3. a > 0 => n > 0
  OBVIOUS
<1> HIDE DEF n
<1>4. q \in Nat /\ r \in 0..(c - 1) /\ n = q * c + r
  BY <1>1, DivisionOf
<1> HIDE DEF q, r
<1>5. CASE f = q
  <2>1. n - f * c = r
    BY <1>4, <1>5
  <2> QED BY <1>4, <1>5, <2>1 DEF n, q
<1>6. CASE f = q - 1 /\ r = 0 /\ a > 0
  <2>1. q # 0
    BY <1>3, <1>4, <1>6
  <2>2. f \in Nat /\ f * c = q * c - c /\ q * c \in Nat
    BY <1>4, <1>6, <2>1
  <2>3. n - f * c = c
    BY <1>4, <1>6, <2>2
  <2> QED BY <1>6, <2>2, <2>3 DEF n, q
<1> QED BY <1>2, <1>5, <1>6

\* Chosen among the floors, the least or the greatest.
Chosen(a, b, c, low) ==
  LET floors == Floors(a, b, c)
  IN  CHOOSE f \in floors : \A g \in floors : IF low THEN f <= g ELSE f >= g

LEMMA ChosenIsFloor ==
  ASSUME NEW a \in Nat, NEW b \in Nat \ {0}, NEW c \in Nat \ {0}, NEW low \in BOOLEAN
  PROVE  Chosen(a, b, c, low) \in Floors(a, b, c)
<1> DEFINE q == (a * b) \div c
           floors == Floors(a, b, c)
<1>1. q \in Int
  <2>1. a * b \in Nat
    OBVIOUS
  <2> QED BY <2>1, DivisionOf
<1>2. floors = {q} \/ floors = {q, q - 1}
  BY DEF Floors
<1> HIDE DEF q, floors
<1>3. \E f \in floors : \A g \in floors : IF low THEN f <= g ELSE f >= g
  <2>1. CASE floors = {q}
    BY <1>1, <2>1
  <2>2. CASE floors = {q, q - 1}
    <3>1. CASE low
      <4>1. q - 1 \in floors /\ \A g \in floors : q - 1 <= g
        BY <1>1, <2>2
      <4> QED BY <4>1, <3>1
    <3>2. CASE ~low
      <4>1. q \in floors /\ \A g \in floors : q >= g
        BY <1>1, <2>2
      <4> QED BY <4>1, <3>2
    <3> QED BY <3>1, <3>2
  <2> QED BY <1>2, <2>1, <2>2
<1>4. (CHOOSE f \in floors : \A g \in floors : IF low THEN f <= g ELSE f >= g) \in floors
  BY <1>3
<1> QED BY <1>4 DEF Chosen, floors

\* The position of sample i lies before the end of the file.
LEMMA BeforeEnd ==
  ASSUME NEW F \in Nat, NEW R \in Nat \ {0}, NEW T \in Nat \ {0}, NEW n \in Nat, n * R <= F * T,
         NEW i \in 1..n
  PROVE  /\ ((i - 1) * R) \div T \in Nat
         /\ ((i - 1) * R) \div T < F
<1> DEFINE a == (i - 1) * R
           q == a \div T
<1>1. a \in Nat /\ a < F * T
  <2>1. R * i <= R * n
    BY ProductMonotone
  <2>2. a = R * i - R /\ R * i \in Nat /\ R * n = n * R /\ F * T \in Nat /\ R * n \in Nat
    OBVIOUS
  <2>3. a \in Nat
    OBVIOUS
  <2> QED BY <2>1, <2>2, <2>3
<1> HIDE DEF a
<1>2. q \in Nat /\ T * q <= a
  BY <1>1, DivisionBounds
<1> HIDE DEF q
<1>3. q < F
  <2> SUFFICES ASSUME F <= q PROVE FALSE
    BY <1>2
  <2>1. T * F <= T * q
    BY <1>2, ProductMonotone
  <2> QED BY <1>1, <1>2, <2>1
<1> QED BY <1>2, <1>3 DEF q, a

LEMMA InterpolatedLies ==
  ASSUME NEW F \in Nat, NEW R \in Nat \ {0}, NEW T \in Nat \ {0}, R # T, NEW n \in Nat, n * R <= F * T,
         NEW i \in 1..n, Len(mono) = F, NEW idx \in Floors(i - 1, R, T)
  PROVE  /\ Interpolated(idx, ((i - 1) * R) \div T) \in Position
         /\ Lies(Interpolated(idx, ((i - 1) * R) \div T), i, F, R, T)
<1> DEFINE pos == ((i - 1) * R) \div T
           s == Interpolated(idx, pos)
<1>1. pos \in Nat /\ pos < F
  BY BeforeEnd
<1>2. idx \in Nat /\ idx \in {pos, pos - 1}
  <2>1. i - 1 \in Nat
    OBVIOUS
  <2> QED BY <2>1, FloorsAre
<1> HIDE DEF pos
<1>3. idx < F
  BY <1>1, <1>2
<1>4. s = [at |-> pos, left |-> idx, right |-> IF idx + 1 < F THEN idx + 1 ELSE idx]
  BY <1>2, <1>3 DEF Interpolated
<1> HIDE DEF s
<1>5. s.at = pos /\ s.left = idx /\ s.right = IF idx + 1 < F THEN idx + 1 ELSE idx
  BY <1>4
<1>6. s \in Position
  BY <1>1, <1>2, <1>4 DEF Position
<1>7. /\ {s.left, s.right} \subseteq 0..(F - 1) /\ s.left \in {s.at, s.at - 1}
      /\ s.right - s.left \in {0, 1} /\ (s.right = s.left => s.left = F - 1)
  BY <1>2, <1>3, <1>5
<1>8. Lies(s, i, F, R, T)
  BY <1>5, <1>7 DEF Lies, pos
<1> QED BY <1>6, <1>8 DEF s, pos

LEMMA OtherRate ==
  ASSUME NEW F \in Nat, NEW R \in Nat \ {0}, NEW T \in Nat \ {0}, R # T, Len(mono) = F,
         NEW n \in Floors(F, T, R), NEW low \in BOOLEAN
  PROVE  Resampled([i \in 1..n |-> Interpolated(Chosen(i - 1, R, T, low), ((i - 1) * R) \div T)], F, R, T)
<1> DEFINE ss == [i \in 1..n |-> Interpolated(Chosen(i - 1, R, T, low), ((i - 1) * R) \div T)]
<1>1. n \in Nat /\ F * T - n * R \in 0..R
  BY FloorsAre
<1>2. n * R <= F * T
  <2>1. n * R \in Nat /\ F * T \in Nat
    BY <1>1
  <2> QED BY <1>1, <2>1
<1>3. ASSUME NEW i \in 1..n
      PROVE  /\ Interpolated(Chosen(i - 1, R, T, low), ((i - 1) * R) \div T) \in Position
             /\ Lies(Interpolated(Chosen(i - 1, R, T, low), ((i - 1) * R) \div T), i, F, R, T)
  <2>1. i - 1 \in Nat
    BY <1>1
  <2>2. Chosen(i - 1, R, T, low) \in Floors(i - 1, R, T)
    BY <2>1, ChosenIsFloor
  <2> QED BY <1>1, <1>2, <2>2, InterpolatedLies
<1>4. ss \in Seq(Position) /\ Len(ss) = n
  <2>1. ss \in [1..n -> Position]
    BY <1>3
  <2> HIDE DEF ss
  <2> QED BY <1>1, <2>1, AsSequence
<1>5. \A i \in 1..n : Lies(ss[i], i, F, R, T)
  BY <1>3
<1> HIDE DEF ss
<1>6. Resampled(ss, F, R, T)
  BY <1>1, <1>4, <1>5 DEF Resampled
<1> QED BY <1>6 DEF ss

LEMMA StepResample == ASSUME InputInv, Resample PROVE InputInv'
<1> DEFINE F == source.frames
           R == source.rate
           T == target
<1>1. F \in Nat /\ R \in Nat \ {0} /\ T \in Nat \ {0}
  BY SourceType, InputAssumption DEF InputInv
<1>2. mono = Averaged(F, source.channels) /\ F > 0 /\ step = "resample" /\ step' = "normalize"
      /\ UNCHANGED <<source, target, mono>>
  BY DEF InputInv, Resample
<1>3. Len(mono) = F
  <2>1. mono \in [1..F -> {mono[i] : i \in 1..F}]
    BY <1>2 DEF Averaged
  <2> QED BY <1>1, <2>1, AsSequence
<1>4. Resampled(samples', F, R, T)
  <2>1. CASE R = T
    <3>1. samples' = [i \in 1..F |-> [at |-> i - 1, left |-> i - 1, right |-> i - 1]]
      BY <1>3, <2>1 DEF Resample
    <3> QED BY <1>1, <2>1, <3>1, SameRate
  <2>2. CASE R # T
    <3>1. PICK n \in Floors(F, T, R), low \in BOOLEAN :
            samples' = [i \in 1..n |-> Interpolated(Chosen(i - 1, R, T, low), ((i - 1) * R) \div T)]
      BY <1>3, <2>2 DEF Resample, Chosen
    <3> HIDE DEF F, R, T
    <3> QED BY <1>1, <1>3, <2>2, <3>1, OtherRate
  <2> QED BY <2>1, <2>2
<1> QED BY <1>2, <1>4 DEF InputInv

LEMMA InputStep == InputInv /\ [InputNext]_inputVars => InputInv'
<1> SUFFICES ASSUME InputInv, [InputNext]_inputVars PROVE InputInv'
  OBVIOUS
<1>1. CASE DecodeFile
  BY <1>1 DEF DecodeFile, InputInv, Interleaved
<1>2. CASE Mix
  <2>1. source.channels \in Nat \ {0} /\ source.frames \in Nat
    BY SourceType DEF InputInv
  <2>2. raw = Interleaved(source.frames, source.channels)
    BY <1>2 DEF Mix, InputInv
  <2>3. \A i \in 1..source.frames : Mixed(i) = [frame : {i - 1}, channel : 0..(source.channels - 1)]
    BY <2>1, <2>2, MixedIsFrame
  <2>4. mono' = Averaged(source.frames, source.channels)
    BY <1>2, <2>3 DEF Mix, Averaged
  <2> QED BY <1>2, <2>4 DEF Mix, InputInv
<1>3. CASE Resample
  BY <1>3, StepResample
<1>4. CASE Normalize
  BY <1>4 DEF Normalize, InputInv
<1>5. CASE UNCHANGED inputVars
  BY <1>5 DEF inputVars, InputInv
<1> QED BY <1>1, <1>2, <1>3, <1>4, <1>5 DEF InputNext

LEMMA InputInvShows == InputInv => SamplesOwn
<1> SUFFICES ASSUME InputInv, step = "loaded" PROVE SamplesOwn
  BY DEF SamplesOwn
<1>1. /\ mono = Averaged(source.frames, source.channels)
      /\ Resampled(samples, source.frames, source.rate, target)
  BY DEF InputInv
<1>2. \A i \in DOMAIN mono : mono[i] = [frame : {i - 1}, channel : 0..(source.channels - 1)]
  BY <1>1 DEF Averaged
<1>3. DOMAIN samples = 1..Len(samples)
  BY <1>1 DEF Resampled
<1> QED BY <1>1, <1>2, <1>3 DEF SamplesOwn, Resampled, Lies

(***************************************************************************)
(* For every file and every pair of rates, whatever the double rounds to:  *)
(* each sample mixes the channels of frames at its own time, none lies     *)
(* past the end, and the duration is kept (load_audio, resample_linear).   *)
(***************************************************************************)
THEOREM SamplesAreTheFile == InputSpec => []SamplesOwn
BY InputInit_Inv, InputStep, InputInvShows, PTL DEF InputSpec

(***************************************************************************)
(* AsrInfer: what is held at each stage.  The one thing that is not freed  *)
(* on every path is the backend, started with the language model.          *)
(***************************************************************************)
Models5 == {"vae_model", "vae_ctx", "lm_model", "lm_ctx", "backend"}
HeldAt ==
  CASE stage \in {"args", "audio", "vae_model"} -> {}
    [] stage = "vae_ctx" -> {"vae_model"}
    [] stage = "lm_model" -> {"vae_model", "vae_ctx"}
    [] stage = "lm_ctx" -> Models5 \ {"lm_ctx"}
    [] stage = "encoding" -> IF params.parallel THEN Models5 \cup {"vae_ctx2"} ELSE Models5
    [] stage = "decode" -> Models5 \cup {"sampler"}
    [] stage \in {"encode", "prompt", "prefill", "print", "cleanup"} -> Models5
    [] stage = "exit" -> {r \in {"backend"} : held[r] = 1}

Stages == {"args", "audio", "vae_model", "vae_ctx", "lm_model", "lm_ctx", "encode", "encoding",
           "prompt", "prefill", "decode", "print", "cleanup", "exit"}

Words == UNION {{line[i] : i \in 1..Len(line)} : line \in CommandLines}
Settings == {"vae", "lm", "audio", "context", "format", "parallel"}

ParamsOK ==
  /\ args \in Seq(Words)
  /\ params = [s \in Settings |-> params[s]]
  /\ params.parallel \in BOOLEAN
  /\ Len(params.context) \in Nat /\ DOMAIN params.context = 1..Len(params.context)

HeldInv ==
  /\ stage \in Stages
  /\ held = [r \in Resources |-> IF r \in HeldAt THEN 1 ELSE 0]

InferInv == ParamsOK /\ HeldInv

LEMMA InferInit_Inv == InferInit => InferInv
<1> SUFFICES ASSUME InferInit PROVE InferInv
  OBVIOUS
<1>1. args \in Seq(Words)
  <2>1. args \in CommandLines /\ args \in Seq({args[i] : i \in 1..Len(args)})
    BY InferAssumption DEF InferInit
  <2>2. {args[i] : i \in 1..Len(args)} \subseteq Words
    BY <2>1 DEF Words
  <2> QED BY <2>1, <2>2
<1>2. params = [s \in Settings |-> params[s]] /\ params.parallel \in BOOLEAN /\ params.context = <<>>
  BY DEF InferInit, Settings
<1>3. Len(<<>>) = 0 /\ DOMAIN <<>> = 1..0
  OBVIOUS
<1>4. ParamsOK
  BY <1>1, <1>2, <1>3 DEF ParamsOK
<1>5. HeldInv
  BY DEF InferInit, HeldInv, HeldAt, Stages
<1> QED BY <1>4, <1>5 DEF InferInv

\* A word of a command line, and what it may set.
LEMMA WordsAre ==
  ASSUME NEW w \in Words
  PROVE  /\ w.option \in Options
         /\ w.option = "context" /\ w.value # None =>
              Len(w.value) \in Nat /\ DOMAIN w.value = 1..Len(w.value)
<1>1. PICK line \in CommandLines : \E i \in 1..Len(line) : w = line[i]
  BY DEF Words
<1> QED BY <1>1, InferAssumption, ZenonT(40)

LEMMA SetOption ==
  ASSUME ParamsOK, NEW o \in {"vae", "lm", "audio", "context", "format"}, NEW v,
         params' = [params EXCEPT ![o] = v]
  PROVE  /\ params' = [s \in Settings |-> params'[s]]
         /\ params'.parallel = params.parallel
         /\ params'.context = IF o = "context" THEN v ELSE params.context
<1>1. DOMAIN params = Settings /\ params = [s \in Settings |-> params[s]]
  BY DEF ParamsOK
<1>2. o \in Settings /\ "parallel" \in Settings /\ "context" \in Settings
  BY DEF Settings
<1>3. params' = [s \in Settings |-> IF s = o THEN v ELSE params[s]]
  BY <1>1
<1> QED BY <1>1, <1>2, <1>3

LEMMA StepParse == ASSUME InferInv, ParseArg PROVE InferInv'
<1> USE DEF InferInv
<1>1. args \in Seq(Words) /\ args # <<>> /\ Head(args) \in Words /\ args' \in Seq(Words)
  BY DEF ParamsOK, ParseArg
<1> DEFINE arg == Head(args)
<1>2. \/ params' = params /\ stage' = "exit"
      \/ /\ params' = [params EXCEPT ![arg.option] = arg.value] /\ stage' = stage
         /\ arg.option \notin {"help", "unknown"} /\ arg.value # None
  BY DEF ParseArg, Exit
<1>3. stage = "args" /\ held' = held
  BY DEF ParseArg
<1>4. ParamsOK'
  <2>1. CASE params' = params
    BY <1>1, <2>1 DEF ParamsOK
  <2>2. CASE /\ params' = [params EXCEPT ![arg.option] = arg.value]
             /\ arg.option \notin {"help", "unknown"} /\ arg.value # None
    <3>1. arg.option \in {"vae", "lm", "audio", "context", "format"}
      BY <1>1, <2>2, WordsAre DEF Options
    <3>2. /\ params' = [s \in Settings |-> params'[s]]
          /\ params'.parallel = params.parallel
          /\ params'.context = IF arg.option = "context" THEN arg.value ELSE params.context
      BY <2>2, <3>1, SetOption
    <3>3. Len(params'.context) \in Nat /\ DOMAIN params'.context = 1..Len(params'.context)
      BY <1>1, <2>2, <3>2, WordsAre DEF ParamsOK
    <3> QED BY <1>1, <3>2, <3>3 DEF ParamsOK
  <2> QED BY <1>2, <2>1, <2>2
<1>5. HeldAt = {}
  BY <1>3 DEF HeldAt
<1>6. held' = [r \in Resources |-> 0]
  BY <1>3, <1>5 DEF HeldInv
<1>7. CASE stage' = "exit"
  <2>1. HeldAt' = {}
    BY <1>6, <1>7 DEF HeldAt, Resources
  <2> QED BY <1>4, <1>6, <1>7, <2>1 DEF HeldInv, Stages
<1>8. CASE stage' = stage
  <2>1. HeldAt' = {}
    BY <1>3, <1>8 DEF HeldAt
  <2> QED BY <1>3, <1>4, <1>6, <1>8, <2>1 DEF HeldInv, Stages
<1> QED BY <1>2, <1>7, <1>8

LEMMA SameParams == ASSUME ParamsOK, UNCHANGED <<args, params>> PROVE ParamsOK'
BY DEF ParamsOK

\* Each step takes what is held at a stage to what is held at the next.
LEMMA HeldStep ==
  ASSUME HeldInv, ParamsOK, params' = params,
         \/ ArgsDone \/ BuildPrompt \/ Decode \/ Display \/ Cleanup
         \/ \E ok \in BOOLEAN : LoadAudio(ok) \/ StartEncode(ok) \/ Encode(ok) \/ Prefill(ok)
         \/ \E r \in DOMAIN Following : Loaded(r) \/ NotLoaded(r)
  PROVE  HeldInv'
<1> USE DEF HeldInv, Stages, Resources, Models5, Exit, Goto, Take, Drop
<1>1. CASE ArgsDone
  BY <1>1 DEF ArgsDone, HeldAt
<1>2. CASE BuildPrompt
  BY <1>2 DEF BuildPrompt, HeldAt
<1>3. CASE Decode
  BY <1>3 DEF Decode, HeldAt
<1>4. CASE Cleanup
  BY <1>4 DEF Cleanup, HeldAt
<1>5. ASSUME NEW ok \in BOOLEAN, LoadAudio(ok) PROVE HeldInv'
  BY <1>5 DEF LoadAudio, HeldAt
<1>6. ASSUME NEW ok \in BOOLEAN, StartEncode(ok) PROVE HeldInv'
  BY <1>6 DEF StartEncode, HeldAt, ParamsOK
<1>7. ASSUME NEW ok \in BOOLEAN, Encode(ok) PROVE HeldInv'
  BY <1>7 DEF Encode, HeldAt, ParamsOK
<1>8. ASSUME NEW ok \in BOOLEAN, Prefill(ok) PROVE HeldInv'
  BY <1>8 DEF Prefill, HeldAt
<1>9. ASSUME NEW r \in DOMAIN Following, Loaded(r) PROVE HeldInv'
  <2>1. stage = r /\ r \in {"vae_model", "vae_ctx", "lm_model", "lm_ctx"}
    BY <1>9 DEF Loaded, Following
  <2>2. DOMAIN held = Resources /\ r \in Resources /\ r # "backend"
    BY <2>1
  <2>3. held' = [[held EXCEPT ![r] = @ + 1] EXCEPT !["backend"] = IF r = "lm_model" THEN @ + 1 ELSE @]
    BY <1>9 DEF Loaded
  <2>4. held' = [q \in Resources |-> IF q = r \/ (q = "backend" /\ r = "lm_model") THEN held[q] + 1 ELSE held[q]]
    BY <2>2, <2>3
  <2>5. stage' = Following[r]
    BY <1>9 DEF Loaded
  <2>6. CASE r = "vae_model"
    BY <2>1, <2>4, <2>5, <2>6 DEF HeldAt, Following
  <2>7. CASE r = "vae_ctx"
    BY <2>1, <2>4, <2>5, <2>7 DEF HeldAt, Following
  <2>8. CASE r = "lm_model"
    BY <2>1, <2>4, <2>5, <2>8 DEF HeldAt, Following
  <2>9. CASE r = "lm_ctx"
    BY <2>1, <2>4, <2>5, <2>9 DEF HeldAt, Following
  <2> QED BY <2>1, <2>6, <2>7, <2>8, <2>9
<1>10. ASSUME NEW r \in DOMAIN Following, NotLoaded(r) PROVE HeldInv'
  <2>1. stage = r /\ r \in {"vae_model", "vae_ctx", "lm_model", "lm_ctx"}
    BY <1>10 DEF NotLoaded, Following
  <2>2. CASE r = "vae_model"
    BY <1>10, <2>1, <2>2 DEF NotLoaded, HeldAt, Following, FreedBy
  <2>3. CASE r = "vae_ctx"
    BY <1>10, <2>1, <2>3 DEF NotLoaded, HeldAt, Following, FreedBy
  <2>4. CASE r = "lm_model"
    BY <1>10, <2>1, <2>4 DEF NotLoaded, HeldAt, Following, FreedBy
  <2>5. CASE r = "lm_ctx"
    BY <1>10, <2>1, <2>5 DEF NotLoaded, HeldAt, Following, FreedBy
  <2> QED BY <2>1, <2>2, <2>3, <2>4, <2>5
<1>11. CASE Display
  BY <1>11 DEF Display, HeldAt
<1> HIDE DEF HeldInv, Stages, Resources, Models5, Exit, Goto, Take, Drop
<1> QED BY <1>1, <1>2, <1>3, <1>4, <1>5, <1>6, <1>7, <1>8, <1>9, <1>10, <1>11

LEMMA InferStep == InferInv /\ [InferNext]_inferVars => InferInv'
<1> SUFFICES ASSUME InferInv, [InferNext]_inferVars PROVE InferInv'
  OBVIOUS
<1>1. CASE ParseArg
  BY <1>1, StepParse
<1>2. CASE UNCHANGED inferVars
  BY <1>2 DEF inferVars, InferInv, ParamsOK, HeldInv, HeldAt
<1>3. CASE InferNext /\ ~ParseArg
  <2>1. UNCHANGED <<args, params>>
    BY <1>3 DEF InferNext, ArgsDone, BuildPrompt, Decode, Cleanup, LoadAudio, StartEncode, Encode,
                Prefill, Loaded, NotLoaded, Display
  <2>2. HeldInv'
    BY <1>3, <2>1, HeldStep DEF InferNext, InferInv
  <2> QED BY <2>1, <2>2, SameParams DEF InferInv
<1> QED BY <1>1, <1>2, <1>3

LEMMA HeldInvShows == HeldInv => NothingHeld
<1> SUFFICES ASSUME HeldInv PROVE NothingHeld
  OBVIOUS
<1>1. \A r \in Resources : held[r] = IF r \in HeldAt THEN 1 ELSE 0
  BY DEF HeldInv
<1>2. ASSUME NEW c \in DOMAIN ModelOf, c \in HeldAt PROVE ModelOf[c] \in HeldAt
  BY <1>2 DEF HeldInv, HeldAt, Stages, Models5, ModelOf
<1>3. \A c \in DOMAIN ModelOf : c \in Resources /\ ModelOf[c] \in Resources
  BY DEF ModelOf, Resources
<1>4. stage = "exit" => HeldAt \subseteq {"backend"}
  BY DEF HeldAt
<1> QED BY <1>1, <1>2, <1>3, <1>4 DEF NothingHeld

(***************************************************************************)
(* Whatever fails, a context is held no longer than its model, nothing is  *)
(* held twice, and at the exit nothing of the models is (main).            *)
(***************************************************************************)
THEOREM NothingStaysHeld == InferSpec => []NothingHeld
<1>1. InferInv => NothingHeld
  BY HeldInvShows DEF InferInv
<1> QED BY <1>1, InferInit_Inv, InferStep, PTL DEF InferSpec

(***************************************************************************)
(* The prompt: where its special tokens are.                               *)
(***************************************************************************)
Before == <<"im_start", "system", "im_end", "nl", "im_start", "user", "speech_start">>
Pads(n) == [i \in 1..n |-> "speech_pad"]

\* The tokens of a prompt with n pads and a suffix of m tokens.
Placed(tokens, n, m) ==
  /\ DOMAIN tokens = 1..(n + m + 10)
  /\ tokens[1] = "im_start" /\ tokens[2] = "system" /\ tokens[3] = "im_end" /\ tokens[4] = "nl"
  /\ tokens[5] = "im_start" /\ tokens[6] = "user" /\ tokens[7] = "speech_start"
  /\ \A i \in 8..(n + 7) : tokens[i] = "speech_pad"
  /\ tokens[n + 8] = "speech_end"
  /\ \A i \in (n + 9)..(n + m + 8) : tokens[i] \notin Special
  /\ tokens[n + m + 9] = "im_end" /\ tokens[n + m + 10] = "nl"

LEMMA PlacedParts ==
  ASSUME NEW T, NEW n \in Nat, NEW s \in Seq(T), Special \subseteq T,
         {"system", "nl", "user"} \subseteq T, \A i \in 1..Len(s) : s[i] \notin Special
  PROVE  Placed(Before \o Pads(n) \o <<"speech_end">> \o s \o <<"im_end", "nl">>, n, Len(s))
<1> DEFINE m == Len(s)
           p1 == Before \o Pads(n)
           p2 == p1 \o <<"speech_end">>
           p3 == p2 \o s
           p4 == p3 \o <<"im_end", "nl">>
<1>0. \A u, v \in Seq(T) :
        /\ u \o v \in Seq(T) /\ Len(u \o v) = Len(u) + Len(v)
        /\ \A i \in 1..Len(u) : (u \o v)[i] = u[i]
        /\ \A i \in 1..Len(v) : (u \o v)[Len(u) + i] = v[i]
  BY ConcatOf
<1>1. Before \in Seq(T) /\ Len(Before) = 7
  BY DEF Before, Special
<1>2. Pads(n) \in Seq(T) /\ Len(Pads(n)) = n /\ \A i \in 1..n : Pads(n)[i] = "speech_pad"
  BY DEF Pads, Special
<1>3. <<"speech_end">> \in Seq(T) /\ <<"im_end", "nl">> \in Seq(T) /\ m \in Nat
  BY DEF Special
<1> HIDE DEF m
<1>4. /\ p1 \in Seq(T) /\ Len(p1) = n + 7
      /\ \A i \in 1..7 : p1[i] = Before[i]
      /\ \A i \in 1..n : p1[7 + i] = "speech_pad"
  <2>1. /\ p1 \in Seq(T) /\ Len(p1) = Len(Before) + Len(Pads(n))
        /\ \A i \in 1..Len(Before) : p1[i] = Before[i]
        /\ \A i \in 1..Len(Pads(n)) : p1[Len(Before) + i] = Pads(n)[i]
    BY <1>0, <1>1, <1>2, Zenon
  <2>2. Len(Before) = 7 /\ Len(Pads(n)) = n
    BY <1>1, <1>2
  <2>3. \A i \in 1..n : p1[7 + i] = "speech_pad"
    BY <1>2, <2>1, <2>2, Zenon
  <2>4. Len(p1) = n + 7
    BY <2>1, <2>2
  <2>5. \A i \in 1..7 : p1[i] = Before[i]
    BY <2>1, <2>2, Zenon
  <2> QED BY <2>1, <2>3, <2>4, <2>5
<1> HIDE DEF p1
<1>5. /\ p2 \in Seq(T) /\ Len(p2) = n + 8
      /\ \A i \in 1..(n + 7) : p2[i] = p1[i]
      /\ p2[n + 8] = "speech_end"
  <2>1. Len(<<"speech_end">>) = 1 /\ <<"speech_end">>[1] = "speech_end" /\ 1 \in 1..1
    OBVIOUS
  <2> QED BY <1>3, <1>4, <2>1, ConcatParts
<1> HIDE DEF p2
<1>6. /\ p3 \in Seq(T) /\ Len(p3) = n + m + 8
      /\ \A i \in 1..(n + 8) : p3[i] = p2[i]
      /\ \A i \in 1..m : p3[n + 8 + i] = s[i]
  <2>1. /\ p3 \in Seq(T) /\ Len(p3) = Len(p2) + Len(s)
        /\ \A i \in 1..Len(p2) : p3[i] = p2[i]
        /\ \A i \in 1..Len(s) : p3[Len(p2) + i] = s[i]
    BY <1>0, <1>5, Zenon
  <2>2. Len(s) = m
    BY DEF m
  <2> HIDE DEF p3
  <2> QED BY <1>3, <1>5, <2>1, <2>2
<1> HIDE DEF p3
<1>7. /\ p4 \in Seq(T) /\ Len(p4) = n + m + 10
      /\ \A i \in 1..(n + m + 8) : p4[i] = p3[i]
      /\ p4[n + m + 9] = "im_end" /\ p4[n + m + 10] = "nl"
  <2>1. /\ Len(<<"im_end", "nl">>) = 2 /\ 1 \in 1..2 /\ 2 \in 1..2
        /\ <<"im_end", "nl">>[1] = "im_end" /\ <<"im_end", "nl">>[2] = "nl"
    OBVIOUS
  <2>2. /\ p4 \in Seq(T) /\ Len(p4) = Len(p3) + 2
        /\ \A i \in 1..Len(p3) : p4[i] = p3[i]
        /\ \A i \in 1..2 : p4[Len(p3) + i] = <<"im_end", "nl">>[i]
    <3> DEFINE t == <<"im_end", "nl">>
    <3>1. t \in Seq(T) /\ p3 \in Seq(T) /\ Len(t) = 2
      BY <1>3, <1>6, <2>1
    <3>2. p4 = p3 \o t
      OBVIOUS
    <3> HIDE DEF t, p4
    <3>3. /\ p4 \in Seq(T) /\ Len(p4) = Len(p3) + Len(t)
          /\ \A i \in 1..Len(p3) : p4[i] = p3[i]
          /\ \A i \in 1..Len(t) : p4[Len(p3) + i] = t[i]
      BY <1>0, <3>1, <3>2, Zenon
    <3> QED BY <3>1, <3>3 DEF t
  <2>3. p4[Len(p3) + 1] = "im_end" /\ p4[Len(p3) + 2] = "nl"
    BY <2>1, <2>2
  <2>4. Len(p3) + 1 = n + m + 9 /\ Len(p3) + 2 = n + m + 10
    BY <1>3, <1>6
  <2> HIDE DEF p4
  <2> QED BY <1>6, <2>2, <2>3, <2>4
<1> HIDE DEF p4
<1>8. \A i \in 1..7 : p4[i] = Before[i]
  <2> TAKE i \in 1..7
  <2>1. i \in 1..(n + 7) /\ i \in 1..(n + 8) /\ i \in 1..(n + m + 8)
    BY <1>3
  <2>2. p4[i] = p3[i] /\ p3[i] = p2[i] /\ p2[i] = p1[i] /\ p1[i] = Before[i]
    BY <1>4, <1>5, <1>6, <1>7, <2>1, Zenon
  <2> QED BY <2>2
<1>9. \A i \in 8..(n + 7) : p4[i] = "speech_pad"
  <2> TAKE i \in 8..(n + 7)
  <2>1. /\ i - 7 \in 1..n /\ 7 + (i - 7) = i
        /\ i \in 1..(n + 7) /\ i \in 1..(n + 8) /\ i \in 1..(n + m + 8)
    BY <1>3
  <2>2. p1[i] = "speech_pad"
    BY <1>4, <2>1
  <2> QED BY <2>2, <1>5, <1>6, <1>7, <2>1
<1>10. p4[n + 8] = "speech_end"
  BY <1>3, <1>5, <1>6, <1>7
<1>11. \A i \in (n + 9)..(n + m + 8) : p4[i] \notin Special
  <2> TAKE i \in (n + 9)..(n + m + 8)
  <2>1. i - n - 8 \in 1..m /\ n + 8 + (i - n - 8) = i /\ i \in 1..(n + m + 8)
    BY <1>3
  <2>2. p4[i] = s[i - n - 8]
    BY <1>6, <1>7, <2>1
  <2> QED BY <2>1, <2>2 DEF m
<1>12. DOMAIN p4 = 1..(n + m + 10)
  BY <1>7
<1>13. /\ Before[1] = "im_start" /\ Before[2] = "system" /\ Before[3] = "im_end" /\ Before[4] = "nl"
       /\ Before[5] = "im_start" /\ Before[6] = "user" /\ Before[7] = "speech_start"
  BY DEF Before
<1>14. Placed(p4, n, m)
  BY <1>7, <1>8, <1>9, <1>10, <1>11, <1>12, <1>13 DEF Placed
<1> QED BY <1>14 DEF p4, p3, p2, p1, m

\* Positions of a token, from where the tokens are.
LEMMA PlacedCounts ==
  ASSUME NEW tokens, NEW n \in Nat, NEW m \in Nat, Placed(tokens, n, m)
  PROVE  /\ {i \in DOMAIN tokens : tokens[i] = "im_start"} = {1, 5}
         /\ {i \in DOMAIN tokens : tokens[i] = "im_end"} = {3, n + m + 9}
         /\ {i \in DOMAIN tokens : tokens[i] = "speech_start"} = {7}
         /\ {i \in DOMAIN tokens : tokens[i] = "speech_end"} = {n + 8}
         /\ {i \in DOMAIN tokens : tokens[i] = "speech_pad"} = 8..(n + 7)
<1>1. ASSUME NEW i \in 1..(n + m + 10)
      PROVE  \/ i \in {1, 2, 3, 4, 5, 6, 7} \/ i \in 8..(n + 7) \/ i = n + 8
             \/ i \in (n + 9)..(n + m + 8) \/ i = n + m + 9 \/ i = n + m + 10
  OBVIOUS
<1>2. {1, 3, 5, 7, n + 8, n + m + 9} \subseteq 1..(n + m + 10) /\ 8..(n + 7) \subseteq 1..(n + m + 10)
  OBVIOUS
<1>3. ASSUME NEW i \in 1..(n + m + 10)
      PROVE  /\ tokens[i] = "im_start" => i \in {1, 5}
             /\ tokens[i] = "im_end" => i \in {3, n + m + 9}
             /\ tokens[i] = "speech_start" => i = 7
             /\ tokens[i] = "speech_end" => i = n + 8
             /\ tokens[i] = "speech_pad" => i \in 8..(n + 7)
  BY <1>1 DEF Placed, Special
<1> QED BY <1>2, <1>3 DEF Placed

LEMMA TwoElements == ASSUME NEW a \in Int, NEW b \in Int, a # b PROVE Cardinality({a, b}) = 2
<1>1. Cardinality({a}) = 1 /\ IsFiniteSet({a})
  BY FS_Singleton
<1>2. {a, b} = {a} \cup {b}
  OBVIOUS
<1> QED BY <1>1, <1>2, FS_AddElement

LEMMA SuffixIsText ==
  ASSUME ParamsOK
  PROVE  \E T : /\ Suffix \in Seq(T) /\ Special \subseteq T /\ {"system", "nl", "user"} \subseteq T
                /\ \A i \in 1..Len(Suffix) : Suffix[i] \notin Special
<1> DEFINE c == params.context
           t == Text(c)
           f == IF params.format = "json" THEN "keys" ELSE "please"
           Written == {t[i] : i \in 1..Len(c)}
           T == Special \cup {"system", "nl", "user", "duration", "keys", "please"} \cup Written
<1>1. Len(c) \in Nat /\ DOMAIN c = 1..Len(c)
  BY DEF ParamsOK
<1>2. /\ DOMAIN t = 1..Len(c) /\ t = [i \in 1..Len(c) |-> t[i]]
      /\ \A i \in 1..Len(c) : t[i] \notin Special
  BY <1>1 DEF Text, Special
<1>3. t \in Seq(T) /\ Len(t) = Len(c)
  BY <1>1, <1>2
<1>4. <<"duration">> \in Seq(T) /\ <<f>> \in Seq(T) /\ "duration" \notin Special /\ f \notin Special
      /\ Len(<<"duration">>) = 1 /\ Len(<<f>>) = 1 /\ <<"duration">>[1] = "duration" /\ <<f>>[1] = f
  BY DEF Special
<1>5. Special \subseteq T /\ {"system", "nl", "user"} \subseteq T
  OBVIOUS
<1> HIDE DEF t, f, T
<1> DEFINE u == <<"duration">> \o t
           v == u \o <<f>>
<1>6. /\ u \in Seq(T) /\ Len(u) = Len(t) + 1
      /\ \A i \in 1..1 : u[i] = <<"duration">>[i]
      /\ \A i \in 1..Len(t) : u[1 + i] = t[i]
  BY <1>3, <1>4, ConcatParts
<1>7. \A i \in 1..Len(u) : u[i] \notin Special
  <2> TAKE i \in 1..Len(u)
  <2>1. CASE i = 1
    BY <2>1, <1>4, <1>6
  <2>2. CASE i # 1
    <3>1. i - 1 \in 1..Len(t) /\ 1 + (i - 1) = i
      BY <2>2, <1>3, <1>6, <1>1
    <3> QED BY <3>1, <1>2, <1>3, <1>6
  <2> QED BY <2>1, <2>2
<1> HIDE DEF u
<1>8. /\ v \in Seq(T) /\ Len(v) = Len(u) + 1
      /\ \A i \in 1..Len(u) : v[i] = u[i]
      /\ \A i \in 1..1 : v[Len(u) + i] = <<f>>[i]
  BY <1>4, <1>6, ConcatParts
<1>9. \A i \in 1..Len(v) : v[i] \notin Special
  <2> TAKE i \in 1..Len(v)
  <2>1. CASE i = Len(u) + 1
    <3>1. 1 \in 1..1
      OBVIOUS
    <3> QED BY <2>1, <3>1, <1>4, <1>8
  <2>2. CASE i # Len(u) + 1
    <3>1. i \in 1..Len(u)
      BY <2>2, <1>6, <1>8, <1>3, <1>1
    <3> QED BY <3>1, <1>7, <1>8
  <2> QED BY <2>1, <2>2
<1>10. Suffix = v
  BY DEF Suffix, v, u, t, f
<1> QED BY <1>5, <1>8, <1>9, <1>10

LEMMA PromptBuilt == ASSUME ParamsOK, BuildPrompt PROVE OneSpeechRegion'
<1>1. PICK n \in Frames :
        prompt' = [tokens |-> Before \o Pads(n) \o <<"speech_end">> \o Suffix \o <<"im_end", "nl">>,
                   start |-> Len(Before), count |-> n]
  BY DEF BuildPrompt, Before, Pads
<1>2. PICK T : /\ Suffix \in Seq(T) /\ Special \subseteq T /\ {"system", "nl", "user"} \subseteq T
               /\ \A i \in 1..Len(Suffix) : Suffix[i] \notin Special
  BY SuffixIsText
<1> DEFINE m == Len(Suffix)
<1>3. n \in Nat /\ m \in Nat
  BY <1>2, InferAssumption
<1>4. Placed(prompt'.tokens, n, m)
  <2>1. Placed(Before \o Pads(n) \o <<"speech_end">> \o Suffix \o <<"im_end", "nl">>, n, m)
    BY <1>2, <1>3, PlacedParts
  <2> QED BY <1>1, <2>1
<1>5. prompt'.start = 7 /\ prompt'.count = n
  <2>1. Len(Before) = 7
    BY DEF Before
  <2> QED BY <1>1, <2>1
<1> HIDE DEF m
<1>6. /\ {i \in DOMAIN prompt'.tokens : prompt'.tokens[i] = "im_start"} = {1, 5}
      /\ {i \in DOMAIN prompt'.tokens : prompt'.tokens[i] = "im_end"} = {3, n + m + 9}
      /\ {i \in DOMAIN prompt'.tokens : prompt'.tokens[i] = "speech_start"} = {7}
      /\ {i \in DOMAIN prompt'.tokens : prompt'.tokens[i] = "speech_end"} = {n + 8}
      /\ {i \in DOMAIN prompt'.tokens : prompt'.tokens[i] = "speech_pad"} = 8..(n + 7)
  BY <1>3, <1>4, PlacedCounts
<1>7. Cardinality({1, 5}) = 2 /\ Cardinality({3, n + m + 9}) = 2
  BY <1>3, TwoElements
<1>8. Cardinality({7}) = 1 /\ Cardinality({n + 8}) = 1
  BY FS_Singleton
<1>9. prompt'.tokens[prompt'.start] = "speech_start"
  BY <1>4, <1>5 DEF Placed
<1>10. (prompt'.start + 1)..(prompt'.start + prompt'.count) = 8..(n + 7)
  BY <1>3, <1>5
<1> QED BY <1>6, <1>7, <1>8, <1>9, <1>10 DEF OneSpeechRegion, Count

(***************************************************************************)
(* For every context and any number of frames the prompt has two turns and *)
(* one region of speech, where prefill puts the features (build_prompt).   *)
(***************************************************************************)
THEOREM SpeechOnceInPrompt == InferSpec => []OneSpeechRegion
<1>1. InferInit => OneSpeechRegion
  BY DEF InferInit, OneSpeechRegion
<1>2. InferInv /\ OneSpeechRegion /\ [InferNext]_inferVars => OneSpeechRegion'
  <2> SUFFICES ASSUME InferInv, OneSpeechRegion, [InferNext]_inferVars PROVE OneSpeechRegion'
    OBVIOUS
  <2>1. CASE BuildPrompt
    BY <2>1, PromptBuilt DEF InferInv
  <2>2. CASE ~BuildPrompt
    <3>1. prompt' = prompt
      BY <2>2 DEF InferNext, inferVars, ArgsDone, ParseArg, Decode, Cleanup, LoadAudio, StartEncode,
                  Encode, Prefill, Loaded, NotLoaded, Display
    <3> QED BY <3>1 DEF OneSpeechRegion, Count
  <2> QED BY <2>1, <2>2
<1> QED BY <1>1, <1>2, InferInit_Inv, InferStep, PTL DEF InferSpec

(***************************************************************************)
(* The printed lines.  The first m segments print s when each line is some *)
(* segment's, later lines are of later segments, and no segment that       *)
(* prints is left out; a segment's fields are the nearest from it on.      *)
(***************************************************************************)
FromNumber == Nat \cup {None}
PrintedLine == [start : FromNumber, end : FromNumber, speaker : FromNumber, content : FromNumber]
IsLine(segments, k, line) == LineOf(segments, k) = <<line>>
Prints(segments, s, m) ==
  /\ \A i \in 1..Len(s) : \E k \in 1..m : IsLine(segments, k, s[i])
  /\ \A i, j \in 1..Len(s) : i < j =>
       \E k, l \in 1..m : k < l /\ IsLine(segments, k, s[i]) /\ IsLine(segments, l, s[j])
  /\ \A k \in 1..m : LineOf(segments, k) # <<>> => \E i \in 1..Len(s) : IsLine(segments, k, s[i])

\* The segment c is the first from the k-th on that has the key.
Nearest(segments, key, k, c) ==
  /\ c \in 1..Len(segments) /\ k <= c /\ key \in segments[c]
  /\ \A i \in 1..Len(segments) : k <= i /\ i < c => key \notin segments[i]

LEMMA FieldNearest ==
  ASSUME NEW segments \in Transcripts, NEW k \in 1..Len(segments), NEW key
  PROVE  \/ /\ Field(segments, key, k) = None
            /\ \A i \in 1..Len(segments) : k <= i => key \notin segments[i]
         \/ Field(segments, key, k) # None /\ Nearest(segments, key, k, Field(segments, key, k))
<1> DEFINE having == {i \in DOMAIN segments : i >= k /\ key \in segments[i]}
           c == CHOOSE i \in having : \A j \in having : i <= j
<1>1. Len(segments) \in Nat /\ DOMAIN segments = 1..Len(segments) /\ None \notin Nat
  BY InferAssumption
<1>2. Field(segments, key, k) = IF having = {} THEN None ELSE c
  BY DEF Field
<1>3. \A i \in 1..Len(segments) : i \in having <=> k <= i /\ key \in segments[i]
  BY <1>1
<1>4. having \subseteq 1..Len(segments) /\ having \subseteq Nat
  BY <1>1
<1> HIDE DEF having
<1>5. CASE having = {}
  BY <1>2, <1>3, <1>5
<1>6. CASE having # {}
  <2>1. c \in having /\ \A j \in having : c <= j
    <3>1. \E i \in having : \A j \in having : i <= j
      <4>1. PICK x \in having : TRUE
        BY <1>6
      <4>2. Min(having) \in having /\ \A j \in having : Min(having) <= j
        BY <1>4, <4>1, LeastOf
      <4> QED BY <4>2
    <3> QED BY <3>1
  <2> HIDE DEF c
  <2>2. c \in 1..Len(segments) /\ k <= c /\ key \in segments[c] /\ c # None
    BY <1>1, <1>3, <1>4, <2>1
  <2>3. ASSUME NEW i \in 1..Len(segments), k <= i, i < c PROVE key \notin segments[i]
    <3>1. i \notin having
      BY <1>1, <2>1, <2>2, <2>3
    <3> QED BY <1>3, <2>3, <3>1
  <2> QED BY <1>2, <1>6, <2>2, <2>3 DEF Nearest
<1> QED BY <1>5, <1>6

\* What a segment prints: nothing, or a line of its nearest fields.
LEMMA LineIs ==
  ASSUME NEW segments \in Transcripts, NEW k \in 1..Len(segments)
  PROVE  /\ LineOf(segments, k) \in Seq(PrintedLine)
         /\ \/ LineOf(segments, k) = <<>>
            \/ \E line \in PrintedLine :
                 /\ IsLine(segments, k, line)
                 /\ line.content # None /\ Nearest(segments, "Content", k, line.content)
                 /\ line.start = Field(segments, "Start", k) /\ line.end = Field(segments, "End", k)
                 /\ line.speaker = Field(segments, "Speaker", k) /\ line.content = Field(segments, "Content", k)
<1> DEFINE line == [start |-> Field(segments, "Start", k), end |-> Field(segments, "End", k),
                    speaker |-> Field(segments, "Speaker", k), content |-> Field(segments, "Content", k)]
<1>1. \A key : Field(segments, key, k) \in FromNumber
  <2> SUFFICES ASSUME NEW key PROVE Field(segments, key, k) \in FromNumber
    OBVIOUS
  <2>1. Len(segments) \in Nat
    BY InferAssumption
  <2> QED BY <2>1, FieldNearest DEF Nearest, FromNumber
<1>2. line \in PrintedLine /\ line.content = Field(segments, "Content", k)
  BY <1>1 DEF PrintedLine
<1>3. LineOf(segments, k) = <<>> \/ (LineOf(segments, k) = <<line>> /\ Field(segments, "Content", k) # None)
  BY DEF LineOf
<1>4. line.start = Field(segments, "Start", k) /\ line.end = Field(segments, "End", k)
      /\ line.speaker = Field(segments, "Speaker", k)
  OBVIOUS
<1> HIDE DEF line
<1>5. CASE LineOf(segments, k) = <<>>
  BY <1>5
<1>6. CASE LineOf(segments, k) = <<line>> /\ Field(segments, "Content", k) # None
  <2>1. Nearest(segments, "Content", k, Field(segments, "Content", k))
    BY <1>6, FieldNearest
  <2> QED BY <1>2, <1>4, <1>6, <2>1 DEF IsLine
<1> QED BY <1>3, <1>5, <1>6

LEMMA OneMore ==
  ASSUME NEW segments, NEW s \in Seq(PrintedLine), NEW m \in Nat, Prints(segments, s, m),
         NEW line \in PrintedLine, IsLine(segments, m + 1, line)
  PROVE  Prints(segments, s \o <<line>>, m + 1)
<1> DEFINE t == s \o <<line>>
           n == Len(s)
<1>1. /\ t \in Seq(PrintedLine) /\ Len(t) = n + 1 /\ n \in Nat
      /\ \A i \in 1..n : t[i] = s[i]
      /\ t[n + 1] = line
  OBVIOUS
<1> HIDE DEF t
<1>2. /\ \A i \in 1..n : \E k \in 1..m : IsLine(segments, k, t[i])
      /\ \A i, j \in 1..n : i < j =>
           \E k, l \in 1..m : k < l /\ IsLine(segments, k, t[i]) /\ IsLine(segments, l, t[j])
      /\ \A k \in 1..m : LineOf(segments, k) # <<>> => \E i \in 1..n : IsLine(segments, k, t[i])
  BY <1>1 DEF Prints
<1> HIDE DEF n
<1>3. m + 1 \in 1..(m + 1) /\ 1..m \subseteq 1..(m + 1) /\ n + 1 \in 1..(n + 1) /\ 1..n \subseteq 1..(n + 1)
  BY <1>1
<1>4. \A i \in 1..(n + 1) : i \in 1..n \/ i = n + 1
  BY <1>1
<1>5. \A i \in 1..(n + 1) : \E k \in 1..(m + 1) : IsLine(segments, k, t[i])
  BY <1>1, <1>2, <1>3, <1>4
<1>6. ASSUME NEW i \in 1..(n + 1), NEW j \in 1..(n + 1), i < j
      PROVE  \E k, l \in 1..(m + 1) : k < l /\ IsLine(segments, k, t[i]) /\ IsLine(segments, l, t[j])
  <2>1. i \in 1..n
    BY <1>1, <1>6
  <2>2. CASE j \in 1..n
    BY <1>2, <1>3, <1>6, <2>1, <2>2
  <2>3. CASE j = n + 1
    <3>1. PICK k \in 1..m : IsLine(segments, k, t[i])
      BY <1>2, <2>1
    <3>2. k < m + 1 /\ IsLine(segments, m + 1, t[j])
      BY <1>1, <2>3
    <3> QED BY <1>3, <3>1, <3>2
  <2> QED BY <1>4, <2>2, <2>3
<1>7. ASSUME NEW k \in 1..(m + 1), LineOf(segments, k) # <<>>
      PROVE  \E i \in 1..(n + 1) : IsLine(segments, k, t[i])
  <2>1. CASE k \in 1..m
    BY <1>2, <1>3, <1>7, <2>1
  <2>2. CASE k = m + 1
    BY <1>1, <1>3, <2>2
  <2> QED BY <2>1, <2>2
<1> QED BY <1>1, <1>5, <1>6, <1>7 DEF Prints, t

LEMMA NoneMore ==
  ASSUME NEW segments, NEW s \in Seq(PrintedLine), NEW m \in Nat, Prints(segments, s, m),
         LineOf(segments, m + 1) = <<>>
  PROVE  s \o <<>> = s /\ Prints(segments, s, m + 1)
<1>1. s \o <<>> = s
  OBVIOUS
<1>2. 1..m \subseteq 1..(m + 1) /\ \A k \in 1..(m + 1) : k \in 1..m \/ k = m + 1
  OBVIOUS
<1>3. Prints(segments, s, m + 1)
  BY <1>2 DEF Prints
<1> QED BY <1>1, <1>3

LEMMA DisplayPrints ==
  ASSUME NEW segments \in Transcripts
  PROVE  /\ FlattenSeq([k \in DOMAIN segments |-> LineOf(segments, k)]) \in Seq(PrintedLine)
         /\ Prints(segments, FlattenSeq([k \in DOMAIN segments |-> LineOf(segments, k)]), Len(segments))
<1> DEFINE n == Len(segments)
           parts == [k \in DOMAIN segments |-> LineOf(segments, k)]
<1>1. n \in Nat /\ DOMAIN segments = 1..n
  BY InferAssumption
<1>2. \A k \in 1..n : parts[k] \in Seq(PrintedLine)
  BY <1>1, LineIs
<1>3. parts \in Seq(Seq(PrintedLine)) /\ Len(parts) = n
  BY <1>1, <1>2
<1>4. \A k \in 1..n : parts[k] = LineOf(segments, k)
  BY <1>1
<1> HIDE DEF parts, n
<1>5. PICK f : Joins(f, PrintedLine, parts)
  BY <1>3, FlattenParts
<1>6. /\ \A i \in 0..n : f[i] \in Seq(PrintedLine)
      /\ f[0] = <<>> /\ f[n] = FlattenSeq(parts)
      /\ \A i \in 1..n : f[i] = f[i - 1] \o parts[i]
  BY <1>3, <1>5 DEF Joins
<1> DEFINE S == {i \in 0..n : Prints(segments, f[i], i)}
<1>7. 0 \in S
  BY <1>1, <1>6 DEF Prints
<1>8. ASSUME NEW i \in 0..(n - 1), i \in S PROVE i + 1 \in S
  <2>1. /\ i + 1 \in 1..n /\ (i + 1) - 1 = i /\ i \in 0..n /\ i \in Nat /\ i + 1 \in 0..n
        /\ Prints(segments, f[i], i)
    BY <1>1, <1>8
  <2>2. f[i + 1] = f[i] \o LineOf(segments, i + 1) /\ f[i] \in Seq(PrintedLine)
    BY <1>4, <1>6, <2>1
  <2>3. i + 1 \in 1..Len(segments)
    BY <2>1 DEF n
  <2>4. CASE LineOf(segments, i + 1) = <<>>
    <3>1. f[i] \o <<>> = f[i] /\ Prints(segments, f[i], i + 1)
      BY <2>1, <2>2, <2>4, NoneMore
    <3> QED BY <2>1, <2>2, <2>4, <3>1
  <2>5. CASE LineOf(segments, i + 1) # <<>>
    <3>1. PICK line \in PrintedLine : IsLine(segments, i + 1, line)
      BY <2>3, <2>5, LineIs
    <3>2. Prints(segments, f[i] \o <<line>>, i + 1)
      BY <2>1, <2>2, <3>1, OneMore
    <3> QED BY <2>1, <2>2, <3>1, <3>2 DEF IsLine
  <2> QED BY <2>4, <2>5
<1> HIDE DEF S
<1>9. \A i \in 0..n : i \in S
  BY <1>1, <1>7, <1>8, IntervalInduction
<1>10. Prints(segments, f[n], n) /\ f[n] \in Seq(PrintedLine)
  BY <1>1, <1>6, <1>9 DEF S
<1> QED BY <1>6, <1>10 DEF parts, n

\* A whole segment is what its line is made of.
LEMMA WholeLine ==
  ASSUME NEW segments \in Transcripts, NEW k \in 1..Len(segments), Whole(segments[k])
  PROVE  LineOf(segments, k) = <<[start |-> k, end |-> k, speaker |-> k, content |-> k]>>
<1>1. Len(segments) \in Nat /\ None \notin Nat
  BY InferAssumption
<1>2. ASSUME NEW key \in {"Start", "End", "Speaker", "Content"} PROVE Field(segments, key, k) = k
  <2>1. key \in segments[k]
    BY DEF Whole
  <2>2. Nearest(segments, key, k, Field(segments, key, k))
    BY <2>1, FieldNearest
  <2> QED BY <1>1, <2>1, <2>2 DEF Nearest
<1>3. Field(segments, "Content", k) # None /\ "blank" \notin segments[Field(segments, "Content", k)]
  BY <1>1, <1>2 DEF Whole
<1> QED BY <1>2, <1>3 DEF LineOf

LEMMA FieldExplained ==
  ASSUME output \in Transcripts, NEW k \in 1..Len(output), NEW key, NEW content,
         Nearest(output, "Content", k, content)
  PROVE  Explained(key, Field(output, key, k), content)
<1>1. Len(output) \in Nat /\ None \notin Nat
  BY InferAssumption
<1>2. CASE /\ Field(output, key, k) = None
           /\ \A i \in 1..Len(output) : k <= i => key \notin output[i]
  BY <1>1, <1>2 DEF Nearest, Explained
<1>3. CASE Field(output, key, k) # None /\ Nearest(output, key, k, Field(output, key, k))
  BY <1>1, <1>3 DEF Nearest, Explained
<1> QED BY <1>2, <1>3, FieldNearest

LEMMA DisplayWhole == ASSUME output \in Transcripts, Display PROVE SegmentsWhole'
<1> DEFINE n == Len(output)
<1>1. lines' = FlattenSeq([k \in DOMAIN output |-> LineOf(output, k)]) /\ output' = output
  BY DEF Display
<1>2. lines' \in Seq(PrintedLine) /\ Prints(output, lines', n)
  BY <1>1, DisplayPrints
<1>3. n \in Nat /\ DOMAIN output = 1..n /\ DOMAIN lines' = 1..Len(lines') /\ Len(lines') \in Nat
  BY <1>2, InferAssumption
<1>4. ASSUME NEW k \in 1..n, Whole(output[k])
      PROVE  \E i \in 1..Len(lines') : lines'[i] = [start |-> k, end |-> k, speaker |-> k, content |-> k]
  <2> DEFINE line == [start |-> k, end |-> k, speaker |-> k, content |-> k]
  <2>1. LineOf(output, k) = <<line>>
    BY <1>4, WholeLine
  <2> HIDE DEF line
  <2>2. <<line>> # <<>>
    OBVIOUS
  <2>3. PICK i \in 1..Len(lines') : IsLine(output, k, lines'[i])
    BY <1>2, <2>1, <2>2 DEF Prints
  <2>4. lines'[i] = line
    BY <2>1, <2>3 DEF IsLine
  <2> QED BY <2>4 DEF line
<1>5. ASSUME NEW k \in 1..n, NEW line, IsLine(output, k, line)
      PROVE  /\ Nearest(output, "Content", k, line.content)
             /\ line.start = Field(output, "Start", k) /\ line.end = Field(output, "End", k)
             /\ line.speaker = Field(output, "Speaker", k)
  <2>1. LineOf(output, k) # <<>>
    BY <1>5 DEF IsLine
  <2>2. PICK l \in PrintedLine :
          /\ IsLine(output, k, l) /\ Nearest(output, "Content", k, l.content)
          /\ l.start = Field(output, "Start", k) /\ l.end = Field(output, "End", k)
          /\ l.speaker = Field(output, "Speaker", k)
    BY <2>1, LineIs
  <2>3. l = line
    BY <1>5, <2>2 DEF IsLine
  <2> QED BY <2>2, <2>3
<1>6. ASSUME NEW i \in 1..Len(lines')
      PROVE  /\ Explained("Start", lines'[i].start, lines'[i].content)
             /\ Explained("End", lines'[i].end, lines'[i].content)
             /\ Explained("Speaker", lines'[i].speaker, lines'[i].content)
  <2>1. PICK k \in 1..n : IsLine(output, k, lines'[i])
    BY <1>2 DEF Prints
  <2> DEFINE line == lines'[i]
  <2>2. /\ Nearest(output, "Content", k, line.content)
        /\ line.start = Field(output, "Start", k) /\ line.end = Field(output, "End", k)
        /\ line.speaker = Field(output, "Speaker", k)
    BY <1>5, <2>1
  <2> HIDE DEF line
  <2>3. /\ Explained("Start", line.start, line.content) /\ Explained("End", line.end, line.content)
        /\ Explained("Speaker", line.speaker, line.content)
    BY <2>2, FieldExplained
  <2> QED BY <2>3 DEF line
<1>7. ASSUME NEW i \in 1..Len(lines'), NEW j \in 1..Len(lines'), i < j
      PROVE  \/ lines'[i].content < lines'[j].content
             \/ /\ lines'[i].content = lines'[j].content
                /\ \E k \in 1..(lines'[i].content - 1) : "Content" \notin output[k]
  <2>1. PICK k, l \in 1..n : k < l /\ IsLine(output, k, lines'[i]) /\ IsLine(output, l, lines'[j])
    BY <1>2, <1>7 DEF Prints
  <2> DEFINE c == lines'[i].content
             d == lines'[j].content
  <2>2. Nearest(output, "Content", k, c) /\ Nearest(output, "Content", l, d)
    BY <1>5, <2>1
  <2> HIDE DEF c, d
  <2>3. c \in 1..n /\ d \in 1..n /\ k <= c /\ l <= d /\ "Content" \in output[d]
        /\ \A h \in 1..n : k <= h /\ h < c => "Content" \notin output[h]
    BY <2>2 DEF Nearest
  <2>4. c <= d
    BY <1>3, <2>1, <2>3
  <2>5. c = d => k \in 1..(c - 1) /\ "Content" \notin output[k]
    BY <1>3, <2>1, <2>3
  <2>6. c < d \/ c = d
    BY <1>3, <2>3, <2>4
  <2> QED BY <2>5, <2>6 DEF c, d
<1> DEFINE P(l) ==
  /\ \A k \in DOMAIN output : Whole(output[k]) =>
       \E i \in DOMAIN l : l[i] = [start |-> k, end |-> k, speaker |-> k, content |-> k]
  /\ \A i \in DOMAIN l :
       /\ Explained("Start", l[i].start, l[i].content)
       /\ Explained("End", l[i].end, l[i].content)
       /\ Explained("Speaker", l[i].speaker, l[i].content)
  /\ \A i, j \in DOMAIN l : i < j =>
       \/ l[i].content < l[j].content
       \/ /\ l[i].content = l[j].content
          /\ \E k \in 1..(l[i].content - 1) : "Content" \notin output[k]
<1>8. P(lines')
  <2>1. \A k \in DOMAIN output : Whole(output[k]) =>
          \E i \in DOMAIN lines' : lines'[i] = [start |-> k, end |-> k, speaker |-> k, content |-> k]
    BY <1>3, <1>4
  <2>2. \A i \in DOMAIN lines' :
          /\ Explained("Start", lines'[i].start, lines'[i].content)
          /\ Explained("End", lines'[i].end, lines'[i].content)
          /\ Explained("Speaker", lines'[i].speaker, lines'[i].content)
    BY <1>3, <1>6
  <2>3. \A i, j \in DOMAIN lines' : i < j =>
          \/ lines'[i].content < lines'[j].content
          \/ /\ lines'[i].content = lines'[j].content
             /\ \E k \in 1..(lines'[i].content - 1) : "Content" \notin output[k]
    BY <1>3, <1>7
  <2> QED BY <2>1, <2>2, <2>3
<1> QED BY <1>1, <1>8 DEF SegmentsWhole, Explained

(***************************************************************************)
(* For every transcript: a whole segment is printed with its own fields,   *)
(* a line mixes two only where the earlier lacks a key, and words come out *)
(* in order (main).                                                        *)
(***************************************************************************)
THEOREM WholeSegmentsStayWhole == InferSpec => []SegmentsWhole
<1> DEFINE Inv == SegmentsWhole /\ (stage = "print" => output \in Transcripts)
<1>1. InferInit => Inv
  BY DEF InferInit, SegmentsWhole
<1>2. Inv /\ [InferNext]_inferVars => Inv'
  <2> SUFFICES ASSUME Inv, [InferNext]_inferVars PROVE Inv'
    OBVIOUS
  <2>1. CASE Display
    <3>1. stage = "print" /\ stage' = "cleanup"
      BY <2>1 DEF Display, Goto
    <3> QED BY <2>1, <3>1, DisplayWhole
  <2>2. CASE Decode
    BY <2>2 DEF Decode, Goto, SegmentsWhole
  <2>3. CASE UNCHANGED inferVars
    BY <2>3 DEF inferVars, SegmentsWhole, Explained
  <2>4. CASE InferNext /\ ~Display /\ ~Decode
    <3> DEFINE Kept == output' = output /\ lines' = lines /\ stage # "print" /\ stage' # "print"
    <3>2. ASSUME ParseArg \/ ArgsDone \/ BuildPrompt \/ Cleanup
          PROVE  Kept
      <4>1. output' = output /\ lines' = lines /\ stage \in {"args", "prompt", "cleanup"}
        BY <3>2 DEF ParseArg, ArgsDone, BuildPrompt, Cleanup
      <4>2. stage' # "print"
        BY <3>2 DEF ParseArg, ArgsDone, BuildPrompt, Cleanup, Exit, Goto
      <4> QED BY <4>1, <4>2
    <3>3. ASSUME NEW ok \in BOOLEAN, LoadAudio(ok) \/ StartEncode(ok) \/ Encode(ok) \/ Prefill(ok)
          PROVE  Kept
      <4>1. CASE LoadAudio(ok)
        BY <4>1 DEF LoadAudio, Exit, Goto
      <4>2. CASE StartEncode(ok)
        BY <4>2 DEF StartEncode, Goto
      <4>3. CASE Encode(ok)
        BY <4>3 DEF Encode, Goto
      <4>4. CASE Prefill(ok)
        BY <4>4 DEF Prefill, Goto
      <4> QED BY <3>3, <4>1, <4>2, <4>3, <4>4
    <3>4. ASSUME NEW r \in DOMAIN Following, Loaded(r) \/ NotLoaded(r)
          PROVE  Kept
      <4>1. r \in {"vae_model", "vae_ctx", "lm_model", "lm_ctx"}
        BY DEF Following
      <4>2. output' = output /\ lines' = lines /\ stage = r
        BY <3>4 DEF Loaded, NotLoaded
      <4>3. stage' \in {Following[r], "exit"}
        BY <3>4 DEF Loaded, NotLoaded, Exit, Goto
      <4>4. Following[r] # "print"
        BY <4>1 DEF Following
      <4> QED BY <4>1, <4>2, <4>3, <4>4
    <3> HIDE DEF Kept
    <3>1. Kept
      BY <2>4, <3>2, <3>3, <3>4 DEF InferNext
    <3> QED BY <3>1 DEF Kept, SegmentsWhole, Explained
  <2> QED BY <2>1, <2>2, <2>3, <2>4
<1> QED BY <1>1, <1>2, PTL DEF InferSpec

(***************************************************************************)
(* WavFile. The search for the sound is over what a file's writer laid     *)
(* down, so the invariant says where the reader is in that layout: between *)
(* two chunks, all those before it met (Met); then at a frame of the       *)
(* sound, those before it decoded (PcmAt); or, in ADPCM, at a block's      *)
(* start or before one of its groups, with the frames of the open block    *)
(* that were decoded and not yet asked for (AdpcmAt).                      *)
(***************************************************************************)
FramesUpTo(f, fmt, n) == [i \in 1..n |-> FrameOf(f, fmt, i - 1)]
FramesFrom(f, fmt, n, m) == [i \in 1..m |-> FrameOf(f, fmt, n + i - 1)]

WavStages ==
  {"closed", "open", "chunks", "describe", "pcm", "adpcm", "read", "done", "failed", "thrown"}
IsHeader(h) ==
  /\ h = [fmt |-> h.fmt, pos |-> h.pos, size |-> h.size, fact |-> h.fact, aiff |-> h.aiff, found |-> h.found]
  /\ IsFormat(h.fmt) /\ h.pos \in Nat /\ h.size \in Nat /\ h.fact \in Nat /\ h.aiff \in Nat
  /\ h.found \subseteq {"fmt", "data"}
WavTypes ==
  /\ file \in Files /\ wavStage \in WavStages /\ position \in Nat /\ IsHeader(hdr)

\* What init has found is the file's.
HeaderTrue ==
  /\ "fmt" \in hdr.found => hdr.fmt \in Formats(file)
  /\ "data" \in hdr.found => HasSound(file) /\ hdr.pos = SoundStart(file) /\ hdr.size = Declared(file)
  /\ wavStage \notin {"closed", "open", "failed"} /\ file.container = "rf64" => hdr.size = file.chunks[1].data

\* The chunks of a readable file are met one after the other.
Met(n) ==
  /\ n \in 1..(Len(file.chunks) + 1) /\ position = ChunkAt(file, n)
  /\ file.container = "rf64" => n > 1
  /\ \A j \in 1..(n - 1) :
       /\ file.chunks[j].id = FormatId(file) => "fmt" \in hdr.found
       /\ file.chunks[j].id = SoundId(file) => Aiff(file) /\ "data" \in hdr.found
Understood(f) == Readable(f) /\ PadsAgree(f)
Walks ==
  Understood(file) =>
    /\ wavStage \in {"closed", "open"} => position = 0
    /\ wavStage = "chunks" => \E n \in 1..(Len(file.chunks) + 1) : Met(n)
    /\ wavStage = "describe" => hdr.found = {"fmt", "data"}
    /\ wavStage # "failed"

\* What is to be read once the file is described.
Bytes == WholeFrames(hdr.fmt, SoundBytes)
Described ==
  wavStage \in {"pcm", "adpcm", "read", "thrown"} =>
    /\ hdr.found = {"fmt", "data"} /\ Playable(hdr.fmt, Bytes) /\ total = TotalFrames(hdr.fmt, Bytes)
    /\ wavStage = "thrown" => total * hdr.fmt.channels > MaxFloats
NothingYet ==
  wavStage \in {"closed", "open", "chunks", "describe"} =>
    decoded = <<>> /\ block = NoBlock /\ call = NoCall

PcmAt(n) ==
  /\ decoded = FramesUpTo(file, hdr.fmt, n)
  /\ n <= total /\ n * FrameBytes(hdr.fmt) <= Bytes
  /\ n = 0 \/ Decodes(hdr.fmt)
  /\ position = SoundStart(file) + n * FrameBytes(hdr.fmt)
  /\ left = Bytes - n * FrameBytes(hdr.fmt)
PcmReads == wavStage = "pcm" => ~Compressed(hdr.fmt) /\ \E n \in Nat : PcmAt(n)

Heads(fmt) == IF fmt.tag = "ms" THEN 2 ELSE 1
GroupFrames(fmt) == IF fmt.tag = "ms" THEN (IF fmt.channels = 1 THEN 2 ELSE 1) ELSE 8
PerBlock(fmt) == FramesOfBlock(fmt, fmt.align)

AtBoundary(f, fmt, n, nb) ==
  /\ n = nb * PerBlock(fmt) /\ position = SoundStart(f) + nb * fmt.align
  /\ block = NoBlock
InBlock(f, fmt, n, nb, d) ==
  LET cached == (nb * PerBlock(fmt) + Heads(fmt) + GroupFrames(fmt) * d) - n
  IN  /\ cached \in Nat
      /\ position = SoundStart(f) + nb * fmt.align + HeadBytes(fmt) + GroupBytes(fmt) * d
      /\ block = [rest |-> fmt.align - HeadBytes(fmt) - GroupBytes(fmt) * d,
                  cached |-> FramesFrom(f, fmt, n, cached)]
      /\ block.rest >= 0
AdpcmAt(n) ==
  /\ decoded = FramesUpTo(file, hdr.fmt, n)
  /\ call = [want |-> call.want, got |-> call.got] /\ call.want \in Nat /\ n + call.want <= total
  /\ \E nb \in Nat : \/ AtBoundary(file, hdr.fmt, n, nb)
                     \/ \E d \in Nat : InBlock(file, hdr.fmt, n, nb, d)
AdpcmReads == wavStage = "adpcm" => Compressed(hdr.fmt) /\ \E n \in Nat : AdpcmAt(n)

KnownSound ==
  EndKnown(file) /\ (Compressed(hdr.fmt) => WholeBlocks(hdr.fmt, SoundLength(file)))
Ended(n) ==
  KnownSound =>
    IF Compressed(hdr.fmt) THEN total <= FramesIn(hdr.fmt, SoundLength(file)) => n = total
    ELSE n = IF Decodes(hdr.fmt) THEN Least(total, SoundLength(file) \div FrameBytes(hdr.fmt)) ELSE 0
ReadDone ==
  wavStage = "read" => \E n \in Nat : decoded = FramesUpTo(file, hdr.fmt, n) /\ Ended(n)

WavInv ==
  WavTypes /\ HeaderTrue /\ Walks /\ Described /\ NothingYet /\ PcmReads /\ AdpcmReads /\ ReadDone

(***************************************************************************)
(* The starts of the chunks are what their recursive definition says: each *)
(* begins where the one before it ends, padded.                            *)
(***************************************************************************)
Laid(f) ==
  /\ Len(f.chunks) \in Nat /\ DOMAIN f.chunks = 1..Len(f.chunks)
  /\ \A k \in 1..(Len(f.chunks) + 1) : ChunkAt(f, k) \in Nat
  /\ ChunkAt(f, 1) = Preamble(f)
  /\ \A k \in 1..Len(f.chunks) :
       ChunkAt(f, k + 1) = ChunkAt(f, k) + HeaderBytes(f) + f.chunks[k].stored + Filling(f, f.chunks[k].stored)

\* What fills a chunk up, and when the reader passes over just that.
LEMMA FillingIs ==
  ASSUME NEW f, NEW n \in Nat
  PROVE  /\ Filling(f, n) \in Nat
         /\ (f.container = "w64" => (n % 4) = 0) => Filling(f, n) = Padding(f, n)
<1>1. CASE f.container = "w64"
  <2>1. Filling(f, n) = (8 - (n % 8)) % 8 /\ Padding(f, n) = n % 8
    BY <1>1 DEF Filling, Alignment, Padding
  <2> QED BY <1>1, <2>1
<1>2. CASE f.container # "w64"
  <2>1. Filling(f, n) = (2 - (n % 2)) % 2 /\ Padding(f, n) = n % 2
    BY <1>2 DEF Filling, Alignment, Padding
  <2> QED BY <1>2, <2>1
<1> QED BY <1>1, <1>2

LEMMA FileLaid ==
  ASSUME NEW f, IsFile(f)
  PROVE  Laid(f)
<1> DEFINE m == Len(f.chunks) + 1
           Gap(k) == HeaderBytes(f) + f.chunks[k].stored + Filling(f, f.chunks[k].stored)
           onward == [k \in 1..m |-> [v \in Nat |-> IF k = 1 THEN v ELSE v + Gap(k - 1)]]
           body(g, k) == IF k = 1 THEN Preamble(f)
                         ELSE LET stored == f.chunks[k - 1].stored
                              IN  g[k - 1] + HeaderBytes(f) + stored + Filling(f, stored)
           Eq(g) == g = [k \in 1..m |-> body(g, k)]
<1>1. Len(f.chunks) \in Nat /\ DOMAIN f.chunks = 1..Len(f.chunks)
  BY LenProperties DEF IsFile
<1>2. \A k \in 1..Len(f.chunks) : f.chunks[k].stored \in Nat
  BY <1>1 DEF IsFile, IsChunk
<1>3. \A k \in 1..Len(f.chunks) : Gap(k) \in Nat
  <2> SUFFICES ASSUME NEW k \in 1..Len(f.chunks) PROVE Gap(k) \in Nat
    OBVIOUS
  <2>1. f.chunks[k].stored \in Nat /\ Filling(f, f.chunks[k].stored) \in Nat /\ HeaderBytes(f) \in Nat
    BY <1>2, FillingIs DEF HeaderBytes
  <2> QED BY <2>1
<1>4. Preamble(f) \in Nat /\ m \in Nat \ {0}
  BY <1>1 DEF Preamble
<1>5. onward \in [1..m -> [Nat -> Nat]]
  <2> SUFFICES ASSUME NEW k \in 1..m, NEW v \in Nat
      PROVE (IF k = 1 THEN v ELSE v + Gap(k - 1)) \in Nat
    OBVIOUS
  <2> HIDE DEF Gap
  <2>1. k # 1 => k - 1 \in 1..Len(f.chunks)
    BY <1>1
  <2> QED BY <1>3, <2>1
<1>6. \A k \in 2..m : \A v \in Nat : onward[k][v] = v + Gap(k - 1)
  <2> HIDE DEF Gap
  <2> QED OBVIOUS
<1> HIDE DEF onward
<1>7. PICK g : IteratesUpTo(g, m, Nat, Preamble(f), onward)
  BY <1>4, <1>5, RecursionUpTo
<1>8. g \in [1..m -> Nat] /\ g[1] = Preamble(f) /\ \A k \in 2..m : g[k] = onward[k][g[k - 1]]
  BY <1>7 DEF IteratesUpTo
<1>9. Eq(g)
  <2>1. ASSUME NEW k \in 1..m PROVE g[k] = body(g, k)
    <3>1. CASE k = 1
      BY <1>8, <3>1
    <3>2. CASE k # 1
      <4>1. k \in 2..m /\ k - 1 \in 1..m /\ k - 1 \in 1..Len(f.chunks)
        BY <1>1, <3>2
      <4> DEFINE a == g[k - 1]
      <4>2. a \in Nat /\ g[k] = onward[k][a]
        BY <1>8, <4>1
      <4> HIDE DEF Gap
      <4>3. g[k] = a + Gap(k - 1)
        BY <1>6, <4>1, <4>2
      <4> DEFINE st == f.chunks[k - 1].stored
                 pd == Filling(f, st)
      <4>4. Gap(k - 1) = HeaderBytes(f) + st + pd
        BY DEF Gap
      <4>5. HeaderBytes(f) \in Nat /\ st \in Nat /\ pd \in Nat
        BY <1>2, <4>1, FillingIs DEF HeaderBytes
      <4>6. body(g, k) = a + HeaderBytes(f) + st + pd
        BY <3>2
      <4> HIDE DEF a, st, pd, body
      <4> QED BY <4>2, <4>3, <4>4, <4>5, <4>6
    <3> QED BY <3>1, <3>2
  <2> HIDE DEF body
  <2>2. g = [k \in 1..m |-> g[k]]
    BY <1>8
  <2> QED BY <2>1, <2>2
<1>10. StartsOf(f) = CHOOSE h : Eq(h)
  BY DEF StartsOf
<1>11. Eq(StartsOf(f))
  BY <1>9, <1>10
<1> DEFINE s == StartsOf(f)
<1>12. \A k \in 1..m : s[k] = body(s, k)
  BY <1>11
<1>13. \A k \in 1..m : ChunkAt(f, k) = s[k]
  BY DEF ChunkAt
<1> HIDE DEF s, Eq
<1>14. s[1] = Preamble(f)
  BY <1>4, <1>12, SMTT(60)
<1>15. ASSUME NEW k \in 1..Len(f.chunks)
       PROVE  s[k + 1] = s[k] + HeaderBytes(f) + f.chunks[k].stored + Filling(f, f.chunks[k].stored)
  <2>1. k + 1 \in 1..m /\ k + 1 # 1 /\ (k + 1) - 1 = k
    BY <1>1
  <2> QED BY <1>12, <2>1
<1> HIDE DEF body
<1>16. \A k \in 1..m : s[k] \in Nat
  <2> DEFINE P == {k \in 1..m : s[k] \in Nat}
  <2>1. 1 \in P
    BY <1>4, <1>14
  <2>2. ASSUME NEW k \in 2..m, k - 1 \in P PROVE k \in P
    <3>1. k - 1 \in 1..Len(f.chunks) /\ (k - 1) + 1 = k
      BY <1>1
    <3>2. s[k - 1] \in Nat
      BY <2>2
    <3> HIDE DEF Gap
    <3>3. s[k] = s[k - 1] + Gap(k - 1)
      <4>1. s[k] = s[k - 1] + HeaderBytes(f) + f.chunks[k - 1].stored + Filling(f, f.chunks[k - 1].stored)
        BY <1>15, <3>1
      <4>2. HeaderBytes(f) \in Nat /\ f.chunks[k - 1].stored \in Nat /\ Filling(f, f.chunks[k - 1].stored) \in Nat
        BY <1>2, <3>1, FillingIs DEF HeaderBytes
      <4> QED BY <3>2, <4>1, <4>2, SMTT(60) DEF Gap
    <3> QED BY <1>3, <3>1, <3>2, <3>3
  <2> HIDE DEF P
  <2>3. \A k \in 1..m : k \in P
    BY <1>4, <2>1, <2>2, IntervalInductionFrom1
  <2> QED BY <2>3 DEF P
<1> QED
  <2>1. 1 \in 1..m /\ \A k \in 1..Len(f.chunks) : k \in 1..m /\ k + 1 \in 1..m
    BY <1>1
  <2> QED BY <1>1, <1>13, <1>14, <1>15, <1>16, <2>1 DEF Laid

\* Chunks lie one after the other, so that a position is at most one's.
LEMMA ChunksApart ==
  ASSUME NEW f, IsFile(f), NEW j \in 1..(Len(f.chunks) + 1), NEW k \in 1..(Len(f.chunks) + 1), j < k
  PROVE  ChunkAt(f, j) + HeaderBytes(f) <= ChunkAt(f, k)
<1> DEFINE m == Len(f.chunks) + 1
           P == {i \in 1..m : j < i => ChunkAt(f, j) + HeaderBytes(f) <= ChunkAt(f, i)}
<1>1. Laid(f) /\ Len(f.chunks) \in Nat /\ m \in Nat \ {0} /\ HeaderBytes(f) \in Nat
  <2>1. Laid(f)
    BY FileLaid
  <2> QED BY <2>1 DEF Laid, HeaderBytes
<1>2. 1 \in P
  BY <1>1
<1>3. ASSUME NEW i \in 2..m, i - 1 \in P PROVE i \in P
  <2>1. i - 1 \in 1..Len(f.chunks) /\ (i - 1) + 1 = i /\ i - 1 \in 1..m
    BY <1>1
  <2> DEFINE s == f.chunks[i - 1].stored
             pd == Filling(f, s)
             a == ChunkAt(f, i - 1)
             b == ChunkAt(f, i)
             c == ChunkAt(f, j)
             h == HeaderBytes(f)
  <2>2. s \in Nat
    BY <1>1, <2>1 DEF IsFile, IsChunk, Laid
  <2>3. pd \in Nat
    BY <2>2, FillingIs
  <2>4. a \in Nat /\ b \in Nat /\ c \in Nat /\ b = a + h + s + pd
    BY <1>1, <2>1 DEF Laid
  <2>5. j < i - 1 => c + h <= a
    BY <1>3
  <2>6. j = i - 1 => c = a
    OBVIOUS
  <2>7. j < i => c + h <= b
    <3> HIDE DEF s, pd, a, b, c, h, P
    <3>1. h \in Nat
      BY <1>1 DEF h
    <3>2. j < i => j < i - 1 \/ j = i - 1
      OBVIOUS
    <3> QED BY <2>2, <2>3, <2>4, <2>5, <2>6, <3>1, <3>2
  <2> QED BY <2>7
<1> HIDE DEF P
<1>4. \A i \in 1..m : i \in P
  BY <1>1, <1>2, <1>3, IntervalInductionFrom1
<1>5. k \in P
  BY <1>4
<1> QED BY <1>5 DEF P

LEMMA TheSound ==
  ASSUME NEW f, IsFile(f), NEW k \in DOMAIN f.chunks, f.chunks[k].id = SoundId(f)
  PROVE  HasSound(f) /\ SoundChunk(f) = k
<1>1. \A j \in DOMAIN f.chunks : f.chunks[j].id = SoundId(f) => j = k
  BY DEF IsFile
<1> QED BY <1>1 DEF HasSound, SoundChunk

LEMMA CommIsFormat ==
  ASSUME NEW fmt, IsFormat(fmt), ~Compressed(fmt)
  PROVE  IsFormat(CommFormat(fmt)) /\ IsFormat(CommFormat([fmt EXCEPT !.tag = "pcm"]))
<1>1. fmt \in [tag : Tags, channels : Nat, bits : Nat, align : Nat, extended : BOOLEAN]
  BY DEF IsFormat
<1>2. ASSUME NEW g, g \in [tag : Tags, channels : Nat, bits : Nat, align : Nat, extended : BOOLEAN], ~Compressed(g)
      PROVE IsFormat(CommFormat(g))
  <2> DEFINE bits == IF g.tag = "law" /\ g.bits > 8 THEN 8 ELSE g.bits
             c == CommFormat(g)
             up == bits + (bits % 8)
             al == (g.channels * bits) \div 8
  <2>1. g.channels \in Nat /\ bits \in Nat
    BY <1>2
  <2>2. c = [g EXCEPT !.bits = up, !.align = al]
    BY DEF CommFormat
  <2> HIDE DEF bits, c
  <2>3. up \in Nat
    BY <2>1
  <2>4. al \in Nat
    <3>1. g.channels * bits \in Nat
      BY <2>1
    <3> QED BY <3>1, DivisionOf
  <2> HIDE DEF up, al
  <2>5. c \in [tag : Tags, channels : Nat, bits : Nat, align : Nat, extended : BOOLEAN] /\ c.tag = g.tag
    BY <1>2, <2>2, <2>3, <2>4
  <2>6. ~Compressed(c) /\ c.tag # "ima"
    BY <1>2, <2>5 DEF Compressed
  <2>7. IsFormat(c)
    BY <2>5, <2>6 DEF IsFormat
  <2> QED BY <2>7 DEF c
<1>3. [fmt EXCEPT !.tag = "pcm"] \in [tag : Tags, channels : Nat, bits : Nat, align : Nat, extended : BOOLEAN]
      /\ ~Compressed([fmt EXCEPT !.tag = "pcm"])
  BY <1>1 DEF Tags, Compressed
<1> QED BY <1>1, <1>2, <1>3

LEMMA PcmIsFormat ==
  ASSUME NEW fmt, IsFormat(fmt)
  PROVE  IsFormat([fmt EXCEPT !.tag = "pcm"]) /\ ~Compressed([fmt EXCEPT !.tag = "pcm"])
         /\ [[fmt EXCEPT !.tag = "pcm"] EXCEPT !.tag = "pcm"] = [fmt EXCEPT !.tag = "pcm"]
<1>1. fmt \in [tag : Tags, channels : Nat, bits : Nat, align : Nat, extended : BOOLEAN]
  BY DEF IsFormat
<1>2. [fmt EXCEPT !.tag = "pcm"] \in [tag : Tags, channels : Nat, bits : Nat, align : Nat, extended : BOOLEAN]
      /\ [fmt EXCEPT !.tag = "pcm"].tag = "pcm"
  BY <1>1 DEF Tags
<1> QED BY <1>1, <1>2 DEF IsFormat, Compressed

\* A readable file has room for each of its chunks.
LEMMA RoomFor ==
  ASSUME NEW f, IsFile(f), Understood(f), NEW k \in 1..Len(f.chunks), NEW n \in Nat,
         n <= HeaderBytes(f) + f.chunks[k].stored + Filling(f, f.chunks[k].stored)
  PROVE  ChunkAt(f, k) + n <= f.len
<1>1. Laid(f)
  BY FileLaid
<1>2. Len(f.chunks) \in Nat /\ k \in 1..(Len(f.chunks) + 1) /\ k + 1 \in 1..(Len(f.chunks) + 1)
      /\ Len(f.chunks) + 1 \in 1..(Len(f.chunks) + 1)
  BY <1>1 DEF Laid
<1>3. ChunkAt(f, Len(f.chunks) + 1) <= f.len /\ f.len \in Nat
  BY DEF Understood, Readable, IsFile
<1> DEFINE a == ChunkAt(f, k)
           b == ChunkAt(f, k + 1)
           c == ChunkAt(f, Len(f.chunks) + 1)
           g == HeaderBytes(f) + f.chunks[k].stored + Filling(f, f.chunks[k].stored)
<1>4. a \in Nat /\ b \in Nat /\ c \in Nat
  BY <1>1, <1>2 DEF Laid
<1>5. b = a + HeaderBytes(f) + f.chunks[k].stored + Filling(f, f.chunks[k].stored)
  BY <1>1 DEF Laid
<1>6. f.chunks[k].stored \in Nat /\ HeaderBytes(f) \in Nat
  BY <1>1 DEF IsFile, IsChunk, Laid, HeaderBytes
<1>7. Filling(f, f.chunks[k].stored) \in Nat
  BY <1>6, FillingIs
<1>8. b <= c
  <2>1. k + 1 < Len(f.chunks) + 1 => b + HeaderBytes(f) <= c
    BY <1>2, ChunksApart
  <2>2. k + 1 = Len(f.chunks) + 1 => b = c
    OBVIOUS
  <2> HIDE DEF b, c
  <2> QED BY <1>2, <1>4, <1>6, <2>1, <2>2
<1> DEFINE h == HeaderBytes(f)
           s == f.chunks[k].stored
           pd == Filling(f, s)
<1>9. h \in Nat /\ s \in Nat /\ pd \in Nat /\ b = a + h + s + pd /\ n <= h + s + pd
  BY <1>5, <1>6, <1>7
<1> HIDE DEF a, b, c, h, s, pd
<1>10. a + n <= f.len
  BY <1>3, <1>4, <1>8, <1>9 DEF c
<1> QED BY <1>10 DEF a

LEMMA PadIs ==
  ASSUME NEW k \in 1..Len(file.chunks), IsFile(file), Understood(file)
  PROVE  Filling(file, file.chunks[k].stored) = Padding(file, file.chunks[k].stored)
<1>1. k \in DOMAIN file.chunks
  BY FileLaid DEF Laid
<1>2. file.chunks[k].stored \in Nat
  BY <1>1 DEF IsFile, IsChunk
<1>3. file.container = "w64" => (file.chunks[k].stored % 4) = 0
  BY <1>1 DEF Understood, PadsAgree
<1> QED BY <1>2, <1>3, FillingIs

LEMMA SkippedIs ==
  ASSUME NEW k \in 1..Len(file.chunks), IsFile(file), Understood(file), position = ChunkAt(file, k),
         file.container = "rf64" => file.chunks[k].id # "data"
  PROVE  /\ Skipped(file.chunks[k]) = ChunkAt(file, k + 1)
         /\ file.chunks[k].size = file.chunks[k].stored
<1>1. file.chunks[k].size = file.chunks[k].stored
  <2>1. k \in DOMAIN file.chunks
    BY FileLaid DEF Laid
  <2> QED BY <2>1 DEF Understood, Readable
<1>2. Laid(file)
  BY FileLaid
<1> DEFINE c == file.chunks[k]
<1>3. Filling(file, c.stored) = Padding(file, c.stored)
  BY PadIs
<1>4. ChunkAt(file, k + 1) = ChunkAt(file, k) + HeaderBytes(file) + c.stored + Filling(file, c.stored)
  BY <1>2 DEF Laid
<1> HIDE DEF c
<1>5. Skipped(c) = position + HeaderBytes(file) + c.size + Padding(file, c.size)
  BY DEF Skipped
<1>6. c.size = c.stored
  BY <1>1 DEF c
<1> QED BY <1>3, <1>4, <1>5, <1>6 DEF c

\* Stages before the sound is described, and a onward between them.
LEMMA ParseKeeps ==
  ASSUME WavInv, wavStage \in {"closed", "open", "chunks"},
         wavStage' \in {"open", "chunks", "describe", "failed"},
         file' = file, UNCHANGED parseVars, WavTypes', HeaderTrue', Walks'
  PROVE  WavInv'
<1>1. Described' /\ PcmReads' /\ AdpcmReads' /\ ReadDone'
  BY DEF Described, PcmReads, AdpcmReads, ReadDone
<1>2. NothingYet'
  BY DEF WavInv, NothingYet, parseVars, NoBlock, NoCall
<1> QED BY <1>1, <1>2 DEF WavInv

LEMMA FailKeeps ==
  ASSUME WavInv, wavStage \in {"closed", "open", "chunks", "describe"},
         Fail, UNCHANGED <<file, position, hdr>>, ~Understood(file),
         block' = block, call' = call, decoded' = decoded
  PROVE  WavInv'
<1>1. wavStage' = "failed"
  BY DEF Fail
<1>2. WavTypes'
  BY <1>1 DEF WavInv, WavTypes, WavStages
<1>3. HeaderTrue'
  BY <1>1 DEF WavInv, HeaderTrue
<1>4. Walks'
  BY <1>1 DEF Walks
<1>5. Described' /\ PcmReads' /\ AdpcmReads' /\ ReadDone' /\ NothingYet'
  BY <1>1 DEF Described, PcmReads, AdpcmReads, ReadDone, NothingYet
<1> QED BY <1>2, <1>3, <1>4, <1>5 DEF WavInv

LEMMA WavInitHolds ==
  ASSUME WavAssumption, WavInit
  PROVE  WavInv
<1>1. WavTypes
  <2>1. IsFormat(NoFormat)
    BY DEF NoFormat, IsFormat, Tags, Compressed
  <2>2. IsHeader(NoHeader)
    BY <2>1 DEF NoHeader, IsHeader
  <2> QED BY <2>2 DEF WavInit, WavTypes, WavStages
<1>2. HeaderTrue
  BY DEF WavInit, HeaderTrue, NoHeader
<1>3. Walks
  BY DEF WavInit, Walks
<1>4. Described /\ PcmReads /\ AdpcmReads /\ ReadDone
  BY DEF WavInit, Described, PcmReads, AdpcmReads, ReadDone
<1>5. NothingYet
  BY DEF WavInit, NothingYet
<1> QED BY <1>1, <1>2, <1>3, <1>4, <1>5 DEF WavInv

LEMMA OpenKeeps ==
  ASSUME WavInv, OpenWav
  PROVE  WavInv'
<1>1. wavStage = "closed" /\ wavStage' = "open" /\ UNCHANGED <<file, position, hdr, parseVars>>
  BY DEF OpenWav
<1>2. WavTypes' /\ HeaderTrue'
  BY <1>1 DEF WavInv, WavTypes, HeaderTrue, WavStages
<1>3. Walks'
  BY <1>1 DEF WavInv, Walks
<1> QED BY <1>1, <1>2, <1>3, ParseKeeps

(***************************************************************************)
(* drwav_init_file: a chunk read as its container says leaves the reader   *)
(* at the next; a readable file is never refused on the way.               *)
(***************************************************************************)
LEMMA ContainerKeeps ==
  ASSUME WavAssumption, WavInv, ReadContainer
  PROVE  WavInv'
<1>1. wavStage = "open" /\ file' = file /\ UNCHANGED parseVars /\ IsFile(file) /\ file \in Files
      /\ position \in Nat /\ IsHeader(hdr)
  BY DEF ReadContainer, WavInv, WavTypes, WavAssumption
<1>2. Laid(file)
  BY <1>1, FileLaid
<1> DEFINE refused == \/ file.container = "unknown" \/ ~Holds(Preamble(file))
                      \/ file.container = "rf64" /\ ~SizesFirst
<1>3. Understood(file) => ~refused
  <2> SUFFICES ASSUME Understood(file) PROVE ~refused
    OBVIOUS
  <2>1. position = 0 /\ file.container # "unknown"
    BY <1>1 DEF WavInv, Walks, Understood, Readable
  <2>2. ChunkAt(file, Len(file.chunks) + 1) <= file.len /\ file.len \in Nat /\ Preamble(file) \in Nat
    BY <1>1 DEF Understood, Readable, IsFile, Preamble
  <2>3. Len(file.chunks) + 1 \in 1..(Len(file.chunks) + 1) /\ 1 \in 1..(Len(file.chunks) + 1)
        /\ Len(file.chunks) \in Nat
    BY <1>2 DEF Laid
  <2>4. Preamble(file) <= file.len
    <3>1. 1 < Len(file.chunks) + 1 =>
            ChunkAt(file, 1) + HeaderBytes(file) <= ChunkAt(file, Len(file.chunks) + 1)
      BY <1>1, <2>3, ChunksApart
    <3>2. ChunkAt(file, 1) = Preamble(file) /\ ChunkAt(file, Len(file.chunks) + 1) \in Nat
      BY <1>2, <2>3 DEF Laid
    <3>3. HeaderBytes(file) \in Nat
      BY DEF HeaderBytes
    <3>4. 1 = Len(file.chunks) + 1 => Preamble(file) = ChunkAt(file, Len(file.chunks) + 1)
      BY <3>2
    <3> QED BY <2>2, <2>3, <3>1, <3>2, <3>3, <3>4
  <2>5. Holds(Preamble(file))
    BY <2>1, <2>2, <2>4 DEF Holds
  <2>6. file.container = "rf64" => SizesFirst
    <3> SUFFICES ASSUME file.container = "rf64" PROVE SizesFirst
      OBVIOUS
    <3>1. file.chunks # <<>> /\ file.chunks[1].id = "ds64"
      BY DEF Understood, Readable
    <3>2. 1 \in 1..Len(file.chunks)
      BY <1>1, <2>3, <3>1, EmptySeq DEF IsFile
    <3>3. file.chunks[1].size \in Nat /\ file.chunks[1].size >= 24 /\ file.chunks[1].stored \in Nat
      BY <1>1, <1>2, <3>1, <3>2 DEF IsFile, IsChunk, Laid
    <3>4. file.chunks[1].stored >= 24
      BY <1>2, <3>1, <3>2, <3>3 DEF Understood, Readable, Laid
    <3> DEFINE h == HeaderBytes(file)
               s == file.chunks[1].stored
               pd == Filling(file, s)
    <3>5. h \in Nat /\ pd \in Nat /\ h + 24 \in Nat
      BY <3>3, FillingIs DEF HeaderBytes
    <3>6. h + 24 <= h + s + pd
      <4> HIDE DEF h, s, pd
      <4>1. s \in Nat /\ s >= 24
        BY <3>3, <3>4 DEF s
      <4> QED BY <3>5, <4>1
    <3>7. ChunkAt(file, 1) + (h + 24) <= file.len
      BY <1>1, <3>2, <3>5, <3>6, RoomFor
    <3>8. ChunkAt(file, 1) = Preamble(file)
      BY <1>2 DEF Laid
    <3>9. Preamble(file) + HeaderBytes(file) + 24 <= file.len
      BY <3>5, <3>7, <3>8, <2>2
    <3>10. Holds(Preamble(file) + HeaderBytes(file) + 24)
      BY <2>1, <2>2, <3>5, <3>9 DEF Holds
    <3> QED BY <3>1, <3>10 DEF SizesFirst
  <2> QED BY <2>1, <2>5, <2>6
<1>4. CASE refused
  <2>1. Fail /\ UNCHANGED <<position, hdr>>
    BY <1>4 DEF ReadContainer
  <2> QED BY <1>1, <1>3, <1>4, <2>1, FailKeeps DEF parseVars
<1>5. CASE ~refused /\ file.container = "rf64"
  <2> DEFINE ds64 == file.chunks[1]
  <2>1. /\ wavStage' = "chunks" /\ hdr' = [hdr EXCEPT !.size = ds64.data, !.fact = ds64.fact]
        /\ position' = Preamble(file) + HeaderBytes(file) + ds64.size + Padding(file, ds64.size)
    BY <1>5 DEF ReadContainer
  <2>2. file.chunks # <<>> /\ ds64.id = "ds64"
    BY <1>5 DEF SizesFirst
  <2>3. 1 \in 1..Len(file.chunks)
    BY <1>1, <1>2, <2>2, EmptySeq DEF IsFile, Laid
  <2>4. ds64.data \in Nat /\ ds64.fact \in Nat /\ ds64.size \in Nat
    BY <1>1, <1>2, <2>2, <2>3 DEF IsFile, IsChunk, Laid
  <2>5. IsHeader(hdr') /\ hdr'.size = ds64.data /\ hdr'.found = hdr.found /\ hdr'.fmt = hdr.fmt /\ hdr'.pos = hdr.pos
    BY <1>1, <2>1, <2>4 DEF IsHeader
  <2>6. position' \in Nat
    BY <2>1, <2>4 DEF Preamble, HeaderBytes, Padding
  <2>7. WavTypes'
    BY <1>1, <2>1, <2>5, <2>6 DEF WavTypes, WavStages
  <2>8. HeaderTrue'
    <3>1. "data" \in hdr.found => Declared(file) = ds64.data
      BY <1>5 DEF Declared, Aiff
    <3> QED BY <1>1, <2>1, <2>5, <3>1 DEF WavInv, HeaderTrue
  <2>9. Walks'
    <3> SUFFICES ASSUME Understood(file) PROVE \E n \in 1..(Len(file.chunks) + 1) : Met(n)'
      BY <1>1, <2>1 DEF Walks
    <3>1. position' = ChunkAt(file, 2)
      <4>1. ds64.size = ds64.stored
        BY <1>2, <2>2, <2>3 DEF Understood, Readable, Laid
      <4>2. ChunkAt(file, 1) = Preamble(file)
            /\ ChunkAt(file, 1 + 1) = ChunkAt(file, 1) + HeaderBytes(file) + ds64.stored + Filling(file, ds64.stored)
        BY <1>2, <2>3 DEF Laid
      <4>3. Filling(file, ds64.stored) = Padding(file, ds64.stored)
        BY <1>1, <2>3, PadIs
      <4> HIDE DEF ds64
      <4> QED BY <2>1, <4>1, <4>2, <4>3
    <3>2. \A j \in 1..(2 - 1) : file.chunks[j].id # FormatId(file) /\ file.chunks[j].id # SoundId(file)
      <4>1. ds64.id # FormatId(file) /\ ds64.id # SoundId(file)
        BY <2>2 DEF FormatId, SoundId
      <4> QED BY <4>1
    <3>3. Met(2)'
      BY <1>1, <1>2, <2>3, <3>1, <3>2 DEF Met, Laid
    <3> QED BY <1>2, <2>3, <3>3 DEF Laid
  <2> QED BY <1>1, <2>1, <2>7, <2>8, <2>9, ParseKeeps
<1>6. CASE ~refused /\ file.container # "rf64"
  <2>1. wavStage' = "chunks" /\ hdr' = hdr /\ position' = Preamble(file)
    BY <1>6 DEF ReadContainer
  <2>2. WavTypes'
    BY <1>1, <2>1 DEF WavTypes, WavStages, Preamble
  <2>3. HeaderTrue'
    BY <1>1, <1>6, <2>1 DEF WavInv, HeaderTrue
  <2>4. Walks'
    <3>1. ChunkAt(file, 1) = Preamble(file) /\ 1 \in 1..(Len(file.chunks) + 1)
      BY <1>2 DEF Laid
    <3>2. Met(1)'
      BY <1>1, <1>6, <2>1, <3>1 DEF Met
    <3> QED BY <1>1, <2>1, <3>1, <3>2 DEF Walks
  <2> QED BY <1>1, <2>1, <2>2, <2>3, <2>4, ParseKeeps
<1> QED BY <1>4, <1>5, <1>6

\* A chunk before the sound's is left for the next.
LEMMA HereIsMet ==
  ASSUME WavInv, IsFile(file), Understood(file), wavStage = "chunks", NEW k \in 1..Len(file.chunks), Here(k)
  PROVE  Met(k)
<1>1. PICK n \in 1..(Len(file.chunks) + 1) : Met(n)
  BY DEF WavInv, Walks
<1>2. ChunkAt(file, k) = position /\ ChunkAt(file, n) = position
  BY <1>1 DEF Met, Here
<1>3. Laid(file)
  BY FileLaid
<1>4. k \in 1..(Len(file.chunks) + 1) /\ HeaderBytes(file) \in Nat /\ HeaderBytes(file) > 0 /\ position \in Nat
  BY <1>1, <1>2, <1>3 DEF Laid, HeaderBytes
<1>5. ~(k < n)
  <2>1. k < n => ChunkAt(file, k) + HeaderBytes(file) <= ChunkAt(file, n)
    BY <1>4, ChunksApart
  <2> QED BY <1>2, <1>4, <2>1
<1>6. ~(n < k)
  <2>1. n < k => ChunkAt(file, n) + HeaderBytes(file) <= ChunkAt(file, k)
    BY <1>4, ChunksApart
  <2> QED BY <1>2, <1>4, <2>1
<1>7. n = k
  BY <1>3, <1>5, <1>6 DEF Laid
<1> QED BY <1>1, <1>7

LEMMA WalkOn ==
  ASSUME WavInv, IsFile(file), wavStage = "chunks", NEW k \in 1..Len(file.chunks), Here(k),
         file' = file, wavStage' = "chunks",
         Understood(file) => position' = ChunkAt(file, k + 1),
         hdr.found \subseteq hdr'.found,
         file.chunks[k].id = FormatId(file) => "fmt" \in hdr'.found,
         file.chunks[k].id = SoundId(file) => Aiff(file) /\ "data" \in hdr'.found
  PROVE  Walks'
<1> SUFFICES ASSUME Understood(file) PROVE \E n \in 1..(Len(file.chunks) + 1) : Met(n)'
  BY DEF Walks
<1>1. Met(k)
  BY HereIsMet
<1>2. k + 1 \in 1..(Len(file.chunks) + 1) /\ k + 1 > 1 /\ (k + 1) - 1 = k
      /\ \A j \in 1..k : j \in 1..(k - 1) \/ j = k
  BY FileLaid DEF Laid
<1>3. \A j \in 1..((k + 1) - 1) :
        /\ file.chunks[j].id = FormatId(file) => "fmt" \in hdr'.found
        /\ file.chunks[j].id = SoundId(file) => Aiff(file) /\ "data" \in hdr'.found
  BY <1>1, <1>2 DEF Met
<1>4. Met(k + 1)'
  BY <1>2, <1>3 DEF Met
<1> QED BY <1>2, <1>4

\* What a chunk action knows of the chunk it reads.
LEMMA ReadChunk ==
  ASSUME WavAssumption, WavInv, NEW id, NEW k \in DOMAIN file.chunks, Reads(id, k)
  PROVE  /\ wavStage = "chunks" /\ IsFile(file) /\ file \in Files /\ Here(k) /\ k \in 1..Len(file.chunks)
         /\ file.chunks[k].id = id /\ id \in Handled(file) /\ position = ChunkAt(file, k)
         /\ IsChunk(file, file.chunks[k]) /\ position \in Nat /\ IsHeader(hdr)
<1>1. IsFile(file) /\ file \in Files /\ position \in Nat /\ IsHeader(hdr)
  BY DEF WavInv, WavTypes, WavAssumption
<1>2. Laid(file)
  BY <1>1, FileLaid
<1> QED BY <1>1, <1>2 DEF Reads, Here, IsFile, Laid

LEMMA SkippedNat ==
  ASSUME NEW c, c.size \in Nat, position \in Nat
  PROVE  Skipped(c) \in Nat
BY DEF Skipped, HeaderBytes, Padding

\* Where a readable file's chunk has room, and the reader is.
LEMMA HoldsIn ==
  ASSUME NEW k \in 1..Len(file.chunks), IsFile(file), Understood(file), position = ChunkAt(file, k),
         NEW n \in Nat, n <= file.chunks[k].stored + Filling(file, file.chunks[k].stored)
  PROVE  Holds(HeaderBytes(file) + n)
<1> DEFINE h == HeaderBytes(file)
           s == file.chunks[k].stored
           pd == Filling(file, s)
<1>1. s \in Nat
  BY FileLaid DEF Laid, IsFile, IsChunk
<1>2. h \in Nat /\ pd \in Nat /\ h + n \in Nat
  BY <1>1, FillingIs DEF HeaderBytes
<1>3. h + n <= h + s + pd
  <2>1. n <= s + pd
    OBVIOUS
  <2> HIDE DEF h, s, pd
  <2> QED BY <1>1, <1>2, <2>1
<1>4. ChunkAt(file, k) + (h + n) <= file.len
  BY <1>2, <1>3, RoomFor
<1> QED BY <1>4 DEF Holds

LEMMA FmtKeeps ==
  ASSUME WavAssumption, WavInv, NEW k \in DOMAIN file.chunks, FmtChunk(k)
  PROVE  WavInv'
<1> DEFINE c == file.chunks[k]
           needed == IF c.size = 16 THEN 16 ELSE IF c.fmt.extended THEN 40 ELSE 18
           refused == c.size < 16 \/ ~Holds(HeaderBytes(file) + needed)
<1>1. /\ Reads("fmt", k) /\ file' = file /\ UNCHANGED parseVars
      /\ IF refused THEN Fail /\ UNCHANGED <<position, hdr>>
         ELSE /\ hdr' = [hdr EXCEPT !.fmt = c.fmt, !.found = @ \cup {"fmt"}]
              /\ position' = Skipped(c)
              /\ UNCHANGED <<wavStage, handles>>
  BY DEF FmtChunk
<1>2. /\ wavStage = "chunks" /\ IsFile(file) /\ file \in Files /\ Here(k) /\ k \in 1..Len(file.chunks)
      /\ c.id = "fmt" /\ "fmt" \in Handled(file) /\ position = ChunkAt(file, k)
      /\ IsChunk(file, c) /\ position \in Nat /\ IsHeader(hdr)
  BY <1>1, ReadChunk
<1>3. c.size \in Nat /\ c.stored \in Nat /\ IsFormat(c.fmt) /\ ~Aiff(file)
  BY <1>2 DEF IsChunk, Handled
<1>4. CASE refused
  <2>1. Fail /\ UNCHANGED <<position, hdr>>
    BY <1>1, <1>4
  <2>2. ~Understood(file)
    <3> SUFFICES ASSUME Understood(file) PROVE FALSE
      OBVIOUS
    <3>1. c.size = c.stored
      BY <1>2, SkippedIs
    <3>2. c.size >= (IF c.fmt.extended THEN 40 ELSE 16)
      BY <1>2 DEF Understood, Readable
    <3>3. needed \in Nat /\ needed <= c.stored + Filling(file, c.stored)
      <4>1. c.stored = 17 => Filling(file, c.stored) >= 1
        BY DEF Filling, Alignment
      <4>2. Filling(file, c.stored) \in Nat
        BY <1>3, FillingIs
      <4> HIDE DEF c
      <4>3. needed \in {16, 18, 40}
        OBVIOUS
      <4>4. c.stored >= 16
        BY <1>3, <3>1, <3>2
      <4>5. c.stored = 16 \/ c.stored = 17 \/ c.stored >= 18
        BY <1>3, <4>4
      <4>6. CASE c.fmt.extended
        BY <1>3, <3>1, <3>2, <4>2, <4>6
      <4>7. CASE ~c.fmt.extended
        BY <1>3, <3>1, <4>1, <4>2, <4>5, <4>7
      <4> QED BY <4>6, <4>7
    <3>4. Holds(HeaderBytes(file) + needed)
      <4> HIDE DEF needed
      <4> QED BY <1>2, <3>3, HoldsIn
    <3>5. c.size >= 16
      BY <1>3, <3>2
    <3> QED BY <1>3, <1>4, <3>4, <3>5
  <2> QED BY <1>1, <1>2, <2>1, <2>2, FailKeeps DEF parseVars
<1>5. CASE ~refused
  <2>1. /\ hdr' = [hdr EXCEPT !.fmt = c.fmt, !.found = @ \cup {"fmt"}] /\ position' = Skipped(c)
        /\ wavStage' = "chunks"
    BY <1>1, <1>2, <1>5
  <2>2. /\ IsHeader(hdr') /\ hdr'.fmt = c.fmt /\ hdr'.found = hdr.found \cup {"fmt"}
        /\ hdr'.size = hdr.size /\ hdr'.pos = hdr.pos
    <3> HIDE DEF c
    <3> QED BY <1>2, <1>3, <2>1 DEF IsHeader
  <2>3. WavTypes'
    BY <1>1, <1>2, <1>3, <2>1, <2>2, SkippedNat DEF WavTypes, WavStages
  <2>4. c.fmt \in Formats(file)
    <3>1. file.container # "aiff" /\ file.container # "aifc" /\ FormatId(file) = "fmt"
      BY <1>3 DEF Aiff, FormatId
    <3> QED BY <1>2, <3>1 DEF Formats
  <2>5. HeaderTrue'
    BY <1>1, <1>2, <2>1, <2>2, <2>4 DEF WavInv, HeaderTrue
  <2>6. Walks'
    <3>1. c.id # SoundId(file)
      BY <1>2, <1>3 DEF SoundId
    <3>2. Understood(file) => position' = ChunkAt(file, k + 1)
      BY <1>2, <2>1, SkippedIs
    <3>3. hdr.found \subseteq hdr'.found /\ "fmt" \in hdr'.found
      BY <2>2
    <3> QED BY <1>1, <1>2, <2>1, <3>1, <3>2, <3>3, WalkOn
  <2> QED BY <1>1, <1>2, <2>1, <2>3, <2>5, <2>6, ParseKeeps
<1> QED BY <1>4, <1>5

LEMMA DataKeeps ==
  ASSUME WavAssumption, WavInv, NEW k \in DOMAIN file.chunks, DataChunk(k)
  PROVE  WavInv'
<1> DEFINE c == file.chunks[k]
           size1 == IF file.container = "rf64" THEN hdr.size ELSE c.size
<1>1. /\ Reads("data", k) /\ file' = file /\ UNCHANGED parseVars /\ position' = position
      /\ wavStage' = "describe"
      /\ hdr' = [hdr EXCEPT !.pos = position + HeaderBytes(file), !.found = @ \cup {"data"}, !.size = size1]
  BY DEF DataChunk
<1>2. /\ wavStage = "chunks" /\ IsFile(file) /\ file \in Files /\ Here(k) /\ k \in 1..Len(file.chunks)
      /\ c.id = "data" /\ "data" \in Handled(file) /\ position = ChunkAt(file, k)
      /\ IsChunk(file, c) /\ position \in Nat /\ IsHeader(hdr)
  BY <1>1, ReadChunk
<1>3. c.size \in Nat /\ c.stored \in Nat /\ ~Aiff(file)
  BY <1>2 DEF IsChunk, Handled
<1>4. SoundId(file) = "data" /\ FormatId(file) = "fmt" /\ HasSound(file) /\ SoundChunk(file) = k
  <2>1. SoundId(file) = "data" /\ FormatId(file) = "fmt"
    BY <1>3 DEF SoundId, FormatId
  <2> QED BY <1>2, <2>1, TheSound
<1>5. position + HeaderBytes(file) \in Nat /\ size1 \in Nat
  <2>1. hdr.size \in Nat
    BY <1>2 DEF IsHeader
  <2>2. HeaderBytes(file) \in Nat
    BY DEF HeaderBytes
  <2> QED BY <1>2, <1>3, <2>1, <2>2
<1>6. /\ IsHeader(hdr') /\ hdr'.fmt = hdr.fmt /\ hdr'.found = hdr.found \cup {"data"}
      /\ hdr'.size = size1 /\ hdr'.pos = position + HeaderBytes(file)
  <2> HIDE DEF c, size1
  <2> QED BY <1>1, <1>2, <1>5 DEF IsHeader
<1>7. WavTypes'
  BY <1>1, <1>2, <1>6 DEF WavTypes, WavStages
<1>8. size1 = Declared(file)
  <2>1. file.container = "rf64" => hdr.size = file.chunks[1].data
    BY <1>2 DEF WavInv, HeaderTrue
  <2> QED BY <1>3, <1>4, <2>1 DEF Declared
<1>9. position + HeaderBytes(file) = SoundStart(file)
  BY <1>2, <1>3, <1>4, <1>5 DEF SoundStart, HeaderBytes
<1>10. HeaderTrue'
  <2>1. "fmt" \in hdr'.found => hdr'.fmt \in Formats(file)
    BY <1>6 DEF WavInv, HeaderTrue
  <2>2. file.container = "rf64" => hdr'.size = file.chunks[1].data
    BY <1>2, <1>6 DEF WavInv, HeaderTrue
  <2> QED BY <1>1, <1>4, <1>6, <1>8, <1>9, <2>1, <2>2 DEF HeaderTrue
<1>11. Walks'
  <2> SUFFICES ASSUME Understood(file) PROVE hdr'.found = {"fmt", "data"}
    BY <1>1 DEF Walks
  <2>1. Met(k)
    BY <1>2, HereIsMet
  <2>2. PICK j \in DOMAIN file.chunks : j < k /\ file.chunks[j].id = "fmt"
    BY <1>3, <1>4 DEF Understood, Readable
  <2>3. j \in 1..(k - 1)
    BY <1>2, <2>2, FileLaid DEF Laid
  <2>4. "fmt" \in hdr.found
    BY <1>4, <2>1, <2>2, <2>3 DEF Met
  <2> QED BY <1>2, <1>6, <2>4 DEF IsHeader
<1> QED BY <1>1, <1>2, <1>7, <1>10, <1>11, ParseKeeps

LEMMA FactKeeps ==
  ASSUME WavAssumption, WavInv, NEW k \in DOMAIN file.chunks, FactChunk(k)
  PROVE  WavInv'
<1> DEFINE c == file.chunks[k]
           needed == CASE file.container = "riff" -> 4 [] file.container = "w64" -> 8 [] OTHER -> 0
           count == CASE file.container = "riff" -> 0 [] file.container = "w64" -> c.fact
                      [] OTHER -> hdr.fact
           refused == ~Holds(HeaderBytes(file) + needed)
<1>1. /\ Reads("fact", k) /\ file' = file /\ UNCHANGED parseVars
      /\ IF refused THEN Fail /\ UNCHANGED <<position, hdr>>
         ELSE /\ hdr' = [hdr EXCEPT !.fact = count]
              /\ position' = Skipped(c)
              /\ UNCHANGED <<wavStage, handles>>
  BY DEF FactChunk
<1>2. /\ wavStage = "chunks" /\ IsFile(file) /\ file \in Files /\ Here(k) /\ k \in 1..Len(file.chunks)
      /\ c.id = "fact" /\ "fact" \in Handled(file) /\ position = ChunkAt(file, k)
      /\ IsChunk(file, c) /\ position \in Nat /\ IsHeader(hdr)
  BY <1>1, ReadChunk
<1>3. c.size \in Nat /\ c.stored \in Nat /\ c.fact \in Nat /\ ~Aiff(file)
      /\ c.size >= (IF file.container = "w64" THEN 8 ELSE 4)
  BY <1>2 DEF IsChunk, Handled
<1>4. CASE refused
  <2>1. Fail /\ UNCHANGED <<position, hdr>>
    BY <1>1, <1>4
  <2>2. ~Understood(file)
    <3> SUFFICES ASSUME Understood(file) PROVE FALSE
      OBVIOUS
    <3>1. c.size = c.stored
      BY <1>2, SkippedIs
    <3>2. needed \in Nat /\ needed <= c.stored
      <4>1. needed \in {0, 4, 8} /\ (needed = 8 => file.container = "w64")
        OBVIOUS
      <4> HIDE DEF needed, c
      <4> QED BY <1>3, <3>1, <4>1
    <3>3. Filling(file, c.stored) \in Nat
      BY <1>3, FillingIs
    <3>4. needed <= c.stored + Filling(file, c.stored)
      <4> HIDE DEF needed, c
      <4> QED BY <1>3, <3>2, <3>3
    <3>5. Holds(HeaderBytes(file) + needed)
      <4> HIDE DEF needed
      <4> QED BY <1>2, <3>2, <3>4, HoldsIn
    <3> QED BY <1>4, <3>5
  <2> QED BY <1>1, <1>2, <2>1, <2>2, FailKeeps DEF parseVars
<1>5. CASE ~refused
  <2>1. hdr' = [hdr EXCEPT !.fact = count] /\ position' = Skipped(c) /\ wavStage' = "chunks"
    BY <1>1, <1>2, <1>5
  <2>2. count \in Nat
    BY <1>2, <1>3 DEF IsHeader
  <2>3. /\ IsHeader(hdr') /\ hdr'.fmt = hdr.fmt /\ hdr'.found = hdr.found
        /\ hdr'.size = hdr.size /\ hdr'.pos = hdr.pos
    <3> HIDE DEF c, count
    <3> QED BY <1>2, <2>1, <2>2 DEF IsHeader
  <2>4. WavTypes'
    BY <1>1, <1>2, <1>3, <2>1, <2>3, SkippedNat DEF WavTypes, WavStages
  <2>5. HeaderTrue'
    BY <1>1, <1>2, <2>1, <2>3 DEF WavInv, HeaderTrue
  <2>6. Walks'
    <3>1. c.id # SoundId(file) /\ c.id # FormatId(file)
      BY <1>2, <1>3 DEF SoundId, FormatId
    <3>2. Understood(file) => position' = ChunkAt(file, k + 1)
      BY <1>2, <2>1, SkippedIs
    <3> QED BY <1>1, <1>2, <2>1, <2>3, <3>1, <3>2, WalkOn
  <2> QED BY <1>1, <1>2, <2>1, <2>4, <2>5, <2>6, ParseKeeps
<1> QED BY <1>4, <1>5

LEMMA OtherKeeps ==
  ASSUME WavAssumption, WavInv, NEW k \in DOMAIN file.chunks, OtherChunk(k)
  PROVE  WavInv'
<1> DEFINE c == file.chunks[k]
<1>1. /\ wavStage = "chunks" /\ Here(k) /\ c.id \notin Handled(file) /\ file' = file /\ hdr' = hdr
      /\ UNCHANGED parseVars /\ wavStage' = "chunks" /\ position' = Skipped(c)
  BY DEF OtherChunk
<1>2. IsFile(file) /\ file \in Files /\ position \in Nat /\ IsHeader(hdr)
  BY DEF WavInv, WavTypes, WavAssumption
<1>3. k \in 1..Len(file.chunks) /\ IsChunk(file, c) /\ position = ChunkAt(file, k)
  BY <1>1, <1>2, FileLaid DEF Laid, IsFile, Here
<1>4. c.id # SoundId(file) /\ c.id # FormatId(file) /\ (~Aiff(file) => c.id # "data")
  BY <1>1 DEF Handled, SoundId, FormatId
<1>5. WavTypes'
  <2>1. Skipped(c) \in Nat
    BY <1>2, <1>3, SkippedNat DEF IsChunk
  <2> QED BY <1>1, <1>2, <2>1 DEF WavTypes, WavStages
<1>6. HeaderTrue'
  BY <1>1 DEF WavInv, HeaderTrue
<1>7. Walks'
  <2>1. file.container = "rf64" => ~Aiff(file)
    BY DEF Aiff
  <2>2. Understood(file) => position' = ChunkAt(file, k + 1)
    BY <1>1, <1>2, <1>3, <1>4, <2>1, SkippedIs
  <2> QED BY <1>1, <1>2, <1>3, <1>4, <2>2, WalkOn
<1> QED BY <1>1, <1>5, <1>6, <1>7, ParseKeeps

LEMMA CommKeeps ==
  ASSUME WavAssumption, WavInv, NEW k \in DOMAIN file.chunks, CommChunk(k)
  PROVE  WavInv'
<1> DEFINE c == file.chunks[k]
           aifc == file.container = "aifc"
           needed == IF aifc THEN 24 ELSE 18
           fmt1 == CommFormat(IF aifc THEN c.fmt ELSE [c.fmt EXCEPT !.tag = "pcm"])
           refused == \/ IF aifc THEN c.size < 24 ELSE c.size # 18
                      \/ ~Holds(HeaderBytes(file) + needed)
                      \/ aifc /\ c.fmt.tag \notin {"pcm", "float", "law"}
<1>1. /\ Reads("COMM", k) /\ file' = file /\ UNCHANGED parseVars
      /\ IF refused THEN Fail /\ UNCHANGED <<position, hdr>>
         ELSE /\ hdr' = [hdr EXCEPT !.fmt = fmt1, !.aiff = c.frames, !.found = @ \cup {"fmt"}]
              /\ position' = position + HeaderBytes(file) + c.size
              /\ UNCHANGED <<wavStage, handles>>
  BY DEF CommChunk
<1>2. /\ wavStage = "chunks" /\ IsFile(file) /\ file \in Files /\ Here(k) /\ k \in 1..Len(file.chunks)
      /\ c.id = "COMM" /\ "COMM" \in Handled(file) /\ position = ChunkAt(file, k)
      /\ IsChunk(file, c) /\ position \in Nat /\ IsHeader(hdr)
  BY <1>1, ReadChunk
<1>3. c.size \in Nat /\ c.stored \in Nat /\ IsFormat(c.fmt) /\ c.frames \in Nat /\ Aiff(file)
  BY <1>2 DEF IsChunk, Handled
<1>4. ~aifc => file.container = "aiff"
  BY <1>3 DEF Aiff
<1>5. CASE refused
  <2>1. Fail /\ UNCHANGED <<position, hdr>>
    BY <1>1, <1>5
  <2>2. ~Understood(file)
    <3> SUFFICES ASSUME Understood(file) PROVE FALSE
      OBVIOUS
    <3>0. file.container = "rf64" => c.id # "data"
      BY <1>2
    <3>1. c.size = c.stored
      BY <1>2, <3>0, SkippedIs
    <3>2. (IF aifc THEN c.size >= 24 /\ c.fmt.tag \in {"pcm", "float", "law"} ELSE c.size = 18)
      BY <1>2, <1>4 DEF Understood, Readable
    <3>3. Filling(file, c.stored) \in Nat
      BY <1>3, FillingIs
    <3>4. needed \in Nat /\ needed <= c.stored + Filling(file, c.stored)
      <4> HIDE DEF c
      <4>1. needed \in {18, 24} /\ (needed = 24 <=> aifc)
        OBVIOUS
      <4>2. c.stored >= needed
        BY <1>3, <3>1, <3>2
      <4> HIDE DEF needed, aifc
      <4> QED BY <1>3, <3>3, <4>1, <4>2
    <3>5. Holds(HeaderBytes(file) + needed)
      <4> HIDE DEF needed
      <4> QED BY <1>2, <3>4, HoldsIn
    <3> QED BY <1>3, <1>5, <3>2, <3>5
  <2> QED BY <1>1, <1>2, <2>1, <2>2, FailKeeps DEF parseVars
<1>6. CASE ~refused
  <2>1. /\ hdr' = [hdr EXCEPT !.fmt = fmt1, !.aiff = c.frames, !.found = @ \cup {"fmt"}]
        /\ position' = position + HeaderBytes(file) + c.size /\ wavStage' = "chunks"
    BY <1>1, <1>2, <1>6
  <2>2. IsFormat(fmt1)
    <3>1. CASE aifc
      <4>1. ~Compressed(c.fmt)
        BY <1>6, <3>1 DEF Compressed
      <4> QED BY <1>3, <3>1, <4>1, CommIsFormat
    <3>2. CASE ~aifc
      <4> DEFINE g == [c.fmt EXCEPT !.tag = "pcm"]
      <4>1. IsFormat(g) /\ ~Compressed(g)
        BY <1>3, PcmIsFormat
      <4> HIDE DEF g
      <4>2. IsFormat(CommFormat(g))
        BY <4>1, CommIsFormat
      <4> QED BY <3>2, <4>2 DEF g
    <3> QED BY <3>1, <3>2
  <2>3. /\ IsHeader(hdr') /\ hdr'.fmt = fmt1 /\ hdr'.found = hdr.found \cup {"fmt"}
        /\ hdr'.size = hdr.size /\ hdr'.pos = hdr.pos
    <3> HIDE DEF c, fmt1
    <3> QED BY <1>2, <1>3, <2>1, <2>2 DEF IsHeader
  <2>4. WavTypes'
    <3>1. position' \in Nat
      BY <1>2, <1>3, <2>1, SMTT(60) DEF HeaderBytes
    <3> QED BY <1>1, <1>2, <2>1, <2>3, <3>1 DEF WavTypes, WavStages
  <2>5. fmt1 \in Formats(file)
    <3>1. FormatId(file) = "COMM" /\ k \in {j \in DOMAIN file.chunks : file.chunks[j].id = FormatId(file)}
      BY <1>2, <1>3 DEF FormatId
    <3>2. fmt1 = (IF file.container = "aiff" THEN CommFormat([file.chunks[k].fmt EXCEPT !.tag = "pcm"])
                  ELSE IF file.container = "aifc" THEN CommFormat(file.chunks[k].fmt)
                  ELSE file.chunks[k].fmt)
      BY <1>4
    <3> HIDE DEF fmt1
    <3> QED BY <3>1, <3>2 DEF Formats
  <2>6. HeaderTrue'
    BY <1>1, <1>2, <2>1, <2>3, <2>5 DEF WavInv, HeaderTrue
  <2>7. Walks'
    <3>1. c.id # SoundId(file)
      BY <1>2, <1>3 DEF SoundId
    <3>2. Understood(file) => position' = ChunkAt(file, k + 1)
      <4> SUFFICES ASSUME Understood(file) PROVE position' = ChunkAt(file, k + 1)
        OBVIOUS
      <4>0. file.container = "rf64" => c.id # "data"
        BY <1>2
      <4>1. Skipped(c) = ChunkAt(file, k + 1)
        BY <1>2, <4>0, SkippedIs
      <4>2. c.size % 2 = 0
        <5>1. aifc => c.size % 2 = 0
          BY <1>2 DEF Understood, Readable
        <5>2. ~aifc => c.size = 18
          BY <1>2, <1>4 DEF Understood, Readable
        <5> HIDE DEF c, aifc
        <5> QED BY <5>1, <5>2
      <4>3. Padding(file, c.size) = 0
        BY <1>3, <4>2 DEF Padding, Aiff
      <4>4. HeaderBytes(file) \in Nat
        BY DEF HeaderBytes
      <4>5. position' = position + HeaderBytes(file) + c.size /\ position \in Nat /\ c.size \in Nat
        BY <1>2, <1>3, <2>1
      <4> HIDE DEF c
      <4> QED BY <4>1, <4>3, <4>4, <4>5 DEF Skipped
    <3> QED BY <1>1, <1>2, <2>1, <2>3, <3>1, <3>2, WalkOn
  <2> QED BY <1>1, <1>2, <2>1, <2>4, <2>6, <2>7, ParseKeeps
<1> QED BY <1>5, <1>6

LEMMA SsndKeeps ==
  ASSUME WavAssumption, WavInv, NEW k \in DOMAIN file.chunks, SsndChunk(k)
  PROVE  WavInv'
<1> DEFINE c == file.chunks[k]
           size1 == IF c.size > c.offset THEN c.size - c.offset ELSE 0
           refused == ~Holds(HeaderBytes(file) + 8)
<1>1. /\ Reads("SSND", k) /\ file' = file /\ UNCHANGED parseVars
      /\ IF refused THEN Fail /\ UNCHANGED <<position, hdr>>
         ELSE /\ hdr' = [hdr EXCEPT !.pos = SoundAt(c), !.found = @ \cup {"data"}, !.size = size1]
              /\ position' = Skipped(c)
              /\ UNCHANGED <<wavStage, handles>>
  BY DEF SsndChunk
<1>2. /\ wavStage = "chunks" /\ IsFile(file) /\ file \in Files /\ Here(k) /\ k \in 1..Len(file.chunks)
      /\ c.id = "SSND" /\ "SSND" \in Handled(file) /\ position = ChunkAt(file, k)
      /\ IsChunk(file, c) /\ position \in Nat /\ IsHeader(hdr)
  BY <1>1, ReadChunk
<1>3. c.size \in Nat /\ c.stored \in Nat /\ c.offset \in Nat /\ c.size >= 8 /\ Aiff(file)
  BY <1>2 DEF IsChunk, Handled
<1>4. SoundId(file) = "SSND" /\ FormatId(file) = "COMM" /\ HasSound(file) /\ SoundChunk(file) = k
  <2>1. SoundId(file) = "SSND" /\ FormatId(file) = "COMM"
    BY <1>3 DEF SoundId, FormatId
  <2> QED BY <1>2, <2>1, TheSound
<1>5. CASE refused
  <2>1. Fail /\ UNCHANGED <<position, hdr>>
    BY <1>1, <1>5
  <2>2. ~Understood(file)
    <3> SUFFICES ASSUME Understood(file) PROVE FALSE
      OBVIOUS
    <3>0. file.container = "rf64" => c.id # "data"
      BY <1>2
    <3>1. c.size = c.stored
      BY <1>2, <3>0, SkippedIs
    <3>2. Filling(file, c.stored) \in Nat
      BY <1>3, FillingIs
    <3>3. 8 <= c.stored + Filling(file, c.stored)
      <4> HIDE DEF c
      <4> QED BY <1>3, <3>1, <3>2
    <3>4. Holds(HeaderBytes(file) + 8)
      BY <1>2, <3>3, HoldsIn
    <3> QED BY <1>5, <3>4
  <2> QED BY <1>1, <1>2, <2>1, <2>2, FailKeeps DEF parseVars
<1>6. CASE ~refused
  <2>1. /\ hdr' = [hdr EXCEPT !.pos = SoundAt(c), !.found = @ \cup {"data"}, !.size = size1]
        /\ position' = Skipped(c) /\ wavStage' = "chunks"
    BY <1>1, <1>2, <1>6
  <2>2. SoundAt(c) \in Nat /\ size1 \in Nat
    <3>1. HeaderBytes(file) \in Nat
      BY DEF HeaderBytes
    <3>2. position \in Nat /\ c.size \in Nat /\ c.offset \in Nat
      BY <1>2, <1>3
    <3> HIDE DEF c
    <3>3. SoundAt(c) \in Nat
      BY <3>1, <3>2 DEF SoundAt
    <3>4. size1 \in Nat
      BY <3>2
    <3> QED BY <3>3, <3>4
  <2>3. /\ IsHeader(hdr') /\ hdr'.fmt = hdr.fmt /\ hdr'.found = hdr.found \cup {"data"}
        /\ hdr'.size = size1 /\ hdr'.pos = SoundAt(c)
    <3> HIDE DEF c, size1
    <3> QED BY <1>2, <1>3, <2>1, <2>2 DEF IsHeader
  <2>4. WavTypes'
    BY <1>1, <1>2, <1>3, <2>1, <2>3, SkippedNat DEF WavTypes, WavStages
  <2>5. size1 = Declared(file)
    <3>1. file.container # "rf64"
      BY <1>3 DEF Aiff
    <3> QED BY <1>3, <1>4, <3>1 DEF Declared
  <2>6. SoundAt(c) = SoundStart(file)
    <3>1. HeaderBytes(file) \in Nat
      BY DEF HeaderBytes
    <3> DEFINE o == c.offset
               h == HeaderBytes(file)
    <3>2. SoundAt(c) = position + h + 8 + o /\ SoundStart(file) = position + h + (8 + o)
      BY <1>2, <1>3, <1>4 DEF SoundAt, SoundStart
    <3>3. o \in Nat /\ h \in Nat
      BY <1>3, <3>1
    <3> HIDE DEF o, h
    <3> QED BY <1>2, <3>2, <3>3
  <2>7. HeaderTrue'
    <3>1. "fmt" \in hdr'.found => hdr'.fmt \in Formats(file)
      BY <2>3 DEF WavInv, HeaderTrue
    <3>2. file.container # "rf64"
      BY <1>3 DEF Aiff
    <3> QED BY <1>1, <1>4, <2>1, <2>3, <2>5, <2>6, <3>1, <3>2 DEF HeaderTrue
  <2>8. Walks'
    <3>1. c.id # FormatId(file) /\ (file.container = "rf64" => c.id # "data")
      BY <1>2, <1>4
    <3>2. Understood(file) => position' = ChunkAt(file, k + 1)
      BY <1>2, <2>1, <3>1, SkippedIs
    <3> QED BY <1>1, <1>2, <1>3, <2>1, <2>3, <3>1, <3>2, WalkOn
  <2> QED BY <1>1, <1>2, <2>1, <2>4, <2>7, <2>8, ParseKeeps
<1> QED BY <1>5, <1>6

LEMMA EndOfChunksKeeps ==
  ASSUME WavAssumption, WavInv, EndOfChunks
  PROVE  WavInv'
<1>1. /\ wavStage = "chunks" /\ (~\E k \in DOMAIN file.chunks : Here(k)) /\ wavStage' = "describe"
      /\ UNCHANGED <<file, position, hdr, parseVars>>
  BY DEF EndOfChunks
<1>2. WavTypes' /\ HeaderTrue'
  BY <1>1 DEF WavInv, WavTypes, WavStages, HeaderTrue
<1>3. Walks'
  <2> SUFFICES ASSUME Understood(file) PROVE hdr.found = {"fmt", "data"}
    BY <1>1 DEF Walks
  <2>1. IsFile(file) /\ position \in Nat /\ IsHeader(hdr)
    BY DEF WavInv, WavTypes, WavAssumption
  <2>2. Laid(file)
    BY <2>1, FileLaid
  <2>3. PICK n \in 1..(Len(file.chunks) + 1) : Met(n)
    BY <1>1 DEF WavInv, Walks
  <2>4. n = Len(file.chunks) + 1
    <3> SUFFICES ASSUME n # Len(file.chunks) + 1 PROVE FALSE
      OBVIOUS
    <3>1. n \in 1..Len(file.chunks) /\ n \in DOMAIN file.chunks /\ position = ChunkAt(file, n)
      <4>1. Len(file.chunks) \in Nat /\ DOMAIN file.chunks = 1..Len(file.chunks)
        BY <2>2 DEF Laid
      <4>2. n \in 1..Len(file.chunks)
        BY <2>3, <4>1
      <4>3. position = ChunkAt(file, n)
        BY <2>3 DEF Met
      <4> QED BY <4>1, <4>2, <4>3
    <3>2. file.chunks[n].stored \in Nat
      BY <2>1, <3>1 DEF IsFile, IsChunk
    <3>3. Filling(file, file.chunks[n].stored) \in Nat
      BY <3>2, FillingIs
    <3>4. 0 <= file.chunks[n].stored + Filling(file, file.chunks[n].stored)
      BY <3>2, <3>3
    <3>5. Holds(HeaderBytes(file) + 0)
      BY <2>1, <3>1, <3>4, HoldsIn
    <3>6. Here(n)
      BY <3>1, <3>5 DEF Here, HeaderBytes
    <3> QED BY <1>1, <3>1, <3>6
  <2>5. \A j \in DOMAIN file.chunks :
          /\ file.chunks[j].id = FormatId(file) => "fmt" \in hdr.found
          /\ file.chunks[j].id = SoundId(file) => "data" \in hdr.found
    BY <2>2, <2>3, <2>4 DEF Met, Laid
  <2>6. "data" \in hdr.found
    BY <2>5 DEF Understood, Readable, HasSound
  <2>7. "fmt" \in hdr.found
    BY <2>5 DEF Understood, Readable, Formats
  <2> QED BY <2>1, <2>6, <2>7 DEF IsHeader
<1> QED BY <1>1, <1>2, <1>3, ParseKeeps

(***************************************************************************)
(* What init has found: the bytes of the sound are those that exist,       *)
(* whatever sizes the headers state, and there is a frame count.           *)
(***************************************************************************)
LEMMA FrameBytesNat ==
  ASSUME NEW fmt, IsFormat(fmt)
  PROVE  FrameBytes(fmt) \in Nat
<1>1. fmt.bits \in Nat /\ fmt.channels \in Nat /\ fmt.align \in Nat
  BY DEF IsFormat
<1> DEFINE q == (fmt.bits * fmt.channels) \div 8
<1>2. q \in Nat
  <2>1. fmt.bits * fmt.channels \in Nat
    BY <1>1
  <2> QED BY <2>1, DivisionOf
<1> HIDE DEF q
<1> QED BY <1>1, <1>2 DEF FrameBytes, q

LEMMA SoundLaid ==
  ASSUME NEW f, IsFile(f), HasSound(f)
  PROVE  SoundStart(f) \in Nat /\ SoundEnd(f) \in Nat /\ f.len \in Nat
<1> DEFINE k == SoundChunk(f)
           c == f.chunks[k]
<1>1. k \in DOMAIN f.chunks /\ c.id = SoundId(f)
  BY DEF HasSound, SoundChunk
<1>2. IsChunk(f, c) /\ ChunkAt(f, k) \in Nat
  BY <1>1, FileLaid DEF IsFile, Laid
<1>3. c.stored \in Nat /\ (Aiff(f) => c.offset \in Nat)
  BY <1>1, <1>2 DEF IsChunk, SoundId
<1> DEFINE a == ChunkAt(f, k)
           h == HeaderBytes(f)
<1>4. a \in Nat /\ h \in Nat
  BY <1>2 DEF HeaderBytes
<1>5. SoundStart(f) = a + h + (IF Aiff(f) THEN 8 + c.offset ELSE 0) /\ SoundEnd(f) = a + h + c.stored
  BY DEF SoundStart, SoundEnd
<1>6. f.len \in Nat
  BY DEF IsFile
<1> HIDE DEF a, c, h
<1> QED BY <1>3, <1>4, <1>5, <1>6

LEMMA BytesKnown ==
  ASSUME IsFile(file), IsHeader(hdr), HasSound(file), hdr.pos = SoundStart(file),
         hdr.size = Declared(file), EndKnown(file)
  PROVE  /\ SoundBytes = SoundLength(file) /\ SoundLength(file) \in Nat
         /\ SoundStart(file) + SoundLength(file) <= file.len
<1> DEFINE a == SoundStart(file)
           e == SoundEnd(file)
           d == Declared(file)
           n == file.len
           l == SoundLength(file)
<1>1. a \in Nat /\ e \in Nat /\ n \in Nat /\ n < Modulus
  BY SoundLaid DEF IsFile
<1>2. d \in Nat /\ hdr.pos = a /\ hdr.size = d
  BY DEF IsHeader
<1>3. l = (IF e <= n THEN e ELSE n) - a /\ l >= 0
  BY DEF SoundLength, Least, EndKnown
<1>4. d = e - a \/ (d > e - a /\ n <= e)
  BY DEF EndKnown
<1>5. file.container = "riff" => l # Unstated
  BY DEF EndKnown
<1> HIDE DEF a, e, d, n, l
<1>6. l \in Nat /\ a + l <= n
  BY <1>1, <1>3
<1>7. (IF d + a > n THEN (n - a) % Modulus ELSE d) = l
  <2>1. CASE d + a > n
    <3>1. n - a = l
      BY <1>1, <1>2, <1>3, <1>4, <2>1
    <3>2. l % Modulus = l
      <4>1. l < Modulus /\ Modulus \in Nat \ {0}
        BY <1>1, <1>6, WavAssumption DEF WavAssumption
      <4> QED BY <1>6, <4>1, Remainder
    <3> QED BY <2>1, <3>1, <3>2
  <2>2. CASE ~(d + a > n)
    BY <1>1, <1>2, <1>3, <1>4, <2>2
  <2> QED BY <2>1, <2>2
<1>8. SoundBytes = l
  BY <1>2, <1>5, <1>7 DEF SoundBytes, n
<1> QED BY <1>6, <1>8 DEF a, l, n

LEMMA BytesNat ==
  ASSUME WavAssumption, IsFile(file), IsHeader(hdr)
  PROVE  SoundBytes \in Nat /\ Bytes \in Nat
<1>1. hdr.pos \in Nat /\ hdr.size \in Nat /\ file.len \in Nat /\ Modulus \in Nat \ {0}
  BY DEF IsHeader, IsFile, WavAssumption
<1> DEFINE s == (file.len - hdr.pos) % Modulus
<1>2. s \in Nat
  <2>1. file.len - hdr.pos \in Int
    BY <1>1
  <2> QED BY <1>1, <2>1
<1> HIDE DEF s
<1>3. SoundBytes \in Nat
  BY <1>1, <1>2 DEF SoundBytes, s
<1>4. FrameBytes(hdr.fmt) \in Nat
  BY FrameBytesNat DEF IsHeader
<1>5. Bytes \in Nat
  <2> DEFINE b == SoundBytes
             q == FrameBytes(hdr.fmt)
  <2>1. b \in Nat /\ q \in Nat
    BY <1>3, <1>4
  <2>2. Bytes = IF Compressed(hdr.fmt) \/ q = 0 THEN b ELSE b - (b % q)
    BY DEF Bytes, WholeFrames
  <2> HIDE DEF b, q
  <2>3. q # 0 => b % q \in Nat /\ (b % q) <= b
    BY <2>1
  <2> QED BY <2>1, <2>2, <2>3
<1> QED BY <1>3, <1>5

LEMMA BlocksNat ==
  ASSUME NEW fmt, IsFormat(fmt), fmt.align # 0, NEW bytes \in Nat
  PROVE  BlocksIn(fmt, bytes) \in Nat /\ AdpcmHeads(fmt, bytes) \in Nat
<1>1. fmt.align \in Nat \ {0} /\ fmt.channels \in Nat
  BY DEF IsFormat
<1>2. BlocksIn(fmt, bytes) \in Nat
  <2> DEFINE a == fmt.align
             b == bytes + a - 1
  <2>1. b \in Nat /\ a \in Nat \ {0}
    BY <1>1
  <2> HIDE DEF a, b
  <2>2. b \div a \in Nat
    BY <2>1, DivisionBounds
  <2> QED BY <2>2 DEF BlocksIn, a, b
<1>3. AdpcmHeads(fmt, bytes) \in Nat
  BY <1>1, <1>2 DEF AdpcmHeads
<1> QED BY <1>2, <1>3

LEMMA TotalNat ==
  ASSUME IsHeader(hdr), NEW bytes \in Nat, Playable(hdr.fmt, bytes)
  PROVE  TotalFrames(hdr.fmt, bytes) \in Nat /\ Stated \in Nat
<1> DEFINE fmt == hdr.fmt
<1>1. IsFormat(fmt) /\ Valid(fmt) /\ hdr.fact \in Nat /\ hdr.aiff \in Nat
  BY DEF IsHeader, Playable
<1>2. FrameBytes(fmt) \in Nat \ {0} /\ fmt.channels \in Nat \ {0}
  BY <1>1, FrameBytesNat DEF Valid
<1>3. Stated \in Nat
  BY <1>1 DEF Stated
<1>4. CASE Stated # 0
  BY <1>3, <1>4 DEF TotalFrames
<1>5. CASE Stated = 0 /\ ~Compressed(fmt)
  <2>1. bytes \div FrameBytes(fmt) \in Nat
    BY <1>2, DivisionBounds
  <2> QED BY <1>3, <1>5, <2>1 DEF TotalFrames, FrameCount
<1>6. CASE Stated = 0 /\ Compressed(fmt)
  <2> DEFINE h == AdpcmHeads(fmt, bytes)
             b == BlocksIn(fmt, bytes)
             q == ((bytes - h) * 2) \div fmt.channels
  <2>1. h \in Nat /\ b \in Nat
    BY <1>1, BlocksNat DEF Valid
  <2>2. h < bytes
    BY <1>6 DEF Playable
  <2>3. q \in Nat
    <3>1. (bytes - h) * 2 \in Nat
      <4> HIDE DEF h
      <4> QED BY <2>1, <2>2
    <3> HIDE DEF h
    <3> QED BY <1>2, <3>1, DivisionBounds
  <2>4. TotalFrames(fmt, bytes) = q + (IF fmt.tag = "ima" THEN b ELSE 0)
    BY <1>6 DEF TotalFrames, FrameCount
  <2> HIDE DEF q, b
  <2> QED BY <1>3, <2>1, <2>3, <2>4 DEF b
<1> QED BY <1>4, <1>5, <1>6

\* The frames that begin at none, and one more at a time.
LEMMA NoFrames ==
  ASSUME NEW f, NEW fmt
  PROVE  FramesUpTo(f, fmt, 0) = <<>>
BY DEF FramesUpTo

LEMMA BytesStay ==
  ASSUME file' = file, hdr' = hdr
  PROVE  Bytes' = Bytes
BY DEF Bytes, SoundBytes

LEMMA DescribeKeeps ==
  ASSUME WavAssumption, WavInv, Describe
  PROVE  WavInv'
<1> DEFINE fmt == hdr.fmt
           refused == hdr.found # {"fmt", "data"} \/ ~Playable(fmt, Bytes)
           frames == TotalFrames(fmt, Bytes)
<1>1. /\ wavStage = "describe" /\ UNCHANGED <<file, hdr, block, call, decoded>>
      /\ IF refused THEN Fail /\ UNCHANGED <<position, left, total>>
         ELSE /\ position' = hdr.pos /\ left' = Bytes /\ total' = frames
              /\ wavStage' = IF frames * fmt.channels > MaxFloats THEN "thrown"
                              ELSE IF Compressed(fmt) THEN "adpcm" ELSE "pcm"
              /\ UNCHANGED handles
  BY DEF Describe, Bytes
<1>2. IsFile(file) /\ file \in Files /\ IsHeader(hdr) /\ position \in Nat
  BY DEF WavInv, WavTypes, WavAssumption
<1>3. CASE refused
  <2>1. Fail /\ UNCHANGED <<file, position, hdr>> /\ UNCHANGED <<block, call, decoded>>
    BY <1>1, <1>3
  <2>2. ~Understood(file)
    <3> SUFFICES ASSUME Understood(file) PROVE FALSE
      OBVIOUS
    <3>1. hdr.found = {"fmt", "data"}
      BY <1>1 DEF WavInv, Walks
    <3>2. fmt \in Formats(file) /\ HasSound(file) /\ hdr.pos = SoundStart(file) /\ hdr.size = Declared(file)
      BY <3>1 DEF WavInv, HeaderTrue
    <3>3. Valid(fmt) /\ (Compressed(fmt) => AdpcmHeads(fmt, SoundLength(file)) < SoundLength(file))
      BY <3>2 DEF Understood, Readable
    <3>4. SoundBytes = SoundLength(file)
      BY <1>2, <3>2, BytesKnown DEF Understood, Readable
    <3>5. Compressed(fmt) => Bytes = SoundLength(file)
      BY <3>4 DEF Bytes, WholeFrames
    <3>6. Playable(fmt, Bytes)
      BY <3>3, <3>5 DEF Playable
    <3> QED BY <1>3, <3>1, <3>6
  <2> QED BY <1>1, <2>1, <2>2, FailKeeps
<1>4. CASE ~refused
  <2>1. /\ hdr.found = {"fmt", "data"} /\ Playable(fmt, Bytes)
        /\ position' = hdr.pos /\ left' = Bytes /\ total' = frames
        /\ wavStage' = IF frames * fmt.channels > MaxFloats THEN "thrown"
                        ELSE IF Compressed(fmt) THEN "adpcm" ELSE "pcm"
    BY <1>1, <1>4
  <2>2. HasSound(file) /\ hdr.pos = SoundStart(file)
    BY <1>1, <2>1 DEF WavInv, HeaderTrue
  <2>3. hdr.pos \in Nat /\ Bytes \in Nat /\ frames \in Nat /\ FrameBytes(fmt) \in Nat /\ fmt.align \in Nat
    <3>1. FrameBytes(fmt) \in Nat
      BY <1>2, FrameBytesNat DEF IsHeader
    <3> QED BY <1>2, <2>1, <3>1, BytesNat, TotalNat DEF IsHeader, IsFormat
  <2>4. decoded' = FramesUpTo(file, fmt, 0) /\ block' = NoBlock /\ call' = NoCall
    BY <1>1, NoFrames DEF WavInv, NothingYet
  <2>5. Bytes' = Bytes /\ TotalFrames(fmt, Bytes)' = frames
    <3>1. Bytes' = Bytes
      BY <1>1, BytesStay
    <3> QED BY <1>1, <3>1 DEF TotalFrames, Stated
  <2>6. Playable(fmt, Bytes)'
    BY <1>1, <2>1, <2>5 DEF Playable, Stated
  <2>7. WavTypes'
    BY <1>1, <1>2, <2>1, <2>3 DEF WavTypes, WavStages
  <2>8. HeaderTrue'
    BY <1>1, <2>1 DEF WavInv, HeaderTrue
  <2>9. Walks' /\ NothingYet' /\ ReadDone'
    BY <2>1 DEF Walks, NothingYet, ReadDone
  <2>10. Described'
    <3>1. wavStage' = "thrown" => frames * fmt.channels > MaxFloats
      BY <2>1
    <3> HIDE DEF fmt, frames
    <3> QED BY <1>1, <2>1, <2>5, <2>6, <3>1 DEF Described, fmt, frames
  <2>11. PcmReads'
    <3> SUFFICES ASSUME wavStage' = "pcm" PROVE ~Compressed(fmt) /\ PcmAt(0)'
      BY <1>1 DEF PcmReads
    <3>1. ~Compressed(fmt)
      BY <2>1
    <3>2. position' = SoundStart(file) + 0 * FrameBytes(fmt) /\ left' = Bytes - 0 * FrameBytes(fmt)
          /\ 0 <= frames /\ 0 * FrameBytes(fmt) <= Bytes
      <4> HIDE DEF fmt, frames
      <4> QED BY <2>1, <2>2, <2>3
    <3>3. PcmAt(0)'
      BY <1>1, <2>1, <2>4, <2>5, <3>2 DEF PcmAt
    <3> QED BY <3>1, <3>3
  <2>12. AdpcmReads'
    <3> SUFFICES ASSUME wavStage' = "adpcm" PROVE Compressed(fmt) /\ AdpcmAt(0)'
      BY <1>1 DEF AdpcmReads
    <3>1. Compressed(fmt)
      BY <2>1
    <3>2. PerBlock(fmt) \in Int
      <4>1. fmt.channels \in Nat \ {0} /\ fmt.align \in Nat /\ HeadBytes(fmt) \in Nat
        BY <1>2, <2>1 DEF Playable, Valid, IsHeader, IsFormat, HeadBytes
      <4> DEFINE a == (fmt.align - HeadBytes(fmt)) * 2
                 c == fmt.channels
      <4>2. a \in Int /\ c \in Nat \ {0}
        BY <4>1
      <4> HIDE DEF a, c
      <4>3. a \div c \in Int
        BY <4>2
      <4> QED BY <4>3 DEF PerBlock, FramesOfBlock, a, c
    <3>3. 0 = 0 * PerBlock(fmt) /\ position' = SoundStart(file) + 0 * fmt.align
      <4> HIDE DEF fmt
      <4> QED BY <2>1, <2>2, <2>3, <3>2
    <3>4. AtBoundary(file, fmt, 0, 0)'
      BY <1>1, <2>4, <3>3 DEF AtBoundary
    <3>5. /\ call' = [want |-> call'.want, got |-> call'.got] /\ call'.want \in Nat
          /\ 0 + call'.want <= total'
      BY <2>1, <2>3, <2>4 DEF NoCall
    <3>6. AdpcmAt(0)'
      BY <1>1, <2>4, <3>4, <3>5 DEF AdpcmAt
    <3> QED BY <3>1, <3>6
  <2> QED BY <2>7, <2>8, <2>9, <2>10, <2>11, <2>12 DEF WavInv
<1> QED BY <1>3, <1>4

(***************************************************************************)
(* PCM and floats: a round reads whole frames, as many as are wanted, fit  *)
(* in the buffer and are there; it is empty at the end alone.              *)
(***************************************************************************)
\* What has been established once the file is described.
Reading ==
  /\ IsFile(file) /\ file \in Files /\ IsHeader(hdr) /\ IsFormat(hdr.fmt) /\ Valid(hdr.fmt)
  /\ FrameBytes(hdr.fmt) \in Nat \ {0} /\ hdr.fmt.channels \in Nat \ {0} /\ hdr.fmt.align \in Nat \ {0}
  /\ Bytes \in Nat /\ total \in Nat /\ position \in Nat /\ file.len \in Nat
  /\ HasSound(file) /\ SoundStart(file) \in Nat /\ hdr.fmt \in Formats(file)
KnownBytes ==
  EndKnown(file) => /\ SoundBytes = SoundLength(file) /\ SoundLength(file) \in Nat
                    /\ SoundStart(file) + SoundLength(file) <= file.len

LEMMA ReadingIs ==
  ASSUME WavAssumption, WavInv, wavStage \in {"pcm", "adpcm", "read", "thrown"}
  PROVE  Reading /\ KnownBytes
<1>1. IsFile(file) /\ file \in Files /\ IsHeader(hdr) /\ position \in Nat /\ IsFormat(hdr.fmt) /\ file.len \in Nat
  BY DEF WavInv, WavTypes, WavAssumption, IsHeader, IsFile
<1>2. hdr.found = {"fmt", "data"} /\ Playable(hdr.fmt, Bytes) /\ total = TotalFrames(hdr.fmt, Bytes)
  BY DEF WavInv, Described
<1>3. Valid(hdr.fmt)
  BY <1>2 DEF Playable
<1>4. FrameBytes(hdr.fmt) \in Nat \ {0} /\ hdr.fmt.channels \in Nat \ {0} /\ hdr.fmt.align \in Nat \ {0}
  <2>1. FrameBytes(hdr.fmt) \in Nat /\ hdr.fmt.channels \in Nat /\ hdr.fmt.align \in Nat
    BY <1>1, FrameBytesNat DEF IsFormat
  <2> QED BY <1>3, <2>1 DEF Valid
<1>5. Bytes \in Nat /\ total \in Nat
  BY <1>1, <1>2, BytesNat, TotalNat
<1>6. HasSound(file) /\ hdr.pos = SoundStart(file) /\ hdr.size = Declared(file) /\ hdr.fmt \in Formats(file)
  BY <1>2 DEF WavInv, HeaderTrue
<1>7. SoundStart(file) \in Nat
  BY <1>1, <1>6, SoundLaid
<1>8. KnownBytes
  BY <1>1, <1>6, BytesKnown DEF KnownBytes
<1> QED BY <1>1, <1>3, <1>4, <1>5, <1>6, <1>7, <1>8 DEF Reading

LEMMA FramesLen ==
  ASSUME NEW f, NEW fmt, NEW n \in Nat
  PROVE  Len(FramesUpTo(f, fmt, n)) = n
<1> DEFINE T == {FrameOf(f, fmt, i) : i \in Nat}
<1>1. FramesUpTo(f, fmt, n) \in [1..n -> T]
  <2>1. \A i \in 1..n : i - 1 \in Nat
    OBVIOUS
  <2>2. \A i \in 1..n : FrameOf(f, fmt, i - 1) \in T
    BY <2>1
  <2> HIDE DEF T
  <2> QED BY <2>2 DEF FramesUpTo
<1> HIDE DEF T
<1> QED BY <1>1, AsSequence

LEMMA FramesJoin ==
  ASSUME NEW f, NEW fmt, NEW n \in Nat, NEW m \in Nat
  PROVE  FramesUpTo(f, fmt, n) \o FramesFrom(f, fmt, n, m) = FramesUpTo(f, fmt, n + m)
<1> DEFINE T == {FrameOf(f, fmt, i) : i \in Nat}
           x == FramesUpTo(f, fmt, n)
           y == FramesFrom(f, fmt, n, m)
           s == FramesUpTo(f, fmt, n + m)
<1>1. \A i \in Nat : FrameOf(f, fmt, i) \in T
  OBVIOUS
<1> HIDE DEF T
<1>2. x \in [1..n -> T] /\ y \in [1..m -> T] /\ s \in [1..(n + m) -> T]
  <2>1. (\A i \in 1..n : i - 1 \in Nat) /\ (\A i \in 1..m : n + i - 1 \in Nat)
        /\ (\A i \in 1..(n + m) : i - 1 \in Nat)
    OBVIOUS
  <2> QED BY <1>1, <2>1 DEF FramesUpTo, FramesFrom
<1>3. x \in Seq(T) /\ Len(x) = n /\ y \in Seq(T) /\ Len(y) = m /\ s \in Seq(T) /\ Len(s) = n + m
  <2> HIDE DEF x, y, s
  <2>1. n + m \in Nat
    OBVIOUS
  <2> QED BY <1>2, <2>1, AsSequence
<1>4. \A i \in 1..n : s[i] = x[i]
  <2>1. \A i \in 1..n : i \in 1..(n + m)
    OBVIOUS
  <2> QED BY <2>1 DEF FramesUpTo
<1>5. \A i \in 1..m : s[n + i] = y[i]
  <2>1. \A i \in 1..m : n + i \in 1..(n + m)
    OBVIOUS
  <2> QED BY <2>1 DEF FramesUpTo, FramesFrom
<1> HIDE DEF x, y, s
<1>6. x \o y = s
  BY <1>3, <1>4, <1>5, JoinIs
<1> QED BY <1>6 DEF x, y, s

LEMMA PcmFrameIs ==
  ASSUME NEW f, NEW fmt, ~Compressed(fmt), NEW k \in Nat
  PROVE  FrameOf(f, fmt, k) = PcmFrame(fmt, SoundStart(f) + k * FrameBytes(fmt))
<1>1. fmt.tag # "ms"
  BY DEF Compressed
<1> QED BY <1>1 DEF FrameOf, PcmFrame

\* What drwav_read_raw gives is whole frames that are there.
LEMMA FramesReadBounds ==
  ASSUME Reading, NEW frames \in Nat, left \in Nat
  PROVE  /\ FramesRead(frames) \in Nat /\ FramesRead(frames) <= frames
         /\ FramesRead(frames) * FrameBytes(hdr.fmt) <= left
<1> DEFINE q == FrameBytes(hdr.fmt)
           there == IF position <= file.len THEN file.len - position ELSE 0
           b == Least(Least(frames * q, left), there)
           r == b \div q
<1>1. q \in Nat \ {0} /\ there \in Nat
  BY DEF Reading
<1>2. frames * q \in Nat
  BY <1>1
<1>3. b \in Nat /\ b <= frames * q /\ b <= left
  <2> DEFINE fq == frames * q
  <2> HIDE DEF there, fq
  <2> QED BY <1>1, <1>2 DEF Least, fq
<1> HIDE DEF b, q
<1>4. r \in Nat /\ q * r <= b
  BY <1>1, <1>3, DivisionBounds
<1> HIDE DEF r
<1>5. r * q = q * r
  BY <1>1, <1>4
<1>6. r * q <= left /\ r * q <= frames * q
  BY <1>1, <1>2, <1>3, <1>4, <1>5
<1>7. r <= frames
  <2> SUFFICES ASSUME r > frames PROVE FALSE
    BY <1>4
  <2>1. frames + 1 <= r
    BY <1>4
  <2>2. q * (frames + 1) <= q * r
    BY <1>1, <1>4, <2>1, ProductMonotone
  <2>3. q * (frames + 1) = frames * q + q
    BY <1>1
  <2> QED BY <1>1, <1>2, <1>4, <1>5, <1>6, <2>2, <2>3
<1>8. FramesRead(frames) = r
  BY DEF FramesRead, r, b, q
<1> QED BY <1>4, <1>6, <1>7, <1>8 DEF q

LEMMA ProductOf ==
  \A a, b, c \in Int : (a - b) * c = a * c - b * c /\ (a + b) * c = a * c + b * c
OBVIOUS

LEMMA ProductNat == \A a, b \in Nat : a * b \in Nat
OBVIOUS

LEMMA LessProduct ==
  ASSUME NEW a \in Nat, NEW b \in Nat, NEW p \in Nat \ {0}, a * p <= b * p
  PROVE  a <= b
<1> SUFFICES ASSUME b + 1 <= a PROVE FALSE
  OBVIOUS
<1>1. p * (b + 1) <= p * a
  BY ProductMonotone
<1>2. p * (b + 1) = b * p + p /\ p * a = a * p
  OBVIOUS
<1> DEFINE x == a * p
           y == b * p
<1>3. x \in Nat /\ y \in Nat
  OBVIOUS
<1>4. y + p <= x /\ x <= y
  BY <1>1, <1>2
<1> HIDE DEF x, y
<1> QED BY <1>3, <1>4

LEMMA LeastProduct ==
  ASSUME NEW a \in Nat, NEW b \in Nat, NEW p \in Nat \ {0}
  PROVE  Least(a * p, b * p) = Least(a, b) * p
<1>1. a * p \in Nat /\ b * p \in Nat
  OBVIOUS
<1>2. CASE a <= b
  <2>1. p * a <= p * b
    BY <1>2, ProductMonotone
  <2>2. p * a = a * p /\ p * b = b * p
    OBVIOUS
  <2> QED BY <1>1, <1>2, <2>1, <2>2 DEF Least
<1>3. CASE ~(a <= b)
  <2>1. ~(a * p <= b * p)
    BY <1>3, LessProduct
  <2> QED BY <1>3, <2>1 DEF Least
<1> QED BY <1>2, <1>3

LEMMA FramesReadKnown ==
  ASSUME Reading, KnownBytes, EndKnown(file), ~Compressed(hdr.fmt), NEW n \in Nat, PcmAt(n),
         NEW frames \in Nat, NEW q, q = SoundLength(file) \div FrameBytes(hdr.fmt)
  PROVE  q \in Nat /\ n <= q /\ FramesRead(frames) = Least(frames, q - n)
<1> DEFINE p == FrameBytes(hdr.fmt)
           l == SoundLength(file)
           s == SoundStart(file)
           m == Least(frames, q - n)
           there == IF position <= file.len THEN file.len - position ELSE 0
<1>1. p \in Nat \ {0} /\ l \in Nat /\ s \in Nat /\ s + l <= file.len /\ file.len \in Nat
  BY DEF Reading, KnownBytes
<1>2. q \in Nat /\ l % p \in 0..(p - 1) /\ l = q * p + (l % p)
  <2> HIDE DEF l, p
  <2>1. l \div p \in Nat /\ l % p \in 0..(p - 1) /\ l = (l \div p) * p + (l % p)
    BY <1>1, DivisionOf
  <2> QED BY <2>1 DEF l, p
<1>3. Bytes = l - (l % p)
  BY <1>1 DEF Bytes, WholeFrames, KnownBytes
<1>4. q * p \in Nat /\ n * p \in Nat /\ q * p <= l /\ Bytes = q * p
  <2> DEFINE qp == q * p
             r == l % p
  <2>1. qp \in Nat /\ n * p \in Nat
    <3> HIDE DEF p
    <3> QED BY <1>1, <1>2, ProductNat
  <2> HIDE DEF qp, r, l
  <2> QED BY <1>1, <1>2, <1>3, <2>1 DEF qp, r
<1>5. n * p <= q * p /\ left = q * p - n * p /\ position = s + n * p
  BY <1>4 DEF PcmAt
<1>6. n <= q
  BY <1>1, <1>2, <1>5, LessProduct
<1>7. left = (q - n) * p /\ q - n \in Nat
  <2> HIDE DEF p
  <2>1. (q - n) * p = q * p - n * p
    BY <1>1, <1>2, ProductOf
  <2> QED BY <1>2, <1>5, <1>6, <2>1
<1>8. there \in Nat /\ left \in Nat /\ left <= there
  <2> DEFINE qp == q * p
             np == n * p
  <2>1. qp \in Nat /\ np \in Nat /\ np <= qp /\ qp <= l /\ left = qp - np /\ position = s + np
    BY <1>4, <1>5
  <2> HIDE DEF qp, np, l, s, p
  <2> QED BY <1>1, <2>1
<1>9. m \in Nat /\ m <= q - n
  <2> DEFINE d == q - n
  <2>1. d \in Nat
    BY <1>7
  <2> HIDE DEF d
  <2> QED BY <2>1 DEF Least, d
<1>10. Least(frames * p, left) = m * p
  <2> DEFINE d == q - n
  <2>1. d \in Nat /\ left = d * p
    BY <1>7
  <2> HIDE DEF d, p
  <2>2. Least(frames * p, d * p) = Least(frames, d) * p
    BY <1>1, <2>1, LeastProduct
  <2> QED BY <2>1, <2>2 DEF d
<1>11. m * p \in Nat /\ m * p <= left
  <2> HIDE DEF m, p
  <2>1. p * m <= p * (q - n)
    BY <1>1, <1>7, <1>9, ProductMonotone
  <2>2. p * m = m * p /\ p * (q - n) = (q - n) * p /\ m * p \in Nat
    BY <1>1, <1>7, <1>9
  <2> QED BY <1>7, <2>1, <2>2
<1>12. Least(Least(frames * p, left), there) = m * p
  <2> DEFINE mp == m * p
  <2>1. mp \in Nat /\ mp <= there
    <3> HIDE DEF mp, there
    <3> QED BY <1>8, <1>11 DEF mp
  <2> HIDE DEF mp, there
  <2> QED BY <1>10, <2>1 DEF Least, mp
<1>13. (m * p) \div p = m
  <2> HIDE DEF m, p
  <2>1. 0 \in 0..(p - 1) /\ m * p + 0 = m * p
    BY <1>1, <1>9
  <2>2. (m * p + 0) \div p = m
    BY <1>1, <1>9, <2>1, DivisionUnique
  <2> QED BY <2>1, <2>2
<1>14. FramesRead(frames) = m
  BY <1>12, <1>13 DEF FramesRead
<1> QED BY <1>2, <1>6, <1>14

LEMMA RoundBounds ==
  ASSUME WavAssumption, Reading, NEW n \in Nat, PcmAt(n)
  PROVE  /\ total - Len(decoded) = total - n /\ total - n \in Nat /\ left \in Nat
         /\ Round \in Nat /\ Round <= total - n
         /\ Round * FrameBytes(hdr.fmt) <= left /\ (Round > 0 => Decodes(hdr.fmt))
<1> DEFINE p == FrameBytes(hdr.fmt)
           want == total - n
           b == Buffer \div p
           w == Least(want, b)
<1>1. p \in Nat \ {0} /\ Bytes \in Nat /\ total \in Nat /\ n <= total
      /\ n * p <= Bytes /\ left = Bytes - n * p /\ decoded = FramesUpTo(file, hdr.fmt, n)
  BY DEF Reading, PcmAt
<1>2. Len(decoded) = n
  BY <1>1, FramesLen
<1>3. want \in Nat /\ left \in Nat
  <2> DEFINE np == n * p
  <2>1. np \in Nat /\ np <= Bytes /\ left = Bytes - np
    BY <1>1
  <2> HIDE DEF np
  <2> QED BY <1>1, <2>1
<1>4. w \in Nat /\ w <= want
  <2>1. b \in Nat
    BY <1>1, DivisionBounds DEF WavAssumption
  <2> HIDE DEF b, want
  <2> QED BY <1>3, <2>1 DEF Least
<1>5. Round = CASE Direct(hdr.fmt) -> FramesRead(want)
                [] Decodes(hdr.fmt) /\ ~Direct(hdr.fmt) -> FramesRead(w)
                [] OTHER -> 0
  BY <1>2 DEF Round
<1> HIDE DEF want, w
<1>6. /\ FramesRead(want) \in Nat /\ FramesRead(want) <= want /\ FramesRead(want) * p <= left
      /\ FramesRead(w) \in Nat /\ FramesRead(w) <= w /\ FramesRead(w) * p <= left
  BY <1>3, <1>4, FramesReadBounds
<1> DEFINE A == FramesRead(want)
           B == FramesRead(w)
           R == Round
<1>7. A \in Nat /\ A <= want /\ A * p <= left /\ B \in Nat /\ B <= w /\ B * p <= left
  BY <1>6
<1>8. R \in Nat /\ R <= want /\ R * p <= left /\ (R > 0 => Decodes(hdr.fmt))
  <2>1. CASE Direct(hdr.fmt)
    <3>1. R = A
      BY <1>5, <2>1
    <3> QED BY <1>7, <2>1, <3>1 DEF Decodes
  <2>2. CASE Decodes(hdr.fmt) /\ ~Direct(hdr.fmt)
    <3>1. R = B
      BY <1>5, <2>2
    <3> HIDE DEF R, B
    <3> QED BY <1>3, <1>4, <1>7, <2>2, <3>1
  <2>3. CASE ~Decodes(hdr.fmt)
    <3>1. ~Direct(hdr.fmt)
      BY <2>3 DEF Decodes
    <3>2. R = 0
      BY <1>5, <2>3, <3>1
    <3>3. 0 * p = 0
      BY <1>1
    <3> HIDE DEF R, p
    <3> QED BY <1>3, <2>3, <3>2, <3>3
  <2> QED BY <2>1, <2>2, <2>3
<1> QED BY <1>2, <1>3, <1>8 DEF want

LEMMA OnKeeps ==
  ASSUME WavAssumption, WavInv, wavStage \in {"pcm", "adpcm", "read"},
         file' = file, hdr' = hdr, total' = total,
         wavStage' \in {"pcm", "adpcm", "read", "done"}, position' \in Nat,
         PcmReads', AdpcmReads', ReadDone'
  PROVE  WavInv'
<1>1. WavTypes'
  BY DEF WavInv, WavTypes, WavStages
<1>2. HeaderTrue'
  BY DEF WavInv, HeaderTrue
<1>3. Walks'
  BY DEF Walks
<1>4. Described'
  <2>1. hdr.found = {"fmt", "data"} /\ Playable(hdr.fmt, Bytes) /\ total = TotalFrames(hdr.fmt, Bytes)
    BY DEF WavInv, Described
  <2>2. Bytes' = Bytes
    BY DEF Bytes, SoundBytes
  <2>3. Playable(hdr.fmt, Bytes)' /\ (total = TotalFrames(hdr.fmt, Bytes))'
    BY <2>1, <2>2 DEF Playable, TotalFrames, Stated
  <2> QED BY <2>1, <2>3 DEF Described
<1>5. NothingYet'
  BY DEF NothingYet
<1> QED BY <1>1, <1>2, <1>3, <1>4, <1>5 DEF WavInv

LEMMA ReadPcmKeeps ==
  ASSUME WavAssumption, WavInv, ReadPcm
  PROVE  WavInv'
<1> DEFINE fmt == hdr.fmt
           p == FrameBytes(fmt)
           R == Round
           s == SoundStart(file)
<1>1. /\ wavStage = "pcm" /\ R > 0
      /\ decoded' = decoded \o [i \in 1..R |-> PcmFrame(fmt, position + (i - 1) * p)]
      /\ position' = position + R * p /\ left' = left - R * p
      /\ wavStage' = IF Direct(fmt) THEN "read" ELSE wavStage
      /\ file' = file /\ hdr' = hdr /\ total' = total
  BY DEF ReadPcm, readVars
<1>2. Reading /\ KnownBytes
  BY <1>1, ReadingIs
<1>3. ~Compressed(fmt) /\ \E n \in Nat : PcmAt(n)
  BY <1>1 DEF WavInv, PcmReads
<1>4. PICK n \in Nat : PcmAt(n)
  BY <1>3
<1>5. /\ total - n \in Nat /\ left \in Nat /\ R \in Nat /\ R <= total - n
      /\ R * p <= left /\ Decodes(fmt)
  BY <1>1, <1>2, <1>4, RoundBounds
<1>6. /\ p \in Nat \ {0} /\ s \in Nat /\ total \in Nat /\ Bytes \in Nat
      /\ decoded = FramesUpTo(file, fmt, n) /\ position = s + n * p /\ left = Bytes - n * p
  BY <1>2, <1>4 DEF Reading, PcmAt
<1>7. (n + R) * p = n * p + R * p /\ n * p \in Nat /\ R * p \in Nat /\ n + R \in Nat
  <2> HIDE DEF p, R
  <2> QED BY <1>5, <1>6, ProductOf, ProductNat
<1>8. decoded' = FramesUpTo(file, fmt, n + R)
  <2>1. ASSUME NEW i \in 1..R
        PROVE PcmFrame(fmt, position + (i - 1) * p) = FrameOf(file, fmt, n + i - 1)
    <3> DEFINE k == n + i - 1
               a == k * p
               b == n * p
               d == (i - 1) * p
    <3>1. k \in Nat /\ i - 1 \in Nat
      <4> HIDE DEF R
      <4> QED BY <1>5
    <3>2. a = b + d /\ b \in Nat /\ d \in Nat
      <4> HIDE DEF p
      <4>1. k = n + (i - 1)
        BY <3>1
      <4>2. (n + (i - 1)) * p = n * p + (i - 1) * p
        BY <1>6, <3>1, ProductOf
      <4> QED BY <1>6, <3>1, <4>1, <4>2, ProductNat
    <3>3. FrameOf(file, fmt, k) = PcmFrame(fmt, s + a)
      BY <1>3, <3>1, PcmFrameIs
    <3> HIDE DEF a, b, d, p, s, fmt
    <3>4. position + d = s + a
      BY <1>6, <3>2 DEF b
    <3> QED BY <3>3, <3>4 DEF d
  <2>2. [i \in 1..R |-> PcmFrame(fmt, position + (i - 1) * p)] = FramesFrom(file, fmt, n, R)
    BY <2>1 DEF FramesFrom
  <2>3. FramesUpTo(file, fmt, n) \o FramesFrom(file, fmt, n, R) = FramesUpTo(file, fmt, n + R)
    BY <1>5, FramesJoin
  <2> QED BY <1>1, <1>6, <2>2, <2>3
<1>14. PICK r \in Nat : r = R
  BY <1>5
<1>15. n + r \in Nat /\ decoded' = FramesUpTo(file, fmt, n + r)
  BY <1>7, <1>8, <1>14
<1>9. PcmAt(n + r)'
  <2> DEFINE a == n * p
             b == R * p
             c == (n + R) * p
             B == Bytes
  <2>1. /\ c = a + b /\ a \in Nat /\ b \in Nat /\ position = s + a /\ left = B - a /\ b <= left
        /\ position' = position + b /\ left' = left - b /\ B \in Nat
    BY <1>1, <1>5, <1>6, <1>7
  <2>2. position' = s + c /\ left' = B - c /\ c <= B
    <3> HIDE DEF a, b, c, B, s
    <3> QED BY <1>6, <2>1 DEF s
  <2>3. n + R <= total
    <3> HIDE DEF R
    <3> QED BY <1>5, <1>6
  <2>4. Bytes' = Bytes
    BY <1>1, BytesStay
  <2>5. position' = s + (n + r) * p /\ left' = B - (n + r) * p /\ (n + r) * p <= B /\ n + r <= total
    BY <1>14, <2>2, <2>3
  <2> QED BY <1>1, <1>5, <1>15, <2>4, <2>5 DEF PcmAt
<1>10. PcmReads'
  <2>1. ~Compressed(hdr.fmt)'
    BY <1>1, <1>3
  <2> QED BY <1>9, <1>15, <2>1 DEF PcmReads
<1>11. AdpcmReads'
  BY <1>1 DEF AdpcmReads
<1>12. ReadDone'
  <2> SUFFICES ASSUME wavStage' = "read" PROVE Ended(n + r)'
    BY <1>1, <1>15 DEF ReadDone
  <2>1. Direct(fmt)
    BY <1>1
  <2> SUFFICES ASSUME EndKnown(file)
               PROVE  n + r = Least(total, SoundLength(file) \div p)
    BY <1>1, <1>3, <1>5 DEF Ended, KnownSound
  <2> DEFINE q == SoundLength(file) \div p
  <2>2. R = FramesRead(total - n)
    <3>1. total - Len(decoded) = total - n
      BY <1>2, <1>4, RoundBounds
    <3> QED BY <2>1, <3>1 DEF Round
  <2>3. q \in Nat /\ n <= q /\ FramesRead(total - n) = Least(total - n, q - n)
    BY <1>2, <1>3, <1>4, <1>5, FramesReadKnown
  <2>4. n + r = Least(total, q)
    <3> HIDE DEF q, R
    <3> QED BY <1>5, <1>6, <1>14, <2>2, <2>3 DEF Least
  <2> QED BY <2>4
<1>13. position' \in Nat
  <2> DEFINE a == n * p
             b == R * p
  <2>1. a \in Nat /\ b \in Nat /\ position' = s + a + b
    BY <1>1, <1>6, <1>7
  <2> HIDE DEF a, b, s
  <2> QED BY <1>6, <2>1 DEF s
<1> QED BY <1>1, <1>10, <1>11, <1>12, <1>13, OnKeeps

LEMMA EndPcmKeeps ==
  ASSUME WavAssumption, WavInv, EndPcm
  PROVE  WavInv'
<1> DEFINE fmt == hdr.fmt
           p == FrameBytes(fmt)
           q == SoundLength(file) \div p
<1>1. /\ wavStage = "pcm" /\ (Len(decoded) = total \/ Round = 0) /\ wavStage' = "read"
      /\ file' = file /\ hdr' = hdr /\ total' = total /\ position' = position /\ decoded' = decoded
  BY DEF EndPcm, readVars
<1>2. Reading /\ KnownBytes
  BY <1>1, ReadingIs
<1>3. ~Compressed(fmt) /\ \E n \in Nat : PcmAt(n)
  BY <1>1 DEF WavInv, PcmReads
<1>4. PICK n \in Nat : PcmAt(n)
  BY <1>3
<1>5. /\ decoded = FramesUpTo(file, fmt, n) /\ n <= total /\ (n = 0 \/ Decodes(fmt))
      /\ total \in Nat /\ p \in Nat \ {0} /\ position \in Nat
  BY <1>2, <1>4 DEF PcmAt, Reading
<1>6. Len(decoded) = n
  BY <1>5, FramesLen
<1>7. Ended(n)'
  <2> SUFFICES ASSUME EndKnown(file)
               PROVE  n = IF Decodes(fmt) THEN Least(total, q) ELSE 0
    BY <1>1, <1>3 DEF Ended, KnownSound
  <2> SUFFICES ASSUME Decodes(fmt) PROVE n = Least(total, q)
    BY <1>5
  <2>1. \A m \in Nat : q \in Nat /\ n <= q /\ FramesRead(m) = Least(m, q - n)
    BY <1>2, <1>3, <1>4, FramesReadKnown
  <2>2. q \in Nat /\ n <= q
    BY <2>1
  <2>3. CASE n = total
    <3> HIDE DEF q
    <3> QED BY <1>5, <2>2, <2>3 DEF Least
  <2>4. CASE n # total
    <3>1. Round = 0 /\ total - n \in Nat \ {0}
      BY <1>1, <1>5, <1>6, <2>4
    <3>2. CASE Direct(fmt)
      <4>1. FramesRead(total - n) = 0
        BY <1>6, <3>1, <3>2 DEF Round
      <4>2. FramesRead(total - n) = Least(total - n, q - n)
        BY <2>1, <3>1
      <4> HIDE DEF q
      <4> QED BY <1>5, <2>2, <3>1, <4>1, <4>2 DEF Least
    <3>3. CASE ~Direct(fmt)
      <4> DEFINE b == Buffer \div p
                 w == Least(total - n, b)
      <4>1. FramesRead(w) = 0
        BY <1>6, <3>1, <3>3 DEF Round
      <4>2. b \in Nat \ {0}
        <5>1. p <= Buffer /\ Buffer \in Nat
          BY <3>3 DEF Decodes, WavAssumption
        <5>2. b \in Nat /\ Buffer < p * b + p
          <6> HIDE DEF p
          <6> QED BY <1>5, <5>1, DivisionBounds
        <5>3. b = 0 => p * b = 0
          BY <1>5
        <5> HIDE DEF b, p
        <5> QED BY <1>5, <5>1, <5>2, <5>3
      <4>3. w \in Nat \ {0}
        <5> HIDE DEF b
        <5> QED BY <3>1, <4>2 DEF Least
      <4>4. FramesRead(w) = Least(w, q - n)
        BY <2>1, <4>3
      <4> HIDE DEF q, w
      <4> QED BY <1>5, <2>2, <3>1, <4>1, <4>3, <4>4 DEF Least
    <3> QED BY <3>2, <3>3
  <2> QED BY <2>3, <2>4
<1>8. ReadDone'
  BY <1>1, <1>5, <1>7 DEF ReadDone
<1>9. PcmReads' /\ AdpcmReads'
  BY <1>1 DEF PcmReads, AdpcmReads
<1> QED BY <1>1, <1>5, <1>8, <1>9, OnKeeps

LEMMA UninitKeeps ==
  ASSUME WavAssumption, WavInv, Uninit
  PROVE  WavInv'
<1>1. wavStage = "read" /\ wavStage' = "done" /\ UNCHANGED <<file, position, hdr, parseVars>>
  BY DEF Uninit
<1>2. PcmReads' /\ AdpcmReads' /\ ReadDone'
  BY <1>1 DEF PcmReads, AdpcmReads, ReadDone
<1>3. position \in Nat
  BY <1>1, ReadingIs DEF Reading
<1> QED BY <1>1, <1>2, <1>3, OnKeeps DEF parseVars

(***************************************************************************)
(* ADPCM: a block is its heads, then groups of as many bytes; the frames   *)
(* of either are those that FrameOf looks for at their places.             *)
(***************************************************************************)
(* The shape of an ADPCM block: heads, then D groups. *)
Shape(fmt, D) ==
  /\ fmt.channels \in {1, 2} /\ fmt.tag \in {"ms", "ima"} /\ D \in Nat
  /\ HeadBytes(fmt) \in Nat \ {0} /\ GroupBytes(fmt) \in Nat \ {0}
  /\ GroupFrames(fmt) \in Nat \ {0} /\ Heads(fmt) \in Nat \ {0}
  /\ fmt.align = HeadBytes(fmt) + GroupBytes(fmt) * D
  /\ PerBlock(fmt) = Heads(fmt) + GroupFrames(fmt) * D

LEMMA CompressedFormat ==
  ASSUME NEW fmt, IsFormat(fmt), Valid(fmt), Compressed(fmt)
  PROVE  /\ fmt.tag \in {"ms", "ima"} /\ fmt.channels \in {1, 2} /\ fmt.align \in Nat \ {0}
         /\ fmt.align >= HeadBytes(fmt) /\ (fmt.tag = "ima" => fmt.align % (4 * fmt.channels) = 0)
<1>1. fmt.tag \in {"ms", "ima"} /\ fmt.channels \in Nat /\ fmt.align \in Nat
  BY DEF IsFormat, Compressed
<1>2. fmt.channels \in 1..256 /\ fmt.channels <= 2 /\ fmt.align # 0
  BY DEF Valid
<1>3. fmt.channels \in {1, 2}
  BY <1>1, <1>2
<1> QED BY <1>1, <1>2, <1>3 DEF IsFormat

LEMMA ShapeTypes ==
  ASSUME NEW fmt, fmt.channels \in {1, 2}
  PROVE  /\ HeadBytes(fmt) \in Nat \ {0} /\ GroupBytes(fmt) \in Nat \ {0}
         /\ GroupFrames(fmt) \in Nat \ {0} /\ Heads(fmt) \in Nat \ {0}
BY DEF HeadBytes, GroupBytes, GroupFrames, Heads

LEMMA FramesOfGroups ==
  ASSUME NEW fmt, fmt.channels \in {1, 2}, fmt.tag \in {"ms", "ima"}, NEW d \in Nat
  PROVE  FramesOfBlock(fmt, HeadBytes(fmt) + GroupBytes(fmt) * d) = Heads(fmt) + GroupFrames(fmt) * d
<1> DEFINE x == HeadBytes(fmt) + GroupBytes(fmt) * d
           g == GroupBytes(fmt) * d
<1>1. g \in Nat /\ HeadBytes(fmt) \in Nat \ {0}
  BY ShapeTypes
<1>2. x # 0 /\ x - HeadBytes(fmt) = g
  <2> DEFINE h == HeadBytes(fmt)
  <2>1. x = h + g /\ h \in Nat \ {0}
    BY <1>1
  <2> HIDE DEF x, g, h
  <2>2. x # 0 /\ x - h = g
    BY <1>1, <2>1
  <2> QED BY <2>2 DEF h
<1>3. FramesOfBlock(fmt, x) = Heads(fmt) + ((g * 2) \div fmt.channels)
  <2> HIDE DEF x, g
  <2> QED BY <1>2 DEF FramesOfBlock, Heads
<1>4. (g * 2) \div fmt.channels = GroupFrames(fmt) * d
  <2>1. CASE fmt.tag = "ms" /\ fmt.channels = 1
    BY <2>1 DEF GroupBytes, GroupFrames
  <2>2. CASE fmt.tag = "ms" /\ fmt.channels = 2
    BY <2>2 DEF GroupBytes, GroupFrames
  <2>3. CASE fmt.tag = "ima" /\ fmt.channels = 1
    BY <2>3 DEF GroupBytes, GroupFrames
  <2>4. CASE fmt.tag = "ima" /\ fmt.channels = 2
    BY <2>4 DEF GroupBytes, GroupFrames
  <2> QED BY <2>1, <2>2, <2>3, <2>4
<1> QED BY <1>3, <1>4

LEMMA BlockShape ==
  ASSUME NEW fmt, IsFormat(fmt), Valid(fmt), Compressed(fmt)
  PROVE  \E D \in Nat : Shape(fmt, D)
<1>1. /\ fmt.tag \in {"ms", "ima"} /\ fmt.channels \in {1, 2} /\ fmt.align \in Nat \ {0}
      /\ fmt.align >= HeadBytes(fmt) /\ (fmt.tag = "ima" => fmt.align % (4 * fmt.channels) = 0)
  BY CompressedFormat
<1>2. \E D \in Nat : fmt.align = HeadBytes(fmt) + GroupBytes(fmt) * D
  <2> DEFINE a == fmt.align
             h == HeadBytes(fmt)
  <2>1. CASE fmt.tag = "ms"
    <3>1. h \in Nat /\ a \in Nat /\ a >= h
      BY <1>1, ShapeTypes
    <3> HIDE DEF a, h
    <3>2. a - h \in Nat /\ a = h + 1 * (a - h)
      BY <3>1
    <3> QED BY <2>1, <3>2 DEF GroupBytes, a, h
  <2>2. CASE fmt.tag = "ima"
    <3> DEFINE g == 4 * fmt.channels
               q == a \div g
    <3>1. g \in Nat \ {0} /\ a \in Nat \ {0} /\ a >= g /\ a % g = 0 /\ h = g /\ GroupBytes(fmt) = g
      BY <1>1, <2>2 DEF HeadBytes, GroupBytes
    <3> HIDE DEF a, g, h
    <3>2. q \in Nat /\ a = q * g + (a % g)
      BY <3>1, DivisionOf, ZenonT(90)
    <3>3. a = q * g /\ q # 0
      BY <3>1, <3>2
    <3>4. q - 1 \in Nat /\ a = g + g * (q - 1)
      BY <3>1, <3>2, <3>3
    <3> QED BY <3>1, <3>4 DEF a, h
  <2> QED BY <1>1, <2>1, <2>2
<1>3. PICK D \in Nat : fmt.align = HeadBytes(fmt) + GroupBytes(fmt) * D
  BY <1>2
<1>4. PerBlock(fmt) = Heads(fmt) + GroupFrames(fmt) * D
  BY <1>1, <1>3, FramesOfGroups DEF PerBlock
<1>5. Shape(fmt, D)
  BY <1>1, <1>3, <1>4, ShapeTypes DEF Shape
<1> QED BY <1>5

\* The frame at place r of block nb.
LEMMA PlaceInBlock ==
  ASSUME NEW p \in Nat \ {0}, NEW nb \in Nat, NEW r \in Nat, r < p
  PROVE  (nb * p + r) \div p = nb /\ (nb * p + r) % p = r /\ nb * p + r \in Nat
<1>1. r \in 0..(p - 1)
  OBVIOUS
<1> QED BY <1>1, DivisionUnique

LEMMA HeadFrameIs ==
  ASSUME NEW f, NEW fmt, NEW D, Shape(fmt, D), NEW nb \in Nat, NEW i \in 1..Heads(fmt)
  PROVE  HeadFrames(fmt, SoundStart(f) + nb * fmt.align)[i]
           = FrameOf(f, fmt, nb * PerBlock(fmt) + (i - 1))
<1> DEFINE p == PerBlock(fmt)
           r == i - 1
           k == nb * p + r
           s == SoundStart(f) + nb * fmt.align
<1>1. Compressed(fmt) /\ Heads(fmt) \in Nat \ {0} /\ r \in Nat /\ r < Heads(fmt)
  BY DEF Shape, Compressed
<1>2. p \in Nat \ {0} /\ r < p
  <2> DEFINE h == Heads(fmt)
             g == GroupFrames(fmt) * D
  <2>1. h \in Nat \ {0} /\ g \in Nat /\ p = h + g
    BY ProductNat DEF Shape
  <2> HIDE DEF h, g, p
  <2> QED BY <1>1, <2>1 DEF h
<1>3. k \div p = nb /\ k % p = r
  <2> HIDE DEF p, r
  <2> QED BY <1>1, <1>2, PlaceInBlock
<1>4. i \in 1..(IF fmt.tag = "ms" THEN 2 ELSE 1) /\ r < (IF fmt.tag = "ms" THEN 2 ELSE 1)
  BY <1>1 DEF Heads
<1>5. HeadFrames(fmt, s)[i] = [c \in 1..fmt.channels |-> <<s, r * fmt.channels + c>>]
  <2> HIDE DEF s
  <2> QED BY <1>4 DEF HeadFrames
<1> HIDE DEF k, r
<1>6. FrameOf(f, fmt, k) = [c \in 1..fmt.channels |-> <<s, r * fmt.channels + c>>]
  BY <1>1, <1>3, <1>4 DEF FrameOf, PerBlock
<1> QED BY <1>5, <1>6 DEF k, r

\* The frames of the bytes at p.
GroupAt(fmt, p) == IF fmt.tag = "ms" THEN MsFrames(fmt, p) ELSE ImaFrames(fmt, p)

\* Where in FrameOf the i-th frame of a block's d-th group is looked for.
LEMMA GroupPlace ==
  ASSUME NEW fmt, NEW D, Shape(fmt, D), NEW nb \in Nat, NEW d \in 0..(D - 1),
         NEW i \in 1..GroupFrames(fmt),
         NEW k, k = nb * PerBlock(fmt) + (Heads(fmt) + GroupFrames(fmt) * d + (i - 1))
  PROVE  /\ k \div PerBlock(fmt) = nb /\ k \in Nat
         /\ k % PerBlock(fmt) \in Nat /\ k % PerBlock(fmt) >= Heads(fmt)
         /\ (k % PerBlock(fmt)) - Heads(fmt) = GroupFrames(fmt) * d + (i - 1)
<1> DEFINE p == PerBlock(fmt)
           h == Heads(fmt)
           e == GroupFrames(fmt)
           a == e * d
           b == e * D
           r == h + a + (i - 1)
<1>1. /\ h \in Nat \ {0} /\ e \in Nat \ {0} /\ D \in Nat /\ p = h + b /\ d \in Nat /\ d + 1 <= D
  BY DEF Shape
<1>2. a \in Nat /\ b \in Nat /\ a + e <= b
  <2> HIDE DEF e
  <2>1. a \in Nat /\ b \in Nat
    BY <1>1, ProductNat
  <2>2. e * (d + 1) <= e * D
    BY <1>1, ProductMonotone
  <2>3. e * (d + 1) = e * d + e
    BY <1>1
  <2> QED BY <2>1, <2>2, <2>3
<1>3. i \in 1..e
  OBVIOUS
<1> HIDE DEF a, b, e, h
<1>4. r \in Nat /\ r < p /\ p \in Nat \ {0} /\ r >= h /\ r - h = a + (i - 1)
  <2> HIDE DEF p
  <2> QED BY <1>1, <1>2, <1>3
<1>5. k = nb * p + r
  BY DEF p, h, e, a
<1> HIDE DEF p, r
<1>6. k \div p = nb /\ k % p = r /\ k \in Nat
  BY <1>4, <1>5, PlaceInBlock
<1>7. k % p \in Nat /\ k % p >= h /\ (k % p) - h = a + (i - 1)
  BY <1>4, <1>6
<1> QED BY <1>6, <1>7 DEF p, h, e, a

LEMMA MsGroup ==
  ASSUME NEW f, NEW fmt, NEW D, Shape(fmt, D), fmt.tag = "ms", NEW nb \in Nat, NEW d \in 0..(D - 1),
         NEW i \in 1..GroupFrames(fmt),
         NEW k, k = nb * PerBlock(fmt) + (Heads(fmt) + GroupFrames(fmt) * d + (i - 1)),
         NEW x, x = SoundStart(f) + nb * fmt.align + HeadBytes(fmt) + GroupBytes(fmt) * d
  PROVE  MsFrames(fmt, x)[i] = FrameOf(f, fmt, k)
<1> DEFINE p == PerBlock(fmt)
           body == SoundStart(f) + nb * fmt.align + HeadBytes(fmt)
           b == (k % p) - Heads(fmt)
<1>1. k \div p = nb /\ k % p \in Nat /\ k % p >= Heads(fmt) /\ b = GroupFrames(fmt) * d + (i - 1)
  BY GroupPlace
<1>2. Compressed(fmt) /\ Heads(fmt) = 2 /\ Heads(fmt) \in Nat /\ k % p \in Int
  <2>1. Heads(fmt) = 2 /\ b \in Int
    BY <1>1 DEF Heads, GroupFrames, Shape
  <2> QED BY <1>1, <2>1 DEF Compressed
<1>3. ~(k % p < 2)
  BY <1>1, <1>2
<1>4. CASE fmt.channels = 1
  <2>1. b = d * 2 + (i - 1) /\ i \in 1..2 /\ d \in Nat
    BY <1>1, <1>4 DEF GroupFrames, Shape
  <2>2. b \div 2 = d /\ b % 2 = i - 1
    <3> HIDE DEF b
    <3> QED BY <2>1, PlaceInBlock
  <2>3. x = body + d
    BY <1>4 DEF GroupBytes
  <2>4. FrameOf(f, fmt, k) = [c \in 1..fmt.channels |-> <<body + (b \div 2), 1 + (b % 2)>>]
    <3> USE <1>1, <1>2, <1>3, <1>4
    <3> QED BY DEF FrameOf, PerBlock, Heads
  <2>5. FrameOf(f, fmt, k) = [c \in 1..1 |-> <<x, i>>]
    <3>1. 1 + (b % 2) = i
      <4> HIDE DEF b
      <4> QED BY <2>1, <2>2
    <3> HIDE DEF b, body
    <3> QED BY <1>4, <2>2, <2>3, <2>4, <3>1
  <2>6. MsFrames(fmt, x)[i] = <<<<x, i>>>>
    BY <1>4, <2>1 DEF MsFrames
  <2> QED BY <2>5, <2>6
<1>5. CASE fmt.channels = 2
  <2>1. b = d /\ i = 1 /\ d \in Nat
    BY <1>1, <1>5 DEF GroupFrames, Shape
  <2>2. x = body + d
    BY <1>5 DEF GroupBytes
  <2>3. FrameOf(f, fmt, k) = [c \in 1..fmt.channels |-> <<body + b, c>>]
    <3> USE <1>1, <1>2, <1>3, <1>5
    <3> QED BY DEF FrameOf, PerBlock, Heads
  <2>4. FrameOf(f, fmt, k) = [c \in 1..2 |-> <<x, c>>]
    <3> HIDE DEF b, body
    <3> QED BY <1>5, <2>1, <2>2, <2>3
  <2>5. MsFrames(fmt, x)[i] = <<<<x, 1>>, <<x, 2>>>>
    BY <1>5, <2>1 DEF MsFrames
  <2> QED BY <2>4, <2>5
<1> QED BY <1>4, <1>5 DEF Shape

LEMMA ImaGroup ==
  ASSUME NEW f, NEW fmt, NEW D, Shape(fmt, D), fmt.tag = "ima", NEW nb \in Nat, NEW d \in 0..(D - 1),
         NEW i \in 1..GroupFrames(fmt),
         NEW k, k = nb * PerBlock(fmt) + (Heads(fmt) + GroupFrames(fmt) * d + (i - 1)),
         NEW x, x = SoundStart(f) + nb * fmt.align + HeadBytes(fmt) + GroupBytes(fmt) * d
  PROVE  ImaFrames(fmt, x)[i] = FrameOf(f, fmt, k)
<1> DEFINE p == PerBlock(fmt)
           body == SoundStart(f) + nb * fmt.align + HeadBytes(fmt)
           b == (k % p) - Heads(fmt)
           j == i - 1
<1>1. k \div p = nb /\ k % p \in Nat /\ k % p >= Heads(fmt) /\ b = GroupFrames(fmt) * d + j
  BY GroupPlace
<1>2. /\ Compressed(fmt) /\ Heads(fmt) = 1 /\ k % p \in Int /\ i \in 1..8 /\ d \in Nat
      /\ fmt.channels \in Nat
  <2>1. Heads(fmt) = 1 /\ i \in 1..8 /\ d \in Nat
    BY DEF Heads, GroupFrames, Shape
  <2> QED BY <1>1, <2>1 DEF Compressed, Shape
<1>3. ~(k % p < 1)
  BY <1>1, <1>2
<1>4. b = d * 8 + j /\ j \in 0..7
  BY <1>1, <1>2 DEF GroupFrames
<1>5. b \div 8 = d /\ b % 8 = j /\ b % 2 = j % 2
  <2> HIDE DEF b, j
  <2>1. b \div 8 = d /\ b % 8 = j
    <3>1. j \in Nat /\ j < 8
      BY <1>4
    <3> QED BY <1>2, <1>4, <3>1, PlaceInBlock
  <2>2. b % 2 = j % 2
    BY <1>2, <1>4
  <2> QED BY <2>1, <2>2
<1> DEFINE ch == fmt.channels
<1>6. FrameOf(f, fmt, k)
        = [c \in 1..fmt.channels |->
             <<body + (b \div 8) * 4 * ch + 4 * (c - 1) + ((b % 8) \div 2), 1 + (b % 2)>>]
  <2> USE <1>1, <1>2, <1>3
  <2> QED BY DEF FrameOf, PerBlock, Heads
<1>7. x = body + d * 4 * ch
  <2>1. (4 * ch) * d = d * 4 * ch
    <3> HIDE DEF ch
    <3> QED BY <1>2 DEF ch
  <2> QED BY <2>1 DEF GroupBytes
<1>8. FrameOf(f, fmt, k) = [c \in 1..fmt.channels |-> <<x + 4 * (c - 1) + (j \div 2), 1 + (j % 2)>>]
  <2> HIDE DEF b, body, j, ch
  <2> QED BY <1>5, <1>6, <1>7
<1>9. ImaFrames(fmt, x)[i] = [c \in 1..fmt.channels |-> <<x + 4 * (c - 1) + (j \div 2), 1 + (j % 2)>>]
  BY <1>2 DEF ImaFrames
<1> QED BY <1>8, <1>9

\* The frames of a block's heads, and of a group, follow those before them.
LEMMA HeadsAre ==
  ASSUME NEW f, NEW fmt, NEW D, Shape(fmt, D), NEW nb \in Nat, NEW n, n = nb * PerBlock(fmt)
  PROVE  HeadFrames(fmt, SoundStart(f) + nb * fmt.align) = FramesFrom(f, fmt, n, Heads(fmt))
<1> DEFINE p == SoundStart(f) + nb * fmt.align
<1>1. \A i \in 1..Heads(fmt) : HeadFrames(fmt, p)[i] = FrameOf(f, fmt, nb * PerBlock(fmt) + (i - 1))
  BY HeadFrameIs
<1>2. HeadFrames(fmt, p) = [i \in 1..Heads(fmt) |-> HeadFrames(fmt, p)[i]]
  <2> HIDE DEF p
  <2> QED BY DEF HeadFrames, Heads
<1>3. n \in Nat /\ \A i \in 1..Heads(fmt) : n + (i - 1) = n + i - 1
  <2>1. PerBlock(fmt) \in Nat /\ Heads(fmt) \in Nat
    <3>1. GroupFrames(fmt) * D \in Nat
      BY ProductNat DEF Shape
    <3> QED BY <3>1 DEF Shape
  <2>2. n \in Nat
    BY <2>1, ProductNat
  <2> QED BY <2>1, <2>2
<1> HIDE DEF p
<1>4. \A i \in 1..Heads(fmt) : HeadFrames(fmt, p)[i] = FrameOf(f, fmt, n + i - 1)
  BY <1>1, <1>3
<1> QED BY <1>2, <1>4 DEF FramesFrom, p

LEMMA GroupIs ==
  ASSUME NEW f, NEW fmt, NEW D, Shape(fmt, D), NEW nb \in Nat, NEW d \in 0..(D - 1),
         NEW n, n = nb * PerBlock(fmt) + Heads(fmt) + GroupFrames(fmt) * d,
         NEW x, x = SoundStart(f) + nb * fmt.align + HeadBytes(fmt) + GroupBytes(fmt) * d
  PROVE  GroupAt(fmt, x) = FramesFrom(f, fmt, n, GroupFrames(fmt))
<1> DEFINE e == GroupFrames(fmt)
           k(i) == nb * PerBlock(fmt) + (Heads(fmt) + GroupFrames(fmt) * d + (i - 1))
<1>1. \A i \in 1..e : k(i) = n + i - 1
  <2> DEFINE a == nb * PerBlock(fmt)
             h == Heads(fmt)
             b == GroupFrames(fmt) * d
  <2>1. a \in Nat /\ h \in Nat /\ b \in Nat /\ e \in Nat
    <3>1. GroupFrames(fmt) * D \in Nat
      BY ProductNat DEF Shape
    <3>2. PerBlock(fmt) \in Nat
      BY <3>1 DEF Shape
    <3> QED BY <3>2, ProductNat DEF Shape
  <2>2. n = a + h + b
    OBVIOUS
  <2>3. \A i \in 1..e : k(i) = a + (h + b + (i - 1))
    OBVIOUS
  <2> HIDE DEF a, h, b, e, k
  <2> QED BY <2>1, <2>2, <2>3
<1>2. \A i \in 1..e : GroupAt(fmt, x)[i] = FrameOf(f, fmt, n + i - 1)
  <2> SUFFICES ASSUME NEW i \in 1..e PROVE GroupAt(fmt, x)[i] = FrameOf(f, fmt, k(i))
    BY <1>1
  <2>1. CASE fmt.tag = "ms"
    <3>1. MsFrames(fmt, x)[i] = FrameOf(f, fmt, k(i))
      BY <2>1, MsGroup
    <3> QED BY <2>1, <3>1 DEF GroupAt
  <2>2. CASE fmt.tag = "ima"
    <3>1. ImaFrames(fmt, x)[i] = FrameOf(f, fmt, k(i))
      BY <2>2, ImaGroup
    <3> QED BY <2>2, <3>1 DEF GroupAt
  <2> QED BY <2>1, <2>2 DEF Shape
<1>3. GroupAt(fmt, x) = [i \in 1..e |-> GroupAt(fmt, x)[i]]
  <2>1. CASE fmt.tag = "ima"
    BY <2>1 DEF GroupAt, ImaFrames, GroupFrames
  <2>2. CASE fmt.tag = "ms" /\ fmt.channels = 1
    BY <2>2 DEF GroupAt, MsFrames, GroupFrames
  <2>3. CASE fmt.tag = "ms" /\ fmt.channels = 2
    BY <2>3 DEF GroupAt, MsFrames, GroupFrames
  <2> QED BY <2>1, <2>2, <2>3 DEF Shape
<1> QED BY <1>2, <1>3 DEF FramesFrom

(***************************************************************************)
(* A sound that ends with a block or a group has the bytes of every frame  *)
(* that its size counts, so no call returns short of it.                   *)
(***************************************************************************)
\* The sound is q whole blocks, then nothing or the heads and x groups of another.
Ends(fmt, l, D, q, m) ==
  /\ q \in Nat /\ m \in Nat /\ FramesIn(fmt, l) = q * PerBlock(fmt) + m
  /\ \/ m = 0 /\ l = q * fmt.align
     \/ \E x \in 0..(D - 1) : /\ m = Heads(fmt) + GroupFrames(fmt) * x
                              /\ l = q * fmt.align + (HeadBytes(fmt) + GroupBytes(fmt) * x)

LEMMA SoundEnds ==
  ASSUME NEW fmt, NEW D, Shape(fmt, D), NEW l \in Nat, WholeBlocks(fmt, l)
  PROVE  \E q, m \in Nat : Ends(fmt, l, D, q, m)
<1> DEFINE a == fmt.align
           h == HeadBytes(fmt)
           g == GroupBytes(fmt)
           q == l \div a
           r == l % a
           x == (r - h) \div g
<1>1. /\ h \in Nat \ {0} /\ g \in Nat \ {0} /\ D \in Nat /\ g * D \in Nat /\ a = h + g * D
      /\ fmt.channels \in {1, 2} /\ fmt.tag \in {"ms", "ima"}
  BY ProductNat DEF Shape
<1>2. a \in Nat \ {0}
  <2> DEFINE gd == g * D
  <2> HIDE DEF gd, h, a
  <2> QED BY <1>1 DEF gd
<1>3. q \in Nat /\ r \in 0..(a - 1) /\ l = q * a + r
  <2> HIDE DEF a
  <2> QED BY <1>2, DivisionOf
<1>4. r # 0 => r >= h /\ ((r - h) % g) = 0
  BY DEF WholeBlocks
<1>5. FramesIn(fmt, l) = q * PerBlock(fmt) + FramesOfBlock(fmt, r)
  BY <1>1 DEF FramesIn, Compressed, PerBlock
<1> HIDE DEF q, r
<1>6. CASE r = 0
  <2>1. FramesOfBlock(fmt, r) = 0 /\ l = q * a
    <3>1. q * a \in Nat
      BY <1>2, <1>3, ProductNat
    <3>2. FramesOfBlock(fmt, r) = 0
      BY <1>6 DEF FramesOfBlock
    <3> QED BY <1>3, <1>6, <3>1, <3>2
  <2>2. Ends(fmt, l, D, q, 0)
    BY <1>3, <1>5, <2>1 DEF Ends
  <2> QED BY <1>3, <2>2
<1>7. CASE r # 0
  <2>1. r - h \in Nat /\ ((r - h) % g) = 0
    <3> HIDE DEF h, a
    <3> QED BY <1>1, <1>3, <1>4, <1>7
  <2>2. x \in Nat /\ r - h = x * g + ((r - h) % g)
    <3> HIDE DEF h, g
    <3> QED BY <1>1, <2>1, DivisionOf
  <2> HIDE DEF x
  <2>3. r = h + g * x
    <3>1. x * g = g * x /\ x * g \in Nat
      BY <1>1, <2>2
    <3> DEFINE xg == x * g
    <3> HIDE DEF h, xg
    <3> QED BY <1>1, <1>3, <2>1, <2>2, <3>1 DEF xg
  <2>4. x \in 0..(D - 1)
    <3> SUFFICES ASSUME D <= x PROVE FALSE
      BY <1>1, <2>2
    <3> DEFINE gd == g * D
               gx == g * x
    <3>1. gd <= gx
      BY <1>1, <2>2, ProductMonotone
    <3>2. gd \in Nat /\ gx \in Nat /\ a = h + gd /\ r = h + gx
      BY <1>1, <2>2, <2>3, ProductNat
    <3> HIDE DEF gd, gx, h, a
    <3> QED BY <1>1, <1>3, <3>1, <3>2
  <2> DEFINE m == Heads(fmt) + GroupFrames(fmt) * x
  <2>5. FramesOfBlock(fmt, r) = m
    BY <1>1, <2>2, <2>3, FramesOfGroups
  <2>6. m \in Nat
    <3>1. Heads(fmt) \in Nat /\ GroupFrames(fmt) * x \in Nat
      BY <2>2, ProductNat DEF Shape
    <3> QED BY <3>1
  <2>7. Ends(fmt, l, D, q, m)
    BY <1>3, <1>5, <2>3, <2>4, <2>5, <2>6 DEF Ends
  <2> QED BY <1>3, <2>6, <2>7
<1> QED BY <1>6, <1>7

\* Blocks before the one that holds the last frame end before the sound does.
LEMMA BlockBefore ==
  ASSUME NEW fmt, NEW D, Shape(fmt, D), NEW l \in Nat, NEW q \in Nat, NEW m \in Nat, Ends(fmt, l, D, q, m),
         NEW nb \in Nat, nb * PerBlock(fmt) < FramesIn(fmt, l)
  PROVE  nb = q \/ nb * fmt.align + fmt.align <= l
<1> DEFINE a == fmt.align
           p == PerBlock(fmt)
           h == HeadBytes(fmt)
           g == GroupBytes(fmt)
           e == GroupFrames(fmt)
           k == Heads(fmt)
<1>1. /\ h \in Nat \ {0} /\ g \in Nat \ {0} /\ e \in Nat \ {0} /\ k \in Nat \ {0} /\ D \in Nat
      /\ a = h + g * D /\ p = k + e * D
  BY DEF Shape
<1>2. g * D \in Nat /\ e * D \in Nat /\ a \in Nat /\ p \in Nat
  BY <1>1, ProductNat
<1>3. FramesIn(fmt, l) = q * p + m
  BY DEF Ends
<1>4. m <= p /\ q * a <= l
  <2>1. CASE m = 0 /\ l = q * a
    BY <1>2, <2>1
  <2>2. CASE \E x \in 0..(D - 1) : m = k + e * x /\ l = q * a + (h + g * x)
    <3>1. PICK x \in 0..(D - 1) : m = k + e * x /\ l = q * a + (h + g * x)
      BY <2>2
    <3> DEFINE ex == e * x
               ed == e * D
               gx == g * x
               qa == q * a
    <3>2. ex \in Nat /\ gx \in Nat /\ ex <= ed /\ ed \in Nat /\ qa \in Nat
      <4>1. x \in Nat /\ x <= D
        BY <1>1
      <4> HIDE DEF e, g, a
      <4> QED BY <1>1, <1>2, <4>1, ProductNat, ProductMonotone
    <3>3. m = k + ex /\ l = qa + (h + gx) /\ p = k + ed
      BY <1>1, <3>1
    <3> HIDE DEF ex, ed, gx, qa, k, p, h
    <3>4. m <= p /\ qa <= l
      BY <1>1, <3>2, <3>3
    <3> QED BY <3>4 DEF qa
  <2> QED BY <2>1, <2>2 DEF Ends
<1> HIDE DEF a, p
<1>5. nb <= q
  <2> SUFFICES ASSUME q + 1 <= nb PROVE FALSE
    OBVIOUS
  <2> DEFINE np == p * nb
             qp == p * q
  <2>1. p * (q + 1) <= np /\ p * (q + 1) = qp + p
    BY <1>2, ProductMonotone
  <2>2. np \in Nat /\ qp \in Nat /\ nb * p = np /\ q * p = qp
    BY <1>2
  <2>3. np < qp + m
    BY <1>3, <2>2 DEF p
  <2> HIDE DEF np, qp
  <2> QED BY <1>2, <1>4, <2>1, <2>2, <2>3
<1>6. CASE nb # q
  <2> DEFINE na == nb * a
             qa == q * a
  <2>1. a * (nb + 1) <= a * q
    BY <1>2, <1>5, <1>6, ProductMonotone
  <2>2. a * (nb + 1) = na + a /\ a * q = qa /\ na \in Nat /\ qa \in Nat
    BY <1>2
  <2> HIDE DEF na, qa
  <2>3. na + a <= l
    BY <1>2, <1>4, <2>1, <2>2 DEF qa
  <2> QED BY <2>3 DEF na, a
<1> QED BY <1>6

LEMMA RoomForHeads ==
  ASSUME NEW fmt, NEW D, Shape(fmt, D), NEW l \in Nat, WholeBlocks(fmt, l),
         NEW nb \in Nat, nb * PerBlock(fmt) < FramesIn(fmt, l)
  PROVE  nb * fmt.align + HeadBytes(fmt) <= l
<1>1. PICK q, m \in Nat : Ends(fmt, l, D, q, m)
  BY SoundEnds
<1> DEFINE a == fmt.align
           p == PerBlock(fmt)
           h == HeadBytes(fmt)
           g == GroupBytes(fmt)
           na == nb * a
<1>2. h \in Nat /\ g \in Nat /\ g * D \in Nat /\ a = h + g * D
  BY ProductNat DEF Shape
<1>3. a \in Nat /\ na \in Nat /\ h <= a
  <2> DEFINE gd == g * D
  <2>1. gd \in Nat /\ a = h + gd
    BY <1>2
  <2> HIDE DEF gd, h
  <2>2. a \in Nat /\ h <= a
    BY <1>2, <2>1
  <2> QED BY <2>2, ProductNat
<1>4. nb = q \/ na + a <= l
  BY <1>1, BlockBefore
<1>5. CASE nb # q
  <2> HIDE DEF na, a, h
  <2>1. na + h <= l
    BY <1>2, <1>3, <1>4, <1>5
  <2> QED BY <2>1 DEF na, a, h
<1>6. CASE nb = q
  <2>1. m # 0
    <3>1. FramesIn(fmt, l) = nb * p + m
      BY <1>1, <1>6 DEF Ends
    <3>2. nb * p \in Nat
      <4>1. p \in Nat
        <5>1. GroupFrames(fmt) * D \in Nat
          BY ProductNat DEF Shape
        <5> QED BY <5>1 DEF Shape
      <4> QED BY <4>1, ProductNat
    <3> DEFINE np == nb * p
    <3>3. np < np + m /\ np \in Nat
      BY <3>1, <3>2
    <3> HIDE DEF np
    <3> QED BY <3>3
  <2>2. PICK x \in 0..(D - 1) : l = q * a + (h + g * x)
    BY <1>1, <2>1 DEF Ends
  <2> DEFINE gx == g * x
  <2>3. gx \in Nat /\ l = na + (h + gx)
    <3>1. x \in Nat
      BY DEF Shape
    <3> QED BY <1>2, <1>6, <2>2, <3>1, ProductNat
  <2> HIDE DEF na, h, gx
  <2>4. na + h <= l
    BY <1>2, <1>3, <2>3
  <2> QED BY <2>4 DEF na, h
<1> QED BY <1>5, <1>6

LEMMA RoomForGroup ==
  ASSUME NEW fmt, NEW D, Shape(fmt, D), NEW l \in Nat, WholeBlocks(fmt, l), NEW nb \in Nat, NEW d \in 0..(D - 1),
         nb * PerBlock(fmt) + (Heads(fmt) + GroupFrames(fmt) * d) < FramesIn(fmt, l)
  PROVE  nb * fmt.align + (HeadBytes(fmt) + GroupBytes(fmt) * (d + 1)) <= l
<1>1. PICK q, m \in Nat : Ends(fmt, l, D, q, m)
  BY SoundEnds
<1> DEFINE a == fmt.align
           p == PerBlock(fmt)
           h == HeadBytes(fmt)
           g == GroupBytes(fmt)
           k == Heads(fmt)
           e == GroupFrames(fmt)
           na == nb * a
           np == nb * p
           b == h + g * (d + 1)
           c == k + e * d
<1>2. /\ h \in Nat /\ g \in Nat /\ k \in Nat /\ e \in Nat \ {0} /\ a = h + g * D /\ p = k + e * D
      /\ D \in Nat /\ d \in Nat /\ d + 1 \in Nat /\ d + 1 <= D
  BY DEF Shape
<1>3. g * (d + 1) <= g * D /\ g * (d + 1) \in Nat /\ g * D \in Nat /\ e * D \in Nat /\ e * d \in Nat
  <2> HIDE DEF g, e
  <2> QED BY <1>2, ProductMonotone, ProductNat
<1>4. a \in Nat /\ p \in Nat /\ b \in Nat /\ b <= a /\ c \in Nat
  <2> DEFINE gd == g * D
             g1 == g * (d + 1)
             ed == e * D
             e1 == e * d
  <2>1. gd \in Nat /\ g1 \in Nat /\ g1 <= gd /\ ed \in Nat /\ a = h + gd /\ b = h + g1 /\ p = k + ed
        /\ e1 \in Nat /\ c = k + e1
    BY <1>2, <1>3
  <2> HIDE DEF gd, g1, ed, h, k, a, b, p, c, e1
  <2> QED BY <1>2, <2>1
<1>5. na \in Nat /\ np \in Nat
  BY <1>4, ProductNat
<1>6. np < FramesIn(fmt, l) /\ FramesIn(fmt, l) \in Nat
  <2>1. FramesIn(fmt, l) = q * p + m
    BY <1>1 DEF Ends
  <2>2. q * p \in Nat
    BY <1>4, ProductNat
  <2>3. FramesIn(fmt, l) \in Nat
    BY <2>1, <2>2
  <2>4. np + c < FramesIn(fmt, l)
    OBVIOUS
  <2> HIDE DEF np, c
  <2> QED BY <1>4, <1>5, <2>3, <2>4
<1>7. nb = q \/ na + a <= l
  BY <1>1, <1>6, BlockBefore
<1>8. CASE nb # q
  <2> HIDE DEF na, a, b
  <2>1. na + b <= l
    BY <1>4, <1>5, <1>7, <1>8
  <2> QED BY <2>1 DEF na, a, b
<1>9. CASE nb = q
  <2>1. c < m
    <3>1. FramesIn(fmt, l) = np + m
      BY <1>1, <1>9 DEF Ends
    <3>2. np + c < np + m
      BY <3>1
    <3> HIDE DEF np, c
    <3> QED BY <1>4, <1>5, <3>2
  <2>2. PICK x \in 0..(D - 1) : m = k + e * x /\ l = q * a + (h + g * x)
    <3>1. m # 0
      <4> HIDE DEF c
      <4> QED BY <1>4, <2>1
    <3> QED BY <1>1, <3>1 DEF Ends
  <2>3. x \in Nat
    BY <1>2
  <2>4. d + 1 <= x
    <3> SUFFICES ASSUME x <= d PROVE FALSE
      BY <1>2, <2>3
    <3>1. e * x <= e * d
      <4> HIDE DEF e
      <4> QED BY <1>2, <2>3, ProductMonotone
    <3> DEFINE ex == e * x
               ed == e * d
    <3>2. ex \in Nat /\ ed \in Nat /\ ex <= ed /\ k + ed < k + ex
      <4>1. ex \in Nat
        BY <1>2, <2>3, ProductNat
      <4> QED BY <1>3, <2>1, <2>2, <3>1, <4>1
    <3> HIDE DEF ex, ed, k
    <3> QED BY <1>2, <3>2
  <2> DEFINE g1 == g * (d + 1)
             gx == g * x
  <2>5. g1 <= gx /\ g1 \in Nat /\ gx \in Nat /\ b = h + g1 /\ l = na + (h + gx)
    <3>1. g * (d + 1) <= g * x
      <4> HIDE DEF g
      <4> QED BY <1>2, <2>3, <2>4, ProductMonotone
    <3>2. g * x \in Nat
      <4> HIDE DEF g
      <4> QED BY <1>2, <2>3, ProductNat
    <3> QED BY <1>3, <1>9, <2>2, <3>1, <3>2
  <2> HIDE DEF g1, gx, na, b, h
  <2>6. na + b <= l
    BY <1>2, <1>5, <2>5
  <2> QED BY <2>6 DEF na, b, h
<1> QED BY <1>8, <1>9

LEMMA AdpcmFacts ==
  ASSUME WavAssumption, WavInv, wavStage = "adpcm"
  PROVE  /\ Reading /\ KnownBytes /\ Compressed(hdr.fmt)
         /\ (\E D \in Nat : Shape(hdr.fmt, D)) /\ (\E n \in Nat : AdpcmAt(n))
<1>1. Reading /\ KnownBytes
  BY ReadingIs
<1>2. Compressed(hdr.fmt) /\ \E n \in Nat : AdpcmAt(n)
  BY DEF WavInv, AdpcmReads
<1>3. \E D \in Nat : Shape(hdr.fmt, D)
  BY <1>1, <1>2, BlockShape DEF Reading
<1> QED BY <1>1, <1>2, <1>3

LEMMA AdpcmGoesOn ==
  ASSUME WavAssumption, WavInv, wavStage = "adpcm", file' = file, hdr' = hdr, total' = total,
         wavStage' = "adpcm", position' \in Nat, NEW n \in Nat, AdpcmAt(n)'
  PROVE  WavInv'
<1>1. Compressed(hdr.fmt)'
  BY DEF WavInv, AdpcmReads
<1>2. AdpcmReads'
  BY <1>1 DEF AdpcmReads
<1>3. PcmReads' /\ ReadDone'
  BY DEF PcmReads, ReadDone
<1> QED BY <1>2, <1>3, OnKeeps

LEMMA AdpcmEnds ==
  ASSUME WavAssumption, WavInv, wavStage = "adpcm", file' = file, hdr' = hdr, total' = total,
         wavStage' = "read", position' = position, decoded' = decoded,
         NEW n \in Nat, AdpcmAt(n),
         KnownSound /\ total <= FramesIn(hdr.fmt, SoundLength(file)) => n = total
  PROVE  WavInv'
<1>1. Compressed(hdr.fmt) /\ position \in Nat
  BY DEF WavInv, AdpcmReads, WavTypes
<1>2. Ended(n)'
  BY <1>1 DEF Ended, KnownSound
<1>3. decoded' = FramesUpTo(file', hdr'.fmt, n)
  BY DEF AdpcmAt
<1>4. ReadDone'
  BY <1>2, <1>3 DEF ReadDone
<1>5. PcmReads' /\ AdpcmReads'
  BY DEF PcmReads, AdpcmReads
<1> QED BY <1>1, <1>4, <1>5, OnKeeps

LEMMA ShortKeeps ==
  ASSUME WavAssumption, WavInv, wavStage = "adpcm", NEW n \in Nat, AdpcmAt(n), ReturnShort,
         file' = file, hdr' = hdr, total' = total, position' = position, block' = block,
         decoded' = decoded,
         ~(KnownSound /\ total <= FramesIn(hdr.fmt, SoundLength(file)))
  PROVE  WavInv'
<1>1. CASE wavStage' = "read"
  BY <1>1, AdpcmEnds
<1>2. CASE wavStage' # "read"
  <2>1. wavStage' = "adpcm" /\ call' = NoCall
    BY <1>2 DEF ReturnShort
  <2>2. n <= total /\ n + 0 <= total
    <3>1. call.want \in Nat /\ n + call.want <= total /\ total \in Nat
      BY ReadingIs DEF AdpcmAt, Reading
    <3> QED BY <3>1
  <2>3. call' = [want |-> call'.want, got |-> call'.got] /\ call'.want \in Nat /\ n + call'.want <= total
    BY <2>1, <2>2 DEF NoCall
  <2>4. \E nb \in Nat : \/ AtBoundary(file, hdr.fmt, n, nb)'
                        \/ \E d \in Nat : InBlock(file, hdr.fmt, n, nb, d)'
    BY DEF AdpcmAt, AtBoundary, InBlock
  <2>5. AdpcmAt(n)'
    BY <2>3, <2>4 DEF AdpcmAt
  <2>6. position \in Nat
    BY DEF WavInv, WavTypes
  <2> QED BY <2>1, <2>5, <2>6, AdpcmGoesOn
<1> QED BY <1>1, <1>2

LEMMA FramesFromLen ==
  ASSUME NEW f, NEW fmt, NEW n \in Nat, NEW m \in Nat
  PROVE  /\ Len(FramesFrom(f, fmt, n, m)) = m
         /\ FramesFrom(f, fmt, n, m) = <<>> => m = 0
<1> DEFINE T == {FrameOf(f, fmt, i) : i \in Nat}
           s == FramesFrom(f, fmt, n, m)
<1>1. s \in [1..m -> T]
  <2>1. \A i \in 1..m : n + i - 1 \in Nat
    OBVIOUS
  <2>2. \A i \in 1..m : FrameOf(f, fmt, n + i - 1) \in T
    BY <2>1
  <2> HIDE DEF T
  <2> QED BY <2>2 DEF FramesFrom
<1> HIDE DEF T, s
<1>2. Len(s) = m
  BY <1>1, AsSequence
<1> QED BY <1>2 DEF s

\* The first of some frames, and those after it.
LEMMA FramesTaken ==
  ASSUME NEW f, NEW fmt, NEW n \in Nat, NEW m \in Nat \ {0}
  PROVE  /\ Append(FramesUpTo(f, fmt, n), Head(FramesFrom(f, fmt, n, m))) = FramesUpTo(f, fmt, n + 1)
         /\ Tail(FramesFrom(f, fmt, n, m)) = FramesFrom(f, fmt, n + 1, m - 1)
<1> DEFINE T == {FrameOf(f, fmt, i) : i \in Nat}
           x == FramesUpTo(f, fmt, n)
           y == FramesFrom(f, fmt, n, m)
           z == FramesUpTo(f, fmt, n + 1)
           t == FramesFrom(f, fmt, n + 1, m - 1)
<1>1. \A i \in Nat : FrameOf(f, fmt, i) \in T
  OBVIOUS
<1> HIDE DEF T
<1>2. /\ \A i \in 1..n : i - 1 \in Nat /\ i \in 1..(n + 1)
      /\ \A i \in 1..m : n + i - 1 \in Nat
      /\ \A i \in 1..(n + 1) : i - 1 \in Nat
      /\ \A i \in 1..(m - 1) : (n + 1) + i - 1 \in Nat /\ i + 1 \in 1..m /\ n + (i + 1) - 1 = (n + 1) + i - 1
      /\ n + 1 \in 1..(n + 1) /\ (n + 1) - 1 = n /\ n + 1 - 1 = n /\ 1 \in 1..m
      /\ m - 1 \in Nat /\ n + 1 \in Nat /\ m \in Nat
  OBVIOUS
<1>3. x \in [1..n -> T] /\ y \in [1..m -> T] /\ z \in [1..(n + 1) -> T] /\ t \in [1..(m - 1) -> T]
  BY <1>1, <1>2 DEF FramesUpTo, FramesFrom
<1>4. /\ \A i \in 1..n : z[i] = x[i]
      /\ z[n + 1] = y[1]
      /\ \A i \in 1..(m - 1) : t[i] = y[i + 1]
  <2>1. \A i \in 1..n : z[i] = x[i]
    BY <1>2 DEF FramesUpTo
  <2>2. z[n + 1] = y[1]
    BY <1>2 DEF FramesUpTo, FramesFrom
  <2>3. \A i \in 1..(m - 1) : t[i] = y[i + 1]
    BY <1>2 DEF FramesFrom
  <2> QED BY <2>1, <2>2, <2>3
<1> HIDE DEF x, y, z, t
<1>5. /\ x \in Seq(T) /\ Len(x) = n /\ y \in Seq(T) /\ Len(y) = m /\ z \in Seq(T) /\ Len(z) = n + 1
      /\ t \in Seq(T) /\ Len(t) = m - 1
  BY <1>2, <1>3, AsSequence
<1>6. Append(x, Head(y)) = z
  <2> DEFINE w == Append(x, Head(y))
  <2>1. Head(y) = y[1] /\ y[1] \in T
    BY <1>2, <1>3, <1>5
  <2>2. w \in Seq(T) /\ Len(w) = n + 1 /\ \A i \in 1..(n + 1) : w[i] = IF i = n + 1 THEN Head(y) ELSE x[i]
    BY <1>5, <2>1
  <2>3. \A i \in 1..(n + 1) : w[i] = z[i]
    <3>1. \A i \in 1..(n + 1) : i = n + 1 \/ (i # n + 1 /\ i \in 1..n)
      OBVIOUS
    <3> HIDE DEF w
    <3> QED BY <1>4, <2>1, <2>2, <3>1
  <2> HIDE DEF w
  <2>4. w = z
    BY <1>5, <2>2, <2>3, SameSequence
  <2> QED BY <2>4 DEF w
<1>7. Tail(y) = t
  <2> DEFINE w == Tail(y)
  <2>1. y # <<>>
    BY <1>5
  <2>2. w \in Seq(T) /\ Len(w) = m - 1 /\ \A i \in 1..(m - 1) : w[i] = y[i + 1]
    BY <1>5, <2>1
  <2> HIDE DEF w
  <2>3. w = t
    BY <1>4, <1>5, <2>2, SameSequence
  <2> QED BY <2>3 DEF w
<1> QED BY <1>6, <1>7 DEF x, y, z, t

LEMMA BeginCallKeeps ==
  ASSUME WavAssumption, WavInv, BeginCall
  PROVE  WavInv'
<1> DEFINE c == hdr.fmt.channels
<1>1. /\ wavStage = "adpcm" /\ call.want = 0 /\ Len(decoded) < total
      /\ call' = [want |-> Least(total - Len(decoded), Shorts \div c), got |-> 0]
      /\ file' = file /\ hdr' = hdr /\ total' = total /\ wavStage' = wavStage /\ position' = position
      /\ block' = block /\ decoded' = decoded
  BY DEF BeginCall, readVars
<1>2. Reading /\ (\E n \in Nat : AdpcmAt(n))
  BY <1>1, AdpcmFacts
<1>3. PICK n \in Nat : AdpcmAt(n)
  BY <1>2
<1>4. decoded = FramesUpTo(file, hdr.fmt, n) /\ total \in Nat /\ c \in Nat \ {0} /\ position \in Nat
  BY <1>2, <1>3 DEF AdpcmAt, Reading
<1>5. Len(decoded) = n
  BY <1>4, FramesLen
<1>6. call'.want \in Nat /\ n + call'.want <= total /\ call' = [want |-> call'.want, got |-> call'.got]
  <2> DEFINE b == Shorts \div c
  <2>1. b \in Nat
    BY <1>4, DivisionBounds DEF WavAssumption
  <2>2. call'.want = Least(total - n, b) /\ call' = [want |-> call'.want, got |-> call'.got] /\ n < total
    BY <1>1, <1>5
  <2> HIDE DEF b
  <2> QED BY <1>4, <2>1, <2>2 DEF Least
<1>7. \E nb \in Nat : \/ AtBoundary(file, hdr.fmt, n, nb)'
                      \/ \E d \in Nat : InBlock(file, hdr.fmt, n, nb, d)'
  BY <1>1, <1>3 DEF AdpcmAt, AtBoundary, InBlock
<1>8. AdpcmAt(n)'
  BY <1>1, <1>4, <1>6, <1>7 DEF AdpcmAt
<1> QED BY <1>1, <1>4, <1>8, AdpcmGoesOn

LEMMA EndAdpcmKeeps ==
  ASSUME WavAssumption, WavInv, EndAdpcm
  PROVE  WavInv'
<1>1. /\ wavStage = "adpcm" /\ Len(decoded) = total /\ wavStage' = "read"
      /\ file' = file /\ hdr' = hdr /\ total' = total /\ position' = position /\ decoded' = decoded
  BY DEF EndAdpcm, readVars
<1>2. PICK n \in Nat : AdpcmAt(n)
  BY <1>1, AdpcmFacts
<1>3. n = total
  BY <1>1, <1>2, FramesLen DEF AdpcmAt
<1> QED BY <1>1, <1>2, <1>3, AdpcmEnds

LEMMA EmitBlock ==
  ASSUME NEW f, NEW fmt, NEW D \in Nat, Shape(fmt, D), NEW n \in Nat, NEW nb \in Nat, NEW d \in Nat,
         InBlock(f, fmt, n, nb, d), block.cached # <<>>,
         block' = [block EXCEPT !.cached = Tail(@)], position' = position
  PROVE  /\ InBlock(f, fmt, n + 1, nb, d)'
         /\ \E m \in Nat \ {0} : block.cached = FramesFrom(f, fmt, n, m)
<1> DEFINE k == nb * PerBlock(fmt) + Heads(fmt) + GroupFrames(fmt) * d
           rest == fmt.align - HeadBytes(fmt) - GroupBytes(fmt) * d
           m == k - n
<1>1. /\ m \in Nat /\ block = [rest |-> rest, cached |-> FramesFrom(f, fmt, n, m)] /\ block.rest >= 0
      /\ position = SoundStart(f) + nb * fmt.align + HeadBytes(fmt) + GroupBytes(fmt) * d
  BY DEF InBlock
<1>2. k \in Int
  <2> DEFINE a == nb * PerBlock(fmt)
             b == GroupFrames(fmt) * d
             h == Heads(fmt)
  <2>1. a \in Nat /\ b \in Nat /\ h \in Nat
    <3>1. GroupFrames(fmt) * D \in Nat
      BY ProductNat DEF Shape
    <3>2. PerBlock(fmt) \in Nat
      BY <3>1 DEF Shape
    <3> QED BY <3>2, ProductNat DEF Shape
  <2>2. k = a + h + b
    OBVIOUS
  <2> HIDE DEF a, b, h
  <2> QED BY <2>1, <2>2
<1>3. m # 0
  BY <1>1 DEF FramesFrom
<1> DEFINE m1 == k - (n + 1)
<1>4. m \in Nat \ {0} /\ m1 = m - 1 /\ m1 \in Nat
  <2> HIDE DEF k
  <2> QED BY <1>1, <1>2, <1>3
<1>5. Tail(FramesFrom(f, fmt, n, m)) = FramesFrom(f, fmt, n + 1, m1)
  <2> HIDE DEF k, m, m1
  <2>1. Tail(FramesFrom(f, fmt, n, m)) = FramesFrom(f, fmt, n + 1, m - 1)
    <3>1. m \in Nat \ {0}
      BY <1>4
    <3> QED BY <3>1, FramesTaken, ZenonT(90)
  <2> QED BY <1>4, <2>1
<1>6. block' = [rest |-> rest, cached |-> FramesFrom(f, fmt, n + 1, m1)] /\ block'.rest >= 0
  <2> HIDE DEF rest, m, m1
  <2>1. block' = [rest |-> rest, cached |-> FramesFrom(f, fmt, n + 1, m1)]
    BY <1>1, <1>5
  <2>2. block'.rest = block.rest
    BY <1>1, <2>1
  <2> QED BY <1>1, <2>1, <2>2
<1>7. InBlock(f, fmt, n + 1, nb, d)'
  BY <1>1, <1>4, <1>6 DEF InBlock, PerBlock, FramesOfBlock
<1>8. block.cached = FramesFrom(f, fmt, n, m)
  <2> HIDE DEF rest, m
  <2> QED BY <1>1
<1> QED BY <1>4, <1>7, <1>8

LEMMA EmitKeeps ==
  ASSUME WavAssumption, WavInv, Emit
  PROVE  WavInv'
<1>1. /\ wavStage = "adpcm" /\ call.want > 0 /\ block.cached # <<>>
      /\ decoded' = Append(decoded, Head(block.cached))
      /\ block' = [block EXCEPT !.cached = Tail(@)]
      /\ call' = [want |-> call.want - 1, got |-> call.got + 1]
      /\ file' = file /\ hdr' = hdr /\ total' = total /\ wavStage' = wavStage /\ position' = position
  BY DEF Emit, readVars, InCall, Drained
<1>2. Reading /\ (\E n \in Nat : AdpcmAt(n)) /\ (\E D \in Nat : Shape(hdr.fmt, D))
  BY <1>1, AdpcmFacts
<1>3. PICK n \in Nat : AdpcmAt(n)
  BY <1>2
<1>4. PICK D \in Nat : Shape(hdr.fmt, D)
  BY <1>2
<1>5. PICK fmt, f : fmt = hdr.fmt /\ f = file
  OBVIOUS
<1>6. /\ decoded = FramesUpTo(f, fmt, n) /\ call.want \in Nat /\ n + call.want <= total
      /\ total \in Nat /\ position \in Nat
  BY <1>2, <1>3, <1>5 DEF AdpcmAt, Reading
<1>7. PICK nb \in Nat, d \in Nat : InBlock(f, fmt, n, nb, d)
  BY <1>1, <1>3, <1>5 DEF AdpcmAt, AtBoundary, NoBlock
<1>8. InBlock(f, fmt, n + 1, nb, d)' /\ \E m \in Nat \ {0} : block.cached = FramesFrom(f, fmt, n, m)
  BY <1>1, <1>4, <1>5, <1>7, EmitBlock
<1>9. PICK m \in Nat \ {0} : block.cached = FramesFrom(f, fmt, n, m)
  BY <1>8
<1>10. decoded' = FramesUpTo(f, fmt, n + 1)
  <2>1. Append(FramesUpTo(f, fmt, n), Head(FramesFrom(f, fmt, n, m))) = FramesUpTo(f, fmt, n + 1)
    BY FramesTaken
  <2> QED BY <1>1, <1>6, <1>9, <2>1
<1>11. f = file' /\ fmt = hdr'.fmt
  BY <1>1, <1>5
<1>12. call' = [want |-> call'.want, got |-> call'.got] /\ call'.want \in Nat /\ (n + 1) + call'.want <= total'
  <2>1. call' = [want |-> call'.want, got |-> call'.got] /\ call'.want = call.want - 1
    BY <1>1
  <2>2. call'.want \in Nat
    BY <1>1, <1>6, <2>1, SMTT(60)
  <2>3. (n + 1) + call'.want <= total'
    <3> DEFINE w == call.want
               v == call'.want
    <3>1. v = w - 1 /\ w \in Nat /\ n + w <= total /\ total' = total /\ total \in Nat
      BY <1>1, <1>6, <2>1
    <3> HIDE DEF w, v
    <3>2. (n + 1) + v <= total'
      BY <3>1
    <3> QED BY <3>2 DEF v
  <2> QED BY <2>1, <2>2, <2>3
<1>13. AdpcmAt(n + 1)'
  BY <1>8, <1>10, <1>11, <1>12 DEF AdpcmAt
<1>14. n + 1 \in Nat /\ position' \in Nat /\ wavStage' = "adpcm"
  BY <1>1, <1>6, SMTT(60)
<1> QED BY <1>1, <1>13, <1>14, AdpcmGoesOn

\* Where a drained block leaves the reader: after a block, or before a group of one.
Finished(f, fmt, n, nb) == n = nb * PerBlock(fmt) /\ position = SoundStart(f) + nb * fmt.align
BeforeGroup(f, fmt, n, nb, d) ==
  /\ n = nb * PerBlock(fmt) + Heads(fmt) + GroupFrames(fmt) * d
  /\ position = SoundStart(f) + nb * fmt.align + HeadBytes(fmt) + GroupBytes(fmt) * d
  /\ block.rest = fmt.align - HeadBytes(fmt) - GroupBytes(fmt) * d

LEMMA NothingLeft ==
  ASSUME NEW a \in Nat, NEW b \in Nat, NEW c \in Nat, NEW d \in Nat, (a + b + c) - d = 0
  PROVE  d = a + b + c
OBVIOUS

LEMMA WhereDrained ==
  ASSUME NEW f, NEW fmt, NEW D \in Nat, Shape(fmt, D), SoundStart(f) \in Nat,
         NEW n \in Nat, NEW nb \in Nat, block.cached = <<>>,
         AtBoundary(f, fmt, n, nb) \/ \E d \in Nat : InBlock(f, fmt, n, nb, d)
  PROVE  IF block.rest = 0 THEN \E i \in Nat : Finished(f, fmt, n, i)
         ELSE \E d \in 0..(D - 1) : BeforeGroup(f, fmt, n, nb, d)
<1>1. CASE AtBoundary(f, fmt, n, nb)
  BY <1>1 DEF AtBoundary, NoBlock, Finished
<1>2. CASE \E d \in Nat : InBlock(f, fmt, n, nb, d)
  <2>1. PICK d \in Nat : InBlock(f, fmt, n, nb, d)
    BY <1>2
  <2> DEFINE g == GroupBytes(fmt)
             e == GroupFrames(fmt)
             h == HeadBytes(fmt)
             k == Heads(fmt)
             gd == g * d
             gD == g * D
             ed == e * d
             eD == e * D
             np == nb * PerBlock(fmt)
             na == nb * fmt.align
             m == (np + k + ed) - n
  <2>2. /\ g \in Nat \ {0} /\ e \in Nat \ {0} /\ h \in Nat /\ k \in Nat /\ fmt.align = h + gD
        /\ PerBlock(fmt) = k + eD
    BY DEF Shape
  <2>3. gd \in Nat /\ gD \in Nat /\ ed \in Nat /\ eD \in Nat
    BY <2>2, ProductNat
  <2>4. fmt.align \in Nat /\ PerBlock(fmt) \in Nat
    <3> HIDE DEF h, k, gD, eD
    <3> QED BY <2>2, <2>3
  <2>5. np \in Nat /\ na \in Nat
    BY <2>4, ProductNat
  <2>6. /\ m \in Nat /\ position = SoundStart(f) + na + h + gd /\ block.cached = FramesFrom(f, fmt, n, m)
        /\ block.rest = fmt.align - h - gd /\ block.rest >= 0
    BY <2>1 DEF InBlock
  <2>7. m = 0
    <3> HIDE DEF m
    <3> QED BY <2>6, FramesFromLen
  <2>8. n = np + k + ed
    <3>1. np \in Nat /\ k \in Nat /\ ed \in Nat /\ n \in Nat
      BY <2>2, <2>3, <2>5
    <3>2. (np + k + ed) - n = 0
      BY <2>7
    <3> HIDE DEF np, k, ed, m
    <3> QED BY ONLY <3>1, <3>2, NothingLeft
  <2>9. block.rest = gD - gd /\ gd <= gD
    <3> DEFINE a == fmt.align
               b == block.rest
    <3>1. h \in Nat /\ gD \in Nat /\ gd \in Nat /\ a = h + gD /\ b = a - h - gd /\ b >= 0
      BY <2>2, <2>3, <2>6
    <3> HIDE DEF h, gD, gd, a, b
    <3>2. b = gD - gd /\ gd <= gD
      BY <3>1
    <3> QED BY <3>2 DEF b
  <2>10. CASE block.rest = 0
    <3>1. gd = gD
      <4> HIDE DEF gD, gd
      <4> QED BY <2>3, <2>9, <2>10
    <3>2. d = D
      <4>1. d * g <= D * g /\ D * g <= d * g
        <5>1. gd = d * g /\ gD = D * g
          BY <2>2
        <5>2. d * g = D * g /\ d * g \in Nat
          BY <2>3, <3>1, <5>1
        <5> QED BY <5>2
      <4> HIDE DEF g
      <4>2. d <= D /\ D <= d
        BY <2>2, <4>1, LessProduct
      <4> QED BY <4>2
    <3>3. ed = eD
      BY <3>2
    <3>4. (nb + 1) * PerBlock(fmt) = np + PerBlock(fmt) /\ (nb + 1) * fmt.align = na + fmt.align
      <4> DEFINE a == fmt.align
                 p == PerBlock(fmt)
      <4>1. a \in Nat /\ p \in Nat
        BY <2>4
      <4> HIDE DEF a, p
      <4>2. (nb + 1) * a = nb * a + a /\ (nb + 1) * p = nb * p + p
        BY <4>1
      <4> QED BY <4>2 DEF a, p
    <3>5. n = np + PerBlock(fmt) /\ position = SoundStart(f) + (na + fmt.align)
      <4> HIDE DEF np, na, k, h, ed, eD, gd, gD
      <4> QED BY <2>2, <2>3, <2>5, <2>6, <2>8, <3>1, <3>3
    <3>6. Finished(f, fmt, n, nb + 1)
      BY <3>4, <3>5 DEF Finished
    <3> QED BY <2>10, <3>6
  <2>11. CASE block.rest # 0
    <3>1. d \in 0..(D - 1)
      <4> SUFFICES ASSUME D <= d PROVE FALSE
        OBVIOUS
      <4>1. gD <= gd
        BY <2>2, ProductMonotone
      <4> HIDE DEF gd, gD
      <4> QED BY <2>3, <2>9, <2>11, <4>1
    <3>2. BeforeGroup(f, fmt, n, nb, d)
      BY <2>6, <2>8 DEF BeforeGroup
    <3> QED BY <2>11, <3>1, <3>2
  <2> QED BY <2>10, <2>11
<1> QED BY <1>1, <1>2

\* Where frames are wanted that the sound has, the block's next bytes are there.
LEMMA HeadsThere ==
  ASSUME Reading, KnownBytes, KnownSound, Compressed(hdr.fmt), total <= FramesIn(hdr.fmt, SoundLength(file)),
         NEW D \in Nat, Shape(hdr.fmt, D), NEW n \in Nat, n < total, NEW nb \in Nat,
         Finished(file, hdr.fmt, n, nb)
  PROVE  Holds(HeadBytes(hdr.fmt))
<1> DEFINE l == SoundLength(file)
           s == SoundStart(file)
           h == HeadBytes(hdr.fmt)
           na == nb * hdr.fmt.align
           F == FramesIn(hdr.fmt, l)
<1>1. /\ l \in Nat /\ s \in Nat /\ s + l <= file.len /\ file.len \in Nat /\ total \in Nat
      /\ hdr.fmt.align \in Nat /\ WholeBlocks(hdr.fmt, l)
  BY DEF Reading, KnownBytes, KnownSound
<1>2. n < F /\ n = nb * PerBlock(hdr.fmt) /\ position = s + na
  <2>1. F \in Int
    <3>1. PICK q, m \in Nat : Ends(hdr.fmt, l, D, q, m)
      BY <1>1, SoundEnds
    <3>2. PerBlock(hdr.fmt) \in Nat
      <4>1. GroupFrames(hdr.fmt) * D \in Nat
        BY ProductNat DEF Shape
      <4> QED BY <4>1 DEF Shape
    <3>3. q * PerBlock(hdr.fmt) \in Nat
      BY <3>2, ProductNat
    <3> QED BY <3>1, <3>3 DEF Ends
  <2>2. n < F
    <3> HIDE DEF F
    <3> QED BY <1>1, <2>1 DEF F
  <2> QED BY <2>2 DEF Finished
<1>3. na + h <= l
  <2> HIDE DEF l
  <2> QED BY <1>1, <1>2, RoomForHeads
<1>4. na \in Nat /\ h \in Nat
  BY <1>1, ProductNat DEF Shape
<1>5. position + h <= file.len
  <2> HIDE DEF na, h, s, l
  <2> QED BY <1>1, <1>2, <1>3, <1>4
<1> QED BY <1>5 DEF Holds

LEMMA GroupThere ==
  ASSUME Reading, KnownBytes, KnownSound, Compressed(hdr.fmt), total <= FramesIn(hdr.fmt, SoundLength(file)),
         NEW D \in Nat, Shape(hdr.fmt, D), NEW n \in Nat, n < total, NEW nb \in Nat, NEW d \in 0..(D - 1),
         BeforeGroup(file, hdr.fmt, n, nb, d)
  PROVE  Holds(GroupBytes(hdr.fmt))
<1> DEFINE l == SoundLength(file)
           s == SoundStart(file)
           h == HeadBytes(hdr.fmt)
           g == GroupBytes(hdr.fmt)
           gd == g * d
           na == nb * hdr.fmt.align
           np == nb * PerBlock(hdr.fmt)
           k == Heads(hdr.fmt)
           ed == GroupFrames(hdr.fmt) * d
           F == FramesIn(hdr.fmt, l)
<1>1. /\ l \in Nat /\ s \in Nat /\ s + l <= file.len /\ file.len \in Nat /\ total \in Nat
      /\ hdr.fmt.align \in Nat /\ WholeBlocks(hdr.fmt, l)
  BY DEF Reading, KnownBytes, KnownSound
<1>2. /\ h \in Nat /\ g \in Nat /\ d \in Nat /\ gd \in Nat /\ na \in Nat /\ k \in Nat /\ ed \in Nat
      /\ g * (d + 1) = gd + g /\ np \in Nat
  <2>1. h \in Nat /\ g \in Nat /\ d \in Nat /\ k \in Nat /\ GroupFrames(hdr.fmt) \in Nat /\ D \in Nat
        /\ PerBlock(hdr.fmt) = k + GroupFrames(hdr.fmt) * D
    BY DEF Shape
  <2>2. gd \in Nat /\ na \in Nat /\ ed \in Nat
    BY <1>1, <2>1, ProductNat
  <2>3. GroupFrames(hdr.fmt) * D \in Nat
    BY <2>1, ProductNat
  <2>4. PerBlock(hdr.fmt) \in Nat
    BY <2>1, <2>3
  <2>5. np \in Nat
    BY <2>4, ProductNat
  <2>6. g * (d + 1) = gd + g
    <3> HIDE DEF g
    <3> QED BY <2>1 DEF g
  <2> QED BY <2>1, <2>2, <2>5, <2>6
<1>3. n = np + k + ed /\ position = s + na + h + gd
  BY DEF BeforeGroup
<1>4. F \in Int
  <2>1. PICK q, m \in Nat : Ends(hdr.fmt, l, D, q, m)
    BY <1>1, SoundEnds
  <2>2. PerBlock(hdr.fmt) \in Nat
    <3>1. GroupFrames(hdr.fmt) * D \in Nat
      BY ProductNat DEF Shape
    <3> QED BY <3>1 DEF Shape
  <2>3. q * PerBlock(hdr.fmt) \in Nat
    BY <2>2, ProductNat
  <2> QED BY <2>1, <2>3 DEF Ends
<1>5. np + (k + ed) < F
  <2>1. total <= F
    OBVIOUS
  <2> HIDE DEF F, np, k, ed
  <2> QED BY <1>1, <1>2, <1>3, <1>4, <2>1
<1>6. na + (h + g * (d + 1)) <= l
  <2> HIDE DEF l
  <2> QED BY <1>1, <1>5, RoomForGroup
<1>7. na + (h + (gd + g)) <= l
  BY <1>2, <1>6
<1>8. position + g <= file.len
  <2> HIDE DEF na, h, s, l, gd, g
  <2> QED BY <1>1, <1>2, <1>3, <1>7
<1> QED BY <1>8 DEF Holds

LEMMA BlockOpened ==
  ASSUME NEW f, NEW fmt, NEW D \in Nat, Shape(fmt, D), SoundStart(f) \in Nat,
         NEW n \in Nat, NEW nb \in Nat, Finished(f, fmt, n, nb),
         position' = position + HeadBytes(fmt),
         block' = [rest |-> fmt.align - HeadBytes(fmt), cached |-> HeadFrames(fmt, position)]
  PROVE  InBlock(f, fmt, n, nb, 0)' /\ position' \in Nat
<1> DEFINE h == HeadBytes(fmt)
           g == GroupBytes(fmt)
           k == Heads(fmt)
           e == GroupFrames(fmt)
           gD == g * D
           a == fmt.align
           np == nb * PerBlock(fmt)
           na == nb * a
           s == SoundStart(f)
<1>1. /\ h \in Nat /\ g \in Nat /\ k \in Nat /\ e \in Nat /\ a = h + gD /\ gD \in Nat
      /\ g * 0 = 0 /\ e * 0 = 0 /\ s \in Nat
  BY ProductNat DEF Shape
<1>2. a \in Nat /\ a - h \in Nat
  <2> HIDE DEF h, a, gD
  <2> QED BY <1>1
<1>3. na \in Nat /\ n = np /\ position = s + na
  BY <1>2, ProductNat DEF Finished
<1>4. HeadFrames(fmt, position) = FramesFrom(f, fmt, n, k)
  BY <1>3, HeadsAre
<1>5. (np + k + e * 0) - n = k /\ position' = s + na + h + g * 0 /\ a - h - g * 0 = a - h /\ position' \in Nat
  <2> DEFINE e0 == e * 0
             g0 == g * 0
  <2>1. e0 = 0 /\ g0 = 0 /\ position' = position + h
    BY <1>1
  <2> HIDE DEF h, k, np, na, s, e0, g0, a
  <2>2. (np + k + e0) - n = k /\ position' = s + na + h + g0 /\ a - h - g0 = a - h /\ position' \in Nat
    BY <1>1, <1>2, <1>3, <2>1
  <2> QED BY <2>2 DEF e0, g0
<1>6. block' = [rest |-> a - h - g * 0, cached |-> FramesFrom(f, fmt, n, (np + k + e * 0) - n)]
      /\ block'.rest >= 0
  <2>1. block' = [rest |-> a - h, cached |-> FramesFrom(f, fmt, n, k)] /\ block'.rest = a - h
    BY <1>4
  <2> HIDE DEF a, h, k, np, g, e
  <2> QED BY <1>2, <1>5, <2>1
<1>7. InBlock(f, fmt, n, nb, 0)'
  BY <1>1, <1>5, <1>6 DEF InBlock, PerBlock, FramesOfBlock
<1> QED BY <1>5, <1>7

LEMMA GroupDecoded ==
  ASSUME NEW f, NEW fmt, NEW D \in Nat, Shape(fmt, D), SoundStart(f) \in Nat,
         NEW n \in Nat, NEW nb \in Nat, NEW d \in 0..(D - 1), BeforeGroup(f, fmt, n, nb, d),
         position' = position + GroupBytes(fmt),
         block' = [rest |-> block.rest - GroupBytes(fmt), cached |-> GroupAt(fmt, position)]
  PROVE  InBlock(f, fmt, n, nb, d + 1)' /\ position' \in Nat
<1> DEFINE h == HeadBytes(fmt)
           g == GroupBytes(fmt)
           k == Heads(fmt)
           e == GroupFrames(fmt)
           gd == g * d
           g1 == g * (d + 1)
           gD == g * D
           ed == e * d
           e1 == e * (d + 1)
           a == fmt.align
           np == nb * PerBlock(fmt)
           na == nb * a
           s == SoundStart(f)
<1>1. /\ h \in Nat /\ g \in Nat /\ k \in Nat /\ e \in Nat /\ a = h + gD /\ s \in Nat
      /\ d \in Nat /\ d + 1 \in Nat /\ d + 1 <= D /\ PerBlock(fmt) = k + e * D
  BY DEF Shape
<1>2. /\ gd \in Nat /\ g1 \in Nat /\ gD \in Nat /\ ed \in Nat /\ e1 \in Nat /\ e * D \in Nat
      /\ g1 = gd + g /\ e1 = ed + e /\ g1 <= gD
  <2> HIDE DEF g, e
  <2>1. gd \in Nat /\ g1 \in Nat /\ gD \in Nat /\ ed \in Nat /\ e1 \in Nat /\ e * D \in Nat
    BY <1>1, ProductNat
  <2>2. g1 = gd + g /\ e1 = ed + e
    BY <1>1
  <2>3. g1 <= gD
    BY <1>1, ProductMonotone
  <2> QED BY <2>1, <2>2, <2>3
<1>3. a \in Nat /\ PerBlock(fmt) \in Nat
  <2> DEFINE eD == e * D
  <2>1. eD \in Nat /\ PerBlock(fmt) = k + eD
    BY <1>1, <1>2
  <2> HIDE DEF h, a, gD, eD, k
  <2> QED BY <1>1, <1>2, <2>1
<1>4. na \in Nat /\ np \in Nat
  BY <1>3, ProductNat
<1>5. n = np + k + ed /\ position = s + na + h + gd /\ block.rest = a - h - gd
  BY DEF BeforeGroup
<1>6. GroupAt(fmt, position) = FramesFrom(f, fmt, n, e)
  <2>1. n = nb * PerBlock(fmt) + Heads(fmt) + GroupFrames(fmt) * d
        /\ position = SoundStart(f) + nb * fmt.align + HeadBytes(fmt) + GroupBytes(fmt) * d
    BY <1>5
  <2> QED BY <2>1, GroupIs
<1>7. /\ (np + k + e1) - n = e /\ position' = s + na + h + g1 /\ position' \in Nat
      /\ block.rest - g = a - h - g1 /\ a - h - g1 >= 0
  <2> DEFINE b == block.rest
  <2>1. /\ gd \in Nat /\ g1 \in Nat /\ gD \in Nat /\ ed \in Nat /\ e1 \in Nat /\ g1 = gd + g
        /\ e1 = ed + e /\ g1 <= gD
    BY <1>2
  <2>2. position' = position + g /\ b = a - h - gd /\ a = h + gD
    BY <1>1, <1>5
  <2> HIDE DEF h, g, k, e, gd, g1, gD, ed, e1, a, np, na, s, b
  <2>3. (np + k + e1) - n = e
    BY <1>1, <1>4, <1>5, <2>1
  <2>4. position' = s + na + h + g1 /\ position' \in Nat
    BY <1>1, <1>4, <1>5, <2>1, <2>2
  <2>5. b - g = a - h - g1 /\ a - h - g1 >= 0
    BY <1>1, <1>3, <2>1, <2>2
  <2> QED BY <2>3, <2>4, <2>5 DEF b
<1>8. block' = [rest |-> a - h - g1, cached |-> FramesFrom(f, fmt, n, (np + k + e1) - n)] /\ block'.rest >= 0
  <2>1. block' = [rest |-> block.rest - g, cached |-> FramesFrom(f, fmt, n, e)] /\ block'.rest = block.rest - g
    BY <1>6
  <2> HIDE DEF h, g, k, e, g1, e1, a, np
  <2> QED BY <1>7, <2>1
<1>9. (np + k + e1) - n \in Nat
  BY <1>1, <1>7
<1>10. InBlock(f, fmt, n, nb, d + 1)'
  BY <1>7, <1>8, <1>9 DEF InBlock, PerBlock, FramesOfBlock
<1> QED BY <1>7, <1>10

LEMMA LoadBlockKeeps ==
  ASSUME WavAssumption, WavInv, LoadBlock
  PROVE  WavInv'
<1>1. /\ wavStage = "adpcm" /\ call.want > 0 /\ block.cached = <<>> /\ block.rest = 0
      /\ file' = file /\ hdr' = hdr /\ total' = total /\ decoded' = decoded
      /\ IF Holds(HeadBytes(hdr.fmt))
         THEN /\ position' = position + HeadBytes(hdr.fmt)
              /\ block' = [rest |-> hdr.fmt.align - HeadBytes(hdr.fmt),
                           cached |-> HeadFrames(hdr.fmt, position)]
              /\ UNCHANGED <<wavStage, call>>
         ELSE ReturnShort /\ UNCHANGED <<position, block>>
  BY DEF LoadBlock, readVars, InCall, Drained
<1>2. Reading /\ KnownBytes /\ Compressed(hdr.fmt) /\ (\E n \in Nat : AdpcmAt(n)) /\ (\E D \in Nat : Shape(hdr.fmt, D))
  BY <1>1, AdpcmFacts
<1>3. PICK n \in Nat : AdpcmAt(n)
  BY <1>2
<1>4. PICK D \in Nat : Shape(hdr.fmt, D)
  BY <1>2
<1>5. /\ decoded = FramesUpTo(file, hdr.fmt, n) /\ call = [want |-> call.want, got |-> call.got]
      /\ call.want \in Nat /\ n + call.want <= total /\ total \in Nat /\ SoundStart(file) \in Nat
  BY <1>2, <1>3 DEF AdpcmAt, Reading
<1>6. n < total
  BY <1>1, <1>5
<1>7. PICK b \in Nat : AtBoundary(file, hdr.fmt, n, b) \/ \E d \in Nat : InBlock(file, hdr.fmt, n, b, d)
  BY <1>3 DEF AdpcmAt
<1>8. \E i \in Nat : Finished(file, hdr.fmt, n, i)
  BY <1>1, <1>4, <1>5, <1>7, WhereDrained
<1>9. PICK nb \in Nat : Finished(file, hdr.fmt, n, nb)
  BY <1>8
<1>10. CASE Holds(HeadBytes(hdr.fmt))
  <2>1. PICK fmt, f : fmt = hdr.fmt /\ f = file
    OBVIOUS
  <2>2. /\ position' = position + HeadBytes(fmt) /\ wavStage' = "adpcm" /\ call' = call
        /\ block' = [rest |-> fmt.align - HeadBytes(fmt), cached |-> HeadFrames(fmt, position)]
    BY <1>1, <1>10, <2>1
  <2>3. Shape(fmt, D) /\ SoundStart(f) \in Nat /\ Finished(f, fmt, n, nb)
    BY <1>4, <1>5, <1>9, <2>1
  <2>4. InBlock(f, fmt, n, nb, 0)' /\ position' \in Nat
    BY <2>2, <2>3, BlockOpened
  <2>5. f = file' /\ fmt = hdr'.fmt
    BY <1>1, <2>1
  <2>6. AdpcmAt(n)'
    BY <1>1, <1>5, <2>1, <2>2, <2>4, <2>5, SMTT(60) DEF AdpcmAt
  <2> QED BY <1>1, <2>2, <2>4, <2>6, AdpcmGoesOn
<1>11. CASE ~Holds(HeadBytes(hdr.fmt))
  <2>1. ReturnShort /\ position' = position /\ block' = block
    BY <1>1, <1>11
  <2>2. ~(KnownSound /\ total <= FramesIn(hdr.fmt, SoundLength(file)))
    BY <1>2, <1>4, <1>6, <1>9, <1>11, HeadsThere
  <2> QED BY <1>1, <1>3, <2>1, <2>2, ShortKeeps
<1> QED BY <1>10, <1>11

LEMMA DecodeBytesKeeps ==
  ASSUME WavAssumption, WavInv, DecodeBytes
  PROVE  WavInv'
<1>1. /\ wavStage = "adpcm" /\ call.want > 0 /\ block.cached = <<>> /\ block.rest > 0
      /\ file' = file /\ hdr' = hdr /\ total' = total /\ decoded' = decoded
      /\ IF Holds(GroupBytes(hdr.fmt))
         THEN /\ position' = position + GroupBytes(hdr.fmt)
              /\ block' = [rest |-> block.rest - GroupBytes(hdr.fmt), cached |-> GroupAt(hdr.fmt, position)]
              /\ UNCHANGED <<wavStage, call>>
         ELSE ReturnShort /\ UNCHANGED <<position, block>>
  BY DEF DecodeBytes, readVars, InCall, Drained, GroupAt
<1>2. Reading /\ KnownBytes /\ Compressed(hdr.fmt) /\ (\E n \in Nat : AdpcmAt(n)) /\ (\E D \in Nat : Shape(hdr.fmt, D))
  BY <1>1, AdpcmFacts
<1>3. PICK n \in Nat : AdpcmAt(n)
  BY <1>2
<1>4. PICK D \in Nat : Shape(hdr.fmt, D)
  BY <1>2
<1>5. /\ decoded = FramesUpTo(file, hdr.fmt, n) /\ call = [want |-> call.want, got |-> call.got]
      /\ call.want \in Nat /\ n + call.want <= total /\ total \in Nat /\ SoundStart(file) \in Nat
  BY <1>2, <1>3 DEF AdpcmAt, Reading
<1>6. n < total
  BY <1>1, <1>5
<1>7. PICK nb \in Nat : AtBoundary(file, hdr.fmt, n, nb) \/ \E d \in Nat : InBlock(file, hdr.fmt, n, nb, d)
  BY <1>3 DEF AdpcmAt
<1>8. \E d \in 0..(D - 1) : BeforeGroup(file, hdr.fmt, n, nb, d)
  <2>1. block.rest # 0
    BY <1>1
  <2> QED BY <1>1, <1>4, <1>5, <1>7, <2>1, WhereDrained
<1>9. PICK d \in 0..(D - 1) : BeforeGroup(file, hdr.fmt, n, nb, d)
  BY <1>8
<1>10. CASE Holds(GroupBytes(hdr.fmt))
  <2>1. PICK fmt, f : fmt = hdr.fmt /\ f = file
    OBVIOUS
  <2>2. /\ position' = position + GroupBytes(fmt) /\ wavStage' = "adpcm" /\ call' = call
        /\ block' = [rest |-> block.rest - GroupBytes(fmt), cached |-> GroupAt(fmt, position)]
    BY <1>1, <1>10, <2>1
  <2>3. Shape(fmt, D) /\ SoundStart(f) \in Nat /\ BeforeGroup(f, fmt, n, nb, d)
    BY <1>4, <1>5, <1>9, <2>1
  <2>4. InBlock(f, fmt, n, nb, d + 1)' /\ position' \in Nat
    BY <2>2, <2>3, GroupDecoded
  <2>5. f = file' /\ fmt = hdr'.fmt /\ d + 1 \in Nat
    BY <1>1, <2>1
  <2>6. AdpcmAt(n)'
    BY <1>1, <1>5, <2>1, <2>2, <2>4, <2>5 DEF AdpcmAt
  <2> QED BY <1>1, <2>2, <2>4, <2>6, AdpcmGoesOn
<1>11. CASE ~Holds(GroupBytes(hdr.fmt))
  <2>1. ReturnShort /\ position' = position /\ block' = block
    BY <1>1, <1>11
  <2>2. ~(KnownSound /\ total <= FramesIn(hdr.fmt, SoundLength(file)))
    BY <1>2, <1>4, <1>6, <1>9, <1>11, GroupThere
  <2> QED BY <1>1, <1>3, <2>1, <2>2, ShortKeeps
<1> QED BY <1>10, <1>11

(***************************************************************************)
(* The frame count of the headers and of the blocks they open.             *)
(***************************************************************************)
LEMMA CountOf ==
  ASSUME NEW fmt, NEW D, Shape(fmt, D), NEW B \in Nat, NEW Y \in Nat,
         NEW l, l = B * HeadBytes(fmt) + GroupBytes(fmt) * Y, BlocksIn(fmt, l) = B
  PROVE  FrameCount(fmt, l) = B * Heads(fmt) + GroupFrames(fmt) * Y
<1>1. Compressed(fmt) /\ fmt.tag \in {"ms", "ima"} /\ fmt.channels \in {1, 2}
  BY DEF Shape, Compressed
<1>2. FrameCount(fmt, l) = (((l - B * ((IF fmt.tag = "ms" THEN 6 ELSE 4) * fmt.channels)) * 2) \div fmt.channels)
                             + (IF fmt.tag = "ima" THEN B ELSE 0)
  BY <1>1 DEF FrameCount, AdpcmHeads
<1>3. CASE fmt.tag = "ms" /\ fmt.channels = 1
  <2>1. l \in Nat /\ l = B * 7 + Y
    BY <1>3 DEF HeadBytes, GroupBytes
  <2>2. FrameCount(fmt, l) = (((l - B * 6) * 2) \div 1)
    BY <1>2, <1>3
  <2>3. (l - B * 6) * 2 = B * 2 + 2 * Y
    <3>1. l - B * 6 = B + Y
      BY <2>1
    <3>2. (B + Y) * 2 = B * 2 + 2 * Y
      OBVIOUS
    <3> QED BY <3>1, <3>2
  <2> QED BY <1>3, <2>2, <2>3 DEF Heads, GroupFrames
<1>4. CASE fmt.tag = "ms" /\ fmt.channels = 2
  <2>1. l \in Nat /\ l = B * 14 + Y
    BY <1>4 DEF HeadBytes, GroupBytes
  <2>2. FrameCount(fmt, l) = (((l - B * 12) * 2) \div 2)
    BY <1>2, <1>4
  <2>3. l - B * 12 = B * 2 + Y
    BY <2>1
  <2>4. ((B * 2 + Y) * 2) \div 2 = B * 2 + Y
    OBVIOUS
  <2> QED BY <1>4, <2>2, <2>3, <2>4 DEF Heads, GroupFrames
<1>5. CASE fmt.tag = "ima" /\ fmt.channels = 1
  <2>1. l \in Nat /\ l = B * 4 + 4 * Y
    BY <1>5 DEF HeadBytes, GroupBytes
  <2>2. FrameCount(fmt, l) = (((l - B * 4) * 2) \div 1) + B
    BY <1>2, <1>5
  <2>3. (l - B * 4) * 2 = 8 * Y
    <3>1. l - B * 4 = 4 * Y
      BY <2>1
    <3>2. (4 * Y) * 2 = 8 * Y
      OBVIOUS
    <3> QED BY <3>1, <3>2
  <2> QED BY <1>5, <2>2, <2>3 DEF Heads, GroupFrames
<1>6. CASE fmt.tag = "ima" /\ fmt.channels = 2
  <2>1. l \in Nat /\ l = B * 8 + 8 * Y
    BY <1>6 DEF HeadBytes, GroupBytes
  <2>2. FrameCount(fmt, l) = (((l - B * 8) * 2) \div 2) + B
    BY <1>2, <1>6
  <2>3. l - B * 8 = 8 * Y
    BY <2>1
  <2>4. ((8 * Y) * 2) \div 2 = 8 * Y
    OBVIOUS
  <2> QED BY <1>6, <2>2, <2>3, <2>4 DEF Heads, GroupFrames
<1> QED BY <1>1, <1>3, <1>4, <1>5, <1>6

\* The count from the size is the sound's where it ends with a block or a group.
LEMMA CountExact ==
  ASSUME NEW fmt, NEW D, Shape(fmt, D), NEW l \in Nat, WholeBlocks(fmt, l)
  PROVE  FrameCount(fmt, l) = FramesIn(fmt, l) /\ FramesIn(fmt, l) \in Nat
<1>1. PICK q, m \in Nat : Ends(fmt, l, D, q, m)
  BY SoundEnds
<1> DEFINE a == fmt.align
           p == PerBlock(fmt)
           h == HeadBytes(fmt)
           g == GroupBytes(fmt)
           k == Heads(fmt)
           e == GroupFrames(fmt)
           qD == q * D
<1>2. /\ h \in Nat \ {0} /\ g \in Nat \ {0} /\ k \in Nat /\ e \in Nat /\ D \in Nat
      /\ a = h + g * D /\ p = k + e * D
  BY DEF Shape
<1>3. g * D \in Nat /\ e * D \in Nat /\ qD \in Nat
  BY <1>2, ProductNat
<1>4. a \in Nat \ {0} /\ p \in Nat
  <2> DEFINE gD == g * D
             eD == e * D
  <2>1. gD \in Nat /\ eD \in Nat /\ a = h + gD /\ p = k + eD
    BY <1>2, <1>3
  <2> HIDE DEF gD, eD, h, k, a, p
  <2> QED BY <1>2, <2>1
<1>5. q * a = q * h + g * qD /\ q * p = q * k + e * qD
  <2> HIDE DEF h, g, k, e
  <2>1. q * (h + g * D) = q * h + g * (q * D) /\ q * (k + e * D) = q * k + e * (q * D)
    BY <1>2
  <2> QED BY <1>2, <2>1
<1>6. FramesIn(fmt, l) = q * p + m /\ q * a \in Nat /\ q * p \in Nat
  BY <1>1, <1>4, ProductNat DEF Ends
<1>7. CASE m = 0 /\ l = q * a
  <2>1. BlocksIn(fmt, l) = q
    <3> HIDE DEF a
    <3>1. a - 1 \in 0..(a - 1)
      BY <1>4
    <3>2. (q * a + (a - 1)) \div a = q
      BY <1>4, <3>1, DivisionUnique
    <3>3. l + a - 1 = q * a + (a - 1)
      BY <1>4, <1>6, <1>7
    <3> QED BY <3>2, <3>3 DEF BlocksIn, a
  <2>2. l = q * h + g * qD
    BY <1>5, <1>7
  <2>3. FrameCount(fmt, l) = q * k + e * qD
    BY <1>3, <2>1, <2>2, CountOf
  <2>4. FramesIn(fmt, l) = q * p
    BY <1>6, <1>7
  <2> QED BY <1>5, <1>6, <2>3, <2>4
<1>8. CASE \E x \in 0..(D - 1) : m = k + e * x /\ l = q * a + (h + g * x)
  <2>1. PICK x \in 0..(D - 1) : m = k + e * x /\ l = q * a + (h + g * x)
    BY <1>8
  <2> DEFINE r == h + g * x
             qx == qD + x
  <2>2. x \in Nat /\ x + 1 <= D /\ g * x \in Nat /\ e * x \in Nat /\ qx \in Nat
    <3>1. x \in Nat /\ x + 1 <= D
      BY <1>2
    <3> QED BY <1>2, <1>3, <3>1, ProductNat
  <2>3. r \in 1..a
    <3> DEFINE gx == g * x
               gD == g * D
    <3>1. gx <= gD
      BY <1>2, <2>2, ProductMonotone
    <3>2. gx \in Nat /\ gD \in Nat /\ r = h + gx /\ a = h + gD
      BY <1>2, <1>3, <2>2
    <3> HIDE DEF gx, gD, h, a, r
    <3> QED BY <1>2, <3>1, <3>2
  <2>4. BlocksIn(fmt, l) = q + 1
    <3> HIDE DEF a, r
    <3>1. r - 1 \in 0..(a - 1) /\ q + 1 \in Nat
      BY <1>4, <2>3
    <3>2. ((q + 1) * a + (r - 1)) \div a = q + 1
      BY <1>4, <3>1, DivisionUnique
    <3>3. l + a - 1 = (q + 1) * a + (r - 1)
      <4> DEFINE qa == q * a
      <4>1. (q + 1) * a = qa + a
        BY <1>4
      <4>2. l = qa + r /\ qa \in Nat
        BY <1>6, <2>1 DEF r
      <4> DEFINE z == (q + 1) * a
      <4>3. z = qa + a
        BY <4>1
      <4> HIDE DEF qa, z
      <4>4. l + a - 1 = z + (r - 1)
        BY <1>4, <2>3, <4>2, <4>3
      <4> QED BY <4>4 DEF z
    <3> QED BY <3>2, <3>3 DEF BlocksIn, a
  <2>5. (q + 1) * h = q * h + h /\ (q + 1) * k = q * k + k /\ g * qx = g * qD + g * x /\ e * qx = e * qD + e * x
    <3> HIDE DEF h, g, k, e, qD
    <3> QED BY <1>2, <1>3, <2>2
  <2>6. /\ q * h \in Nat /\ g * qD \in Nat /\ q * k \in Nat /\ e * qD \in Nat
    <3> HIDE DEF h, g, k, e, qD
    <3> QED BY <1>2, <1>3, ProductNat
  <2>7. l = (q + 1) * h + g * qx
    <3> DEFINE s == q * h
               t == g * qD
               u == g * x
               v == q * a
               y == (q + 1) * h
               z == g * qx
    <3>1. s \in Nat /\ t \in Nat /\ u \in Nat /\ v = s + t /\ y = s + h /\ z = t + u /\ l = v + (h + u)
      BY <1>5, <2>1, <2>2, <2>5, <2>6
    <3> HIDE DEF s, t, u, v, y, z, h
    <3>2. l = y + z
      BY <1>2, <3>1
    <3> QED BY <3>2 DEF y, z, h
  <2>8. q * p + m = (q + 1) * k + e * qx
    <3> DEFINE s == q * k
               t == e * qD
               u == e * x
               v == q * p
               y == (q + 1) * k
               z == e * qx
    <3>1. s \in Nat /\ t \in Nat /\ u \in Nat /\ v = s + t /\ y = s + k /\ z = t + u /\ m = k + u
      BY <1>5, <2>1, <2>2, <2>5, <2>6
    <3> HIDE DEF s, t, u, v, y, z, k
    <3>2. v + m = y + z
      BY <1>2, <3>1
    <3> QED BY <3>2 DEF v, y, z, k
  <2>9. FrameCount(fmt, l) = (q + 1) * k + e * qx
    <3> HIDE DEF qx
    <3>1. q + 1 \in Nat
      OBVIOUS
    <3> QED BY <2>2, <2>4, <2>7, <3>1, CountOf
  <2>10. q * p + m \in Nat
    BY <1>6
  <2> QED BY <1>6, <2>8, <2>9, <2>10
<1> QED BY <1>1, <1>7, <1>8 DEF Ends

\* What was counted, where the end of the sound is known.
LEMMA TotalKnown ==
  ASSUME WavAssumption, WavInv, wavStage \in {"read", "thrown"}, KnownSound,
         Compressed(hdr.fmt) \/ Decodes(hdr.fmt), Stated = 0
  PROVE  total = FramesIn(hdr.fmt, SoundLength(file))
<1> DEFINE fmt == hdr.fmt
           l == SoundLength(file)
           p == FrameBytes(fmt)
<1>1. Reading /\ KnownBytes
  BY ReadingIs
<1>2. SoundBytes = l /\ l \in Nat /\ p \in Nat \ {0} /\ IsFormat(fmt) /\ Valid(fmt)
  BY <1>1 DEF KnownBytes, KnownSound, Reading
<1>3. total = FrameCount(fmt, Bytes)
  BY DEF WavInv, Described, TotalFrames
<1>4. CASE Compressed(fmt)
  <2>1. Bytes = l
    BY <1>2, <1>4 DEF Bytes, WholeFrames
  <2>2. WholeBlocks(fmt, l)
    BY <1>4 DEF KnownSound
  <2>3. PICK D \in Nat : Shape(fmt, D)
    BY <1>2, <1>4, BlockShape
  <2>4. FrameCount(fmt, l) = FramesIn(fmt, l)
    BY <1>2, <2>2, <2>3, CountExact
  <2> QED BY <1>3, <2>1, <2>4
<1>5. CASE ~Compressed(fmt)
  <2> DEFINE q == l \div p
  <2>1. Bytes = l - (l % p) /\ FrameCount(fmt, Bytes) = Bytes \div p /\ FramesIn(fmt, l) = q
    BY <1>2, <1>5 DEF Bytes, WholeFrames, FrameCount, FramesIn
  <2>2. q \in Nat /\ l % p \in 0..(p - 1) /\ l = q * p + (l % p)
    <3> HIDE DEF l, p
    <3> QED BY <1>2, DivisionOf
  <2>3. Bytes = q * p + 0
    <3>1. q * p \in Nat
      BY <1>2, <2>2, ProductNat
    <3> DEFINE qp == q * p
               r == l % p
    <3> HIDE DEF qp, r, l
    <3>2. Bytes = qp + 0
      BY <1>2, <2>1, <2>2, <3>1 DEF qp, r
    <3> QED BY <3>2 DEF qp
  <2>4. (q * p + 0) \div p = q
    <3> HIDE DEF q, p
    <3>1. 0 \in 0..(p - 1)
      BY <1>2
    <3> QED BY <1>2, <2>2, <3>1, DivisionUnique
  <2> QED BY <1>3, <2>1, <2>3, <2>4
<1> QED BY <1>4, <1>5

LEMMA InvGivesSound ==
  ASSUME WavAssumption, WavInv
  PROVE  SoundIsFile
<1> DEFINE fmt == hdr.fmt
           l == SoundLength(file)
           frames == FramesIn(fmt, l)
           known == EndKnown(file) /\ (Compressed(fmt) => WholeBlocks(fmt, l))
<1>1. wavStage = "failed" => ~(Readable(file) /\ PadsAgree(file))
  BY DEF WavInv, Walks, Understood
<1>2. ASSUME wavStage = "thrown", known, Stated = 0, Compressed(fmt) \/ Decodes(fmt)
      PROVE frames * fmt.channels > MaxFloats
  <2>1. total = frames
    BY <1>2, TotalKnown DEF KnownSound
  <2>2. total * fmt.channels > MaxFloats
    BY <1>2 DEF WavInv, Described
  <2> QED BY <2>1, <2>2
<1>3. ASSUME wavStage = "read"
      PROVE /\ fmt \in Formats(file)
            /\ decoded = [i \in 1..Len(decoded) |-> FrameOf(file, fmt, i - 1)]
            /\ known /\ Stated = 0 => Len(decoded) = frames
            /\ known /\ Stated # 0 /\ ~Compressed(fmt) => Len(decoded) = Least(Stated, frames)
            /\ known /\ Stated # 0 /\ Stated <= frames => Len(decoded) = Stated
  <2>1. Reading /\ KnownBytes
    BY <1>3, ReadingIs
  <2>2. PICK n \in Nat : decoded = FramesUpTo(file, fmt, n) /\ Ended(n)
    BY <1>3 DEF WavInv, ReadDone
  <2>3. Len(decoded) = n
    BY <2>2, FramesLen
  <2>4. decoded = [i \in 1..Len(decoded) |-> FrameOf(file, fmt, i - 1)]
    BY <2>2, <2>3 DEF FramesUpTo
  <2>5. fmt \in Formats(file)
    BY <2>1 DEF Reading
  <2>6. Stated \in Nat /\ (Stated # 0 => total = Stated) /\ total \in Nat
    <3>1. Playable(fmt, Bytes) /\ total = TotalFrames(fmt, Bytes)
      BY <1>3 DEF WavInv, Described
    <3>2. Stated \in Nat
      BY <2>1, <3>1, TotalNat DEF Reading
    <3> QED BY <2>1, <3>1, <3>2 DEF TotalFrames, Reading
  <2>7. ASSUME known
        PROVE /\ Stated = 0 => n = frames
              /\ Stated # 0 /\ ~Compressed(fmt) => n = Least(Stated, frames)
              /\ Stated # 0 /\ Stated <= frames => n = Stated
    <3>1. KnownSound /\ l \in Nat
      BY <2>1, <2>7 DEF KnownSound, KnownBytes
    <3>2. CASE Compressed(fmt)
      <4>1. total <= frames => n = total
        BY <2>2, <3>1, <3>2 DEF Ended
      <4>2. Stated = 0 => total = frames
        BY <1>3, <3>1, <3>2, TotalKnown
      <4> HIDE DEF frames
      <4> QED BY <2>6, <3>2, <4>1, <4>2
    <3>3. CASE ~Compressed(fmt) /\ Decodes(fmt)
      <4> DEFINE q == l \div FrameBytes(fmt)
      <4>1. n = Least(total, q) /\ frames = q
        BY <2>2, <3>1, <3>3 DEF Ended, FramesIn
      <4>2. Stated = 0 => total = frames
        BY <1>3, <3>1, <3>3, TotalKnown
      <4>3. q \in Nat
        BY <2>1, <3>1, DivisionBounds DEF Reading
      <4> HIDE DEF frames, q
      <4> QED BY <2>6, <4>1, <4>2, <4>3 DEF Least
    <3>4. CASE ~Compressed(fmt) /\ ~Decodes(fmt)
      <4>1. n = 0 /\ frames = 0
        BY <2>2, <3>1, <3>4 DEF Ended, FramesIn
      <4> HIDE DEF frames
      <4> QED BY <2>6, <4>1 DEF Least
    <3> QED BY <3>2, <3>3, <3>4
  <2> QED BY <2>3, <2>4, <2>5, <2>7
<1> QED BY <1>1, <1>2, <1>3 DEF SoundIsFile

LEMMA ParseHolds ==
  ASSUME WavAssumption, WavInv, Parse
  PROVE  WavInv'
<1>1. CASE OpenWav
  BY <1>1, OpenKeeps
<1>2. CASE ReadContainer
  BY <1>2, ContainerKeeps
<1>3. CASE EndOfChunks
  BY <1>3, EndOfChunksKeeps
<1>4. CASE Describe
  BY <1>4, DescribeKeeps
<1>5. ASSUME NEW k \in DOMAIN file.chunks,
             \/ FmtChunk(k) \/ DataChunk(k) \/ FactChunk(k) \/ CommChunk(k) \/ SsndChunk(k)
             \/ OtherChunk(k)
      PROVE WavInv'
  BY <1>5, FmtKeeps, DataKeeps, FactKeeps, CommKeeps, SsndKeeps, OtherKeeps
<1> QED BY <1>1, <1>2, <1>3, <1>4, <1>5 DEF Parse

LEMMA ReadFramesHolds ==
  ASSUME WavAssumption, WavInv, ReadFrames
  PROVE  WavInv'
BY ReadPcmKeeps, EndPcmKeeps, BeginCallKeeps, LoadBlockKeeps, EmitKeeps, DecodeBytesKeeps,
   EndAdpcmKeeps, UninitKeeps DEF ReadFrames

LEMMA WavStutters ==
  ASSUME WavInv, UNCHANGED wavVars
  PROVE  WavInv'
<1>1. /\ file' = file /\ wavStage' = wavStage /\ position' = position /\ hdr' = hdr /\ left' = left
      /\ total' = total /\ block' = block /\ call' = call /\ decoded' = decoded
  BY DEF wavVars, parseVars
<1>2. Bytes' = Bytes
  BY <1>1, BytesStay
<1>3. WavTypes' /\ HeaderTrue' /\ NothingYet'
  BY <1>1 DEF WavInv, WavTypes, HeaderTrue, NothingYet
<1>4. Walks'
  BY <1>1 DEF WavInv, Walks, Met
<1>5. Described'
  BY <1>1, <1>2 DEF WavInv, Described, Playable, TotalFrames, Stated
<1>6. PcmReads'
  BY <1>1, <1>2 DEF WavInv, PcmReads, PcmAt
<1>7. AdpcmReads'
  BY <1>1 DEF WavInv, AdpcmReads, AdpcmAt, AtBoundary, InBlock
<1>8. ReadDone'
  BY <1>1 DEF WavInv, ReadDone, Ended, KnownSound
<1> QED BY <1>3, <1>4, <1>5, <1>6, <1>7, <1>8 DEF WavInv

(***************************************************************************)
(* For every file, whatever its chunks, their sizes, its formats and the   *)
(* sizes of the buffers: what load_wav reads is the file's sound, in order *)
(* and each frame of its own bytes, and all of it where its end is known;  *)
(* a whole file is not refused (drwav_init_file,                           *)
(* drwav_read_pcm_frames_f32).                                             *)
(***************************************************************************)
THEOREM SoundAlwaysIsFile == WavSpec => []SoundIsFile
<1>1. WavInit => WavInv
  BY WavAssumption, WavInitHolds
<1>2. WavInv /\ [WavNext]_wavVars => WavInv'
  BY WavAssumption, ParseHolds, ReadFramesHolds, WavStutters DEF WavNext
<1>3. WavInv => SoundIsFile
  BY WavAssumption, InvGivesSound
<1> QED BY <1>1, <1>2, <1>3, PTL DEF WavSpec
===============================================================================
