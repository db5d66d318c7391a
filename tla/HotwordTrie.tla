----------------------------- MODULE HotwordTrie -----------------------------
(***************************************************************************)
(* Decoder-level hotword biasing, src/utils/hotword_boost.h as             *)
(* src/demo/asr_infer.cpp uses it: a trie over the token sequences of the  *)
(* hotwords (raw, lower case, with and without a leading space) is built   *)
(* once, then before each sample a bonus is added to the logits of the     *)
(* tokens that continue a match, and after it a single cursor follows the  *)
(* token.  Which token is sampled is left open.                            *)
(***************************************************************************)
EXTENDS Naturals, SequencesExt

CONSTANTS
  Tokens,      \* the vocabulary
  Entries,     \* token sequences of all variants of all hotwords
  MaxEmitted   \* bound: tokens sampled

ASSUME TrieAssumption ==
  /\ Entries \subseteq Seq(Tokens) /\ <<>> \notin Entries
  /\ MaxEmitted \in Nat

VARIABLES
  todo,     \* entries not inserted yet
  word,     \* entry being inserted
  at,       \* its tokens inserted so far (i)
  cur,      \* node reached in insert()
  size,     \* children.size(); nodes are 0..size-1, 0 is the root
  arcs,     \* the pairs <<node, token>> that have a child
  child,    \* arcs -> node
  cursor,   \* State::cursor
  emitted,  \* history: the tokens sampled
  spelt     \* history: node -> tokens on the way to it

insertVars == <<todo, word, at, cur, size, arcs, child, spelt>>
decodeVars == <<cursor, emitted>>
vars == <<insertVars, decodeVars>>

Node == 0..(size - 1)
Children(n) == {t \in Tokens : <<n, t>> \in arcs}

\* Trie::active(), the boost being non-zero.
Active == size > 1

Init ==
  /\ todo = Entries /\ word = <<>> /\ at = 0 /\ cur = 0
  /\ size = 1 /\ arcs = {} /\ child = <<>>
  /\ cursor = 0 /\ emitted = <<>>
  /\ spelt = [n \in {0} |-> <<>>]

------------------------------------------------------------------------------
\* Variant: the walk of an entry goes on where the last one ended.
NextEntryNoReset ==
  /\ at = Len(word) /\ todo # {}
  /\ \E w \in todo : word' = w /\ todo' = todo \ {w}
  /\ at' = 0
  /\ UNCHANGED <<cur, size, arcs, child, spelt, decodeVars>>

(***************************************************************************)
(* build(): one entry after the other, in the order of the list; insert()  *)
(* walks from the root.                                                    *)
(***************************************************************************)
NextEntry ==
  /\ at = Len(word) /\ todo # {}
  /\ \E w \in todo : word' = w /\ todo' = todo \ {w}
  /\ at' = 0 /\ cur' = 0
  /\ UNCHANGED <<size, arcs, child, spelt, decodeVars>>

Follow ==
  /\ at < Len(word) /\ <<cur, word[at + 1]>> \in arcs
  /\ cur' = child[<<cur, word[at + 1]>>]
  /\ at' = at + 1
  /\ UNCHANGED <<todo, word, size, arcs, child, spelt, decodeVars>>

Grow ==
  /\ at < Len(word) /\ <<cur, word[at + 1]>> \notin arcs
  /\ arcs' = arcs \cup {<<cur, word[at + 1]>>}
  /\ child' = [a \in arcs' |-> IF a \in arcs THEN child[a] ELSE size]
  /\ spelt' = [n \in 0..size |-> IF n < size THEN spelt[n] ELSE SubSeq(word, 1, at + 1)]
  /\ size' = size + 1
  /\ cur' = size
  /\ at' = at + 1
  /\ UNCHANGED <<todo, word, decodeVars>>

Built == todo = {} /\ at = Len(word)

(***************************************************************************)
(* boost(): how often lambda is added to the logit of t.                   *)
(***************************************************************************)
\* Variant: the test for tokens in both sets is missing.
BonusTwice(t) ==
  (IF t \in Children(cursor) THEN 1 ELSE 0)
    + (IF cursor # 0 /\ t \in Children(0) THEN 1 ELSE 0)

Bonus(t) ==
  (IF t \in Children(cursor) THEN 1 ELSE 0)
    + (IF cursor # 0 /\ t \in Children(0) /\ t \notin Children(cursor) THEN 1 ELSE 0)

\* Variant: on a miss the cursor stays.
AdvanceStays(t) ==
  cursor' = IF t \in Children(cursor) THEN child[<<cursor, t>>]
            ELSE IF t \in Children(0) THEN child[<<0, t>>] ELSE cursor

(***************************************************************************)
(* advance(): one cursor, which restarts at the root on a miss.            *)
(***************************************************************************)
Advance(t) ==
  cursor' = IF t \in Children(cursor) THEN child[<<cursor, t>>]
            ELSE IF t \in Children(0) THEN child[<<0, t>>] ELSE 0

Sample(t) ==
  /\ Built /\ Len(emitted) < MaxEmitted
  /\ IF Active THEN Advance(t) ELSE UNCHANGED cursor
  /\ emitted' = Append(emitted, t)
  /\ UNCHANGED insertVars

Next == NextEntry \/ Follow \/ Grow \/ \E t \in Tokens : Sample(t)

Spec == Init /\ [][Next]_vars

------------------------------------------------------------------------------
TypeOK ==
  /\ todo \subseteq Entries /\ word \in Seq(Tokens) /\ at \in 0..Len(word)
  /\ size \in Nat \ {0} /\ cur \in Node /\ cursor \in Node
  /\ arcs \subseteq Node \X Tokens /\ child \in [arcs -> Node]
  /\ emitted \in Seq(Tokens)
  /\ spelt \in [Node -> Seq(Tokens)]

(***************************************************************************)
(* The finished trie has exactly one node for every prefix of an entry, in *)
(* whatever order entries that share prefixes were inserted (Trie::insert).*)
(***************************************************************************)
OneNodePerPrefix ==
  /\ \A m, n \in Node : spelt[m] = spelt[n] => m = n
  /\ Built => {spelt[n] : n \in Node} = UNION {Prefixes(w) : w \in Entries \cup {<<>>}}

(***************************************************************************)
(* The cursor stands for tokens that were really emitted, and emitted      *)
(* last: no bonus rests on a match that has been broken (State::advance).  *)
(***************************************************************************)
CursorIsRecent == spelt[cursor] \in Suffixes(emitted)

(***************************************************************************)
(* "a bounded bonus added to the logits of exactly the tokens that would   *)
(* continue a match" (src/utils/hotword_boost.h:7).  No other token gets   *)
(* one: what is boosted continues, or begins, an entry after the tokens    *)
(* emitted; and once only, when it does both.                              *)
(***************************************************************************)
Continues(t) ==
  \E s \in Suffixes(emitted), w \in Entries : Append(s, t) \in Prefixes(w)

OnlyContinuationsBoosted ==
  Built => \A t \in Tokens : Bonus(t) > 0 => Bonus(t) = 1 /\ Continues(t)

\* A fresh match can start anywhere: first tokens are boosted at every cursor.
FreshMatchBoosted == Built => \A w \in Entries : Bonus(w[1]) = 1

(***************************************************************************)
(* "exactly the tokens that would continue a match": no other, and no      *)
(* beginning left out.                                                     *)
(***************************************************************************)
ExactBoost == OnlyContinuationsBoosted /\ FreshMatchBoosted
==============================================================================
