--------------------------- MODULE StreamingSession ---------------------------
(***************************************************************************)
(* One transcription session of the demo, transcribe_streaming() of        *)
(* src/demo/gradio_asr_demo.py: a draft, a first full chunk that replaces  *)
(* it, then overlapping windows cut at silences whose texts are merged.    *)
(*                                                                         *)
(* What is said is a sequence of units, numbered from 0, each with its     *)
(* letter; letters repeat, and any number of units falls on an instant.    *)
(* A text is a sequence of units, of which the program sees the letters    *)
(* only, and the perfect transcript of [lo, hi) has the units said in it.  *)
(* An answer is a prefix of it, for the decoder may stop early, the        *)
(* process may die and a chunk may be refused.                             *)
(***************************************************************************)
EXTENDS Integers, Sequences

CONSTANTS
  Draft, Chunk, Overlap,  \* FIRST_CHUNK_, DEFAULT_CHUNK_ and OVERLAP_DURATION
  Search,                 \* search_range of _find_silence_boundary
  Margin,                 \* audio this much longer than the draft is streamed
  Slack, MinMatch,        \* the 20 and the 3 of _lcs_dedup
  Recordings,             \* what is said in an audio file, see IsRecording
  Refusals                \* BOOLEAN: may the server refuse a chunk

\* at[t] units are said before the instant t; said is the letter of each.
IsRecording(r) ==
  /\ r.length \in Nat \ {0}
  /\ r.at \in [0..r.length -> Nat] /\ r.at[0] = 0
  /\ \A s, t \in 0..r.length : s <= t => r.at[s] <= r.at[t]
  /\ DOMAIN r.said = 0..(r.at[r.length] - 1)

ASSUME SessionAssumption ==
  /\ {Draft, Chunk, Overlap, Search, Margin, Slack, MinMatch} \subseteq Nat \ {0}
  /\ \A r \in Recordings : IsRecording(r)
  /\ Refusals \in BOOLEAN
  /\ Draft < Chunk /\ Overlap + Search <= Chunk

VARIABLES
  audio,   \* the recording; audio.length is total_audio_duration
  online,  \* mode
  server,  \* "none" (use_server is False), "up", "dead"
  unread,  \* answers of earlier chunks that are still in the server's pipe
  phase,   \* "start", "draft", "refine", "windows", "done", "raised"
  pos,     \* the audio before pos has been through a window
  text,    \* accumulated_text
  short,   \* history: units of the chunks whose call did not return all
  unsure   \* history: units of the windows whose merge had no grounds

sessionVars == <<audio, online, server, unread, phase, pos, text, short, unsure>>

Units(lo, hi) == lo..(hi - 1)
Perfect(lo, hi) == [i \in 1..(hi - lo) |-> lo + i - 1]
Heard == {text[i] : i \in DOMAIN text}
Without(s, n) == SubSeq(s, n + 1, Len(s))
Smaller(m, n) == IF m < n THEN m ELSE n

SessionInit ==
  /\ audio \in Recordings /\ online \in BOOLEAN
  /\ server \in {"none", "up"} /\ unread = <<>>
  /\ phase = "start" /\ pos = 0 /\ text = <<>> /\ short = {} /\ unsure = {}

(***************************************************************************)
(* What the server writes for a chunk: an answer, or a refusal, which the  *)
(* client reads as two empty answers (it leaves the terminator unread).    *)
(***************************************************************************)
Answers(lo, hi) ==
  {<<SubSeq(Perfect(lo, hi), 1, n)>> : n \in 0..(hi - lo)}
    \cup (IF Refusals THEN {<< <<>>, <<>> >>} ELSE {})

\* A call to the process that is up; it may die once the answer is complete.
FromServer(lo, hi, answer) ==
  /\ server = "up" /\ server' \in {"up", "dead"}
  /\ \E a \in Answers(lo, hi) : answer = Head(unread \o a) /\ unread' = Tail(unread \o a)

\* It dies in the middle of the answer, or before.
FromDyingServer(lo, hi, answer) ==
  /\ server = "up" /\ server' = "dead"
  /\ unread = <<>> /\ answer \in {SubSeq(Perfect(lo, hi), 1, n) : n \in 0..(hi - lo)}
  /\ UNCHANGED unread

\* use_server is not looked at again: every later chunk comes back empty.
FromDeadServer(lo, hi, answer) ==
  /\ server = "dead" /\ answer = <<>> /\ UNCHANGED <<server, unread>>

\* Without a server each chunk runs asr_infer, which prints at the end.
FromTool(lo, hi, answer) ==
  /\ server = "none" /\ UNCHANGED <<server, unread>>
  /\ \E n \in 0..(hi - lo) : answer = SubSeq(Perfect(lo, hi), 1, n)

(***************************************************************************)
(* _infer(): the text of the chunk in which the units [lo, hi) are said.   *)
(***************************************************************************)
Infer(lo, hi, answer) ==
  /\ \/ FromServer(lo, hi, answer)
     \/ FromDyingServer(lo, hi, answer)
     \/ FromDeadServer(lo, hi, answer)
     \/ FromTool(lo, hi, answer)
  /\ short' = short \cup (IF answer = Perfect(lo, hi) THEN {} ELSE Units(lo, hi))

Heads(lo, hi) ==
  {SubSeq(Perfect(lo, hi), 1, n) : n \in 0..(hi - lo)}
    \cup {unread[i] : i \in DOMAIN unread}
------------------------------------------------------------------------------
\* SequenceMatcher.find_longest_match: earliest in a, then earliest in b.
Matches(a, b) ==
  {m \in (1..Len(a)) \X (1..Len(b)) \X (1..Len(a)) :
     /\ m[1] + m[3] - 1 <= Len(a) /\ m[2] + m[3] - 1 <= Len(b)
     /\ \A k \in 0..(m[3] - 1) : audio.said[a[m[1] + k]] = audio.said[b[m[2] + k]]}

Better(m, n) ==
  \/ m[3] > n[3]
  \/ m[3] = n[3] /\ m[1] < n[1]
  \/ m[3] = n[3] /\ m[1] = n[1] /\ m[2] <= n[2]

Long(a, b) == {m \in Matches(a, b) : m[3] >= MinMatch}
Best(a, b) == CHOOSE m \in Long(a, b) : \A n \in Long(a, b) : Better(m, n)

\* The overlap's share of the new text, if it is said evenly, and the ends of
\* the two texts that are compared.
Share(new, width) == (Len(new) * Overlap) \div width
TailOf(prev, new, width) ==
  Without(prev, Len(prev) - Smaller(Len(prev), Share(new, width) + Slack))
HeadOf(new, width) == SubSeq(new, 1, Smaller(Len(new), Share(new, width) + Slack))

\* Variant: the overlap is searched in all of the new text, and what is left
\* when nothing matches is cut twice as far.
DedupGreedy(prev, new, width) ==
  LET share == (2 * Len(new) * Overlap) \div width
      m == Best(prev, new)
  IN  IF prev = <<>> \/ new = <<>> THEN new
      ELSE IF Long(prev, new) = {} THEN Without(new, Smaller(share, Len(new)))
      ELSE Without(new, m[2] + m[3] - 1)

(***************************************************************************)
(* _lcs_dedup: what new adds to prev, new being the text of a window of    *)
(* this width that begins Overlap before its new part.                     *)
(***************************************************************************)
Dedup(prev, new, width) ==
  LET tail == TailOf(prev, new, width)
      head == HeadOf(new, width)
      m == Best(tail, head)
  IN  IF prev = <<>> \/ new = <<>> THEN new
      ELSE IF Long(tail, head) = {} THEN Without(new, Share(new, width))
      ELSE Without(new, m[2] + m[3] - 1)

(***************************************************************************)
(* What the merge takes for granted.  That the speech is even enough: the  *)
(* text of the overlap lies within the end that is searched, and is what   *)
(* its share says when nothing matches.  And that wording is not repeated: *)
(* what matches at the two ends is the same speech.                        *)
(***************************************************************************)
SameSpeech(tail, head) ==
  \A m \in Long(tail, head) : \A k \in 0..(m[3] - 1) : tail[m[1] + k] = head[m[2] + k]

Grounds(prev, new, overlapped, width) ==
  LET tail == TailOf(prev, new, width)
      head == HeadOf(new, width)
  IN  \/ prev = <<>> \/ new = <<>>
      \/ /\ overlapped <= Share(new, width) + Slack
         /\ Long(tail, head) = {} => overlapped = Share(new, width)
         /\ SameSpeech(tail, head)
------------------------------------------------------------------------------
\* Short or offline audio: one run of the tool on all of it.
Offline ==
  /\ phase = "start" /\ (~online \/ audio.length <= Draft + Margin)
  /\ LET all == audio.at[audio.length]
     IN  /\ \E n \in 0..all : text' = SubSeq(Perfect(0, all), 1, n)
         /\ short' = IF text' = Perfect(0, all) THEN {} ELSE Units(0, all)
  /\ phase' = "done" /\ pos' = audio.length
  /\ UNCHANGED <<audio, online, server, unread, unsure>>

Online ==
  /\ phase = "start" /\ online /\ audio.length > Draft + Margin
  /\ phase' = "draft"
  /\ UNCHANGED <<audio, online, server, unread, pos, text, short, unsure>>

DraftChunk ==
  /\ phase = "draft"
  /\ LET end == Smaller(Draft, audio.length)
     IN  \E a \in Heads(0, audio.at[end]) : Infer(0, audio.at[end], a) /\ text' = a /\ pos' = end
  /\ phase' = "refine"
  /\ UNCHANGED <<audio, online, unsure>>

RefineChunk ==
  /\ phase = "refine"
  /\ LET end == Smaller(Chunk, audio.length)
     IN  \E a \in Heads(0, audio.at[end]) :
           /\ Infer(0, audio.at[end], a)
           /\ text' = IF a # <<>> THEN a ELSE text
           /\ pos' = end
  /\ phase' = "windows"
  /\ UNCHANGED <<audio, online, unsure>>

\* Variant: a silence is searched for from the start of the window on.
EndsAnywhere ==
  LET target == Smaller(pos + Chunk, audio.length)
  IN  IF target < audio.length THEN pos..target ELSE {target}

(***************************************************************************)
(* _find_silence_boundary: the middle of a silent frame strictly within    *)
(* Search of the target and inside the audio, or the target.  Which frames *)
(* are silent is left open.                                                *)
(***************************************************************************)
Ends ==
  LET target == Smaller(pos + Chunk, audio.length)
  IN  IF target < audio.length
      THEN {target} \cup {e \in (target - Search + 1)..(target + Search - 1) : e < audio.length}
      ELSE {target}

Window ==
  /\ phase = "windows" /\ pos < audio.length
  /\ \E end \in Ends :
       LET start == IF pos < Overlap THEN 0 ELSE pos - Overlap
           lo == audio.at[start]
           hi == audio.at[end]
       IN  /\ \E a \in Heads(lo, hi) :
                /\ Infer(lo, hi, a)
                /\ text' = text \o Dedup(text, a, end - start)
                /\ unsure' = unsure \cup (IF Grounds(text, a, audio.at[pos] - lo, end - start)
                                         THEN {} ELSE Units(lo, hi))
           /\ pos' = end
  /\ UNCHANGED <<audio, online, phase>>

Finish ==
  /\ phase = "windows" /\ pos >= audio.length
  /\ phase' = "done"
  /\ UNCHANGED <<audio, online, server, unread, pos, text, short, unsure>>

\* The process dies after poll() and before the write: the session ends.
BrokenPipe ==
  /\ phase \in {"draft", "refine", "windows"} /\ server = "up"
  /\ phase = "windows" => pos < audio.length
  /\ server' = "dead" /\ phase' = "raised"
  /\ UNCHANGED <<audio, online, unread, pos, text, short, unsure>>

SessionNext ==
  \/ Offline \/ Online \/ DraftChunk \/ RefineChunk \/ Window \/ Finish \/ BrokenPipe

SessionSpec == SessionInit /\ [][SessionNext]_sessionVars /\ WF_sessionVars(SessionNext)
------------------------------------------------------------------------------
SessionTypeOK ==
  /\ audio \in Recordings /\ online \in BOOLEAN /\ server \in {"none", "up", "dead"}
  /\ phase \in {"start", "draft", "refine", "windows", "done", "raised"}
  /\ pos \in 0..audio.length /\ Heard \subseteq Units(0, audio.at[pos])
  /\ short \cup unsure \subseteq Units(0, audio.at[pos]) /\ Len(unread) \in Nat

(***************************************************************************)
(* A unit is missing from the text only if some chunk it belongs to came   *)
(* back short, or the merge of its window had no grounds.                  *)
(***************************************************************************)
MissingHasCause == Units(0, audio.at[pos]) \ Heard \subseteq short \cup unsure

(***************************************************************************)
(* Going back, that is repeating or reordering, is confined to them too.   *)
(***************************************************************************)
BackwardsHasCause ==
  \A i, j \in DOMAIN text : i < j /\ text[j] <= text[i] => text[j] \in short \cup unsure

(***************************************************************************)
(* Speech at a constant rate in which no MinMatch units in a row are said  *)
(* a second time.  A merge then always has its grounds, so that a session  *)
(* whose calls return everything shows exactly what was said.              *)
(***************************************************************************)
Plain(r) ==
  /\ \A t \in 0..r.length : r.at[t] = r.at[1] * t
  /\ \A i, j \in 0..(r.at[r.length] - MinMatch) :
       (\A k \in 0..(MinMatch - 1) : r.said[i + k] = r.said[j + k]) => i = j

PlainIsPerfect == Plain(audio) /\ short = {} => text = Perfect(0, audio.at[pos])

(***************************************************************************)
(* Whatever is wrong with the text has a cause outside the merge: a call   *)
(* that came back short, repeated wording or uneven speech at a cut.       *)
(***************************************************************************)
WrongHasCause == MissingHasCause /\ BackwardsHasCause /\ PlainIsPerfect

\* Every window ends after it began, so the session ends.
SessionEnds == <>(phase \in {"done", "raised"})
==============================================================================
