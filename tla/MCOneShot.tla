------------------------------- MODULE MCOneShot -------------------------------
(***************************************************************************)
(* The one-shot program and the demo that runs it, one part in each        *)
(* behaviour: a WAV file decoded, the samples made of what was decoded,    *)
(* the hotwords that bias its decoding, the program from its arguments to  *)
(* its exit, and a session of the demo.  Buffers are scaled down; files    *)
(* lie below, at and above each of them.                                   *)
(***************************************************************************)
EXTENDS HotwordTrie, AudioInput, AsrInfer, WavFile, StreamingSession, TLC

\* Entries that share a beginning, one inside another, and one that starts
\* with the middle of another.
MCTokens == {"a", "b", "c", "other"}
MCEntries == {<<"a", "b", "c">>, <<"a", "b">>, <<"b", "a">>, <<"a", "c">>}

\* WAV: 10 bytes of data at a time, 6 samples of ADPCM; a size below and above a
\* sound's stands for one that is not stated.
MCBuffer == 10
MCShorts == 6
MCFloats == 40
MCModulus == 1000
MCUnstated == 14
Fmt(tag, channels, bits, align) ==
  [tag |-> tag, channels |-> channels, bits |-> bits, align |-> align, extended |-> FALSE]
MCFormats ==
  {Fmt("pcm", 1, 16, 2), Fmt("pcm", 2, 24, 6), Fmt("pcm", 2, 12, 3), Fmt("pcm", 1, 12, 2),
   Fmt("float", 1, 32, 4), Fmt("float", 1, 64, 8), Fmt("law", 2, 8, 2), Fmt("law", 2, 16, 4),
   Fmt("ms", 1, 4, 11), Fmt("ms", 2, 4, 19), Fmt("ima", 1, 4, 12), Fmt("ima", 2, 4, 24),
   Fmt("other", 1, 8, 1), [Fmt("pcm", 1, 16, 2) EXCEPT !.extended = TRUE]}

WithChunk(id, bytes) == [id |-> id, size |-> bytes, stored |-> bytes]
FmtOf(f) == LET bytes == IF f.extended THEN 40 ELSE IF f.tag = "pcm" THEN 16 ELSE 18
            IN  [fmt |-> f] @@ WithChunk("fmt", bytes)
\* In Wave64, of 20 bytes with an extension of 2 instead of 18 with none.
Fmt64Of(f) == IF FmtOf(f).size = 18 THEN [FmtOf(f) EXCEPT !.size = 20, !.stored = 20] ELSE FmtOf(f)
Sound(f, n) == f.align * (IF f.tag \in {"ms", "ima"} THEN n ELSE 3 * n + 1)
DataOf(f, n, lie) == [WithChunk("data", Sound(f, n)) EXCEPT !.size = @ + lie]
DataAs(f, n, bytes) == [WithChunk("data", Sound(f, n)) EXCEPT !.size = bytes]
FactOf(bytes, n) == [fact |-> n] @@ WithChunk("fact", bytes)
Ds64Of(f, n) == [data |-> Sound(f, n), fact |-> 0] @@ WithChunk("ds64", 28)
CommOf(f, bytes, n) == [fmt |-> f, frames |-> n] @@ WithChunk("COMM", bytes)
SsndOf(f, n, offset) == [offset |-> offset] @@ WithChunk("SSND", 8 + offset + Sound(f, n))
SsndPast(f, n) == [SsndOf(f, n, 0) EXCEPT !.offset = 500]

\* The usual order, chunks between, missing and misplaced ones, sizes that lie.
Layouts(f) ==
  {[container |-> "riff", chunks |-> <<FmtOf(f), DataOf(f, n, lie)>>] : n \in {1, 2}, lie \in {0, 1, 100}}
  \cup [container : {"riff"}, chunks :
          {<<WithChunk("other", 3), FmtOf(f), FactOf(4, 2), DataOf(f, 2, 0), WithChunk("other", 2)>>,
           <<DataOf(f, 1, 0), FmtOf(f)>>, <<FmtOf(f)>>, <<FmtOf(f), DataAs(f, 1, MCUnstated)>>}]
  \cup [container : {"w64"}, chunks :
          {<<WithChunk("other", 4), Fmt64Of(f), DataOf(f, 2, 0)>>, <<Fmt64Of(f), FactOf(8, 2), DataOf(f, 2, 0)>>}]
  \cup [container : {"rf64"}, chunks : {<<Ds64Of(f, 2), FmtOf(f), DataOf(f, 2, 1000)>>, <<FmtOf(f), DataOf(f, 2, 0)>>}]
  \cup [container : {"aiff"}, chunks : {<<CommOf(f, 18, 0), SsndOf(f, 2, 0)>>, <<SsndOf(f, 1, 2), CommOf(f, 18, 4)>>}]
  \cup [container : {"aifc"}, chunks :
          {<<CommOf(f, 28, n), SsndOf(f, 2, 0)>> : n \in {0, 3}}
          \cup {<<CommOf(f, 24, n), SsndPast(f, 2)>> : n \in {0, 4}}]
  \cup [container : {"unknown"}, chunks : {<<>>}]

\* Where the file would go on.
Written(layout) == ChunkAt(layout, Len(layout.chunks) + 1)

\* Wave64 with a chunk of 18 bytes, as a format without an extension has.
OddWave64 ==
  {[len |-> Written(l)] @@ l : l \in [container : {"w64"}, chunks : 
      {<<FmtOf(f), DataOf(f, 1, 0)>> : f \in {g \in MCFormats : g.tag \in {"float", "law"}}}]}

\* Whole files and files cut short.
WavFiles ==
  UNION {{[len |-> Written(l) - cut] @@ l : cut \in {0, 1, 4, 8, 9, 30, 60} \cap 0..Written(l)} :
           l \in UNION {Layouts(f) : f \in MCFormats}}

\* Rates up, down, the same; one that divides neither way.
MCSources == [ext : {"wav", "mp3", "flac"}, opens : BOOLEAN, channels : {1, 2, 3}, rate : {2, 3, 4, 6},
            frames : {0, 1, 2, 5, 6}, silent : BOOLEAN]
MCRates == {3, 4}
MCNothing == -1

\* Command lines: complete, short of one model, in any order, ended by an error.
Word(option, value) == [option |-> option, value |-> value]
Models == <<Word("vae", TRUE), Word("lm", TRUE)>>
Contexts == {<<>>, <<"name", "name">>, <<"im_end", "im_start">>, <<"speech_pad">>}
MCCommandLines ==
  {Models \o <<Word("audio", TRUE), Word("context", c)>> : c \in Contexts}
  \cup {<<Word("audio", TRUE)>> \o Models \o <<Word("format", f)>> : f \in {"text", "json", "xml"}}
  \cup {Models, <<Word("audio", None)>>, <<Word("unknown", TRUE)>>, <<Word("help", TRUE)>>}
Keys == {"Start", "End", "Speaker", "Content"}
\* Whole segments, segments that lack a key the next has or has not, blank ones,
\* and one cut off.
MCTranscripts ==
  {<<>>, <<Keys, Keys, Keys>>, <<Keys \ {"Speaker"}, Keys, Keys \ {"Speaker"}>>,
   <<{"Start", "End"}, {"Content"}, Keys>>, <<Keys, Keys \cup {"blank"}, {"Start"}>>}
FrameCounts == {1, 3}

\* What is said, from the units before each instant and the letters: evenly,
\* with a silence, in a burst at the end, and with a phrase over and over.
Recording(n, By(_), Letter(_)) ==
  [length |-> n, at |-> [t \in 0..n |-> By(t)], said |-> [u \in 0..(By(n) - 1) |-> Letter(u)]]
Evenly(t) == t
Paused(t) == IF t < 4 THEN t ELSE IF t < 7 THEN 4 ELSE t - 3
Hurried(t) == IF t < 6 THEN t \div 2 ELSE 2 * t - 9
Once(u) == u
Repeated(u) == u % 4
MCRecordings ==
  {Recording(n, Evenly, Once) : n \in {4, 5, 8, 15}}
  \cup {Recording(10, Evenly, Repeated), Recording(11, Paused, Once), Recording(9, Hurried, Once)}

VARIABLE part

wav == <<file, position, wavStage, handles, hdr, left, total, block, call, decoded>>
input == <<raw, source, target, normalize, mono, samples, gain, step>>
infer == <<stage, args, allow, params, held, prompt, output, lines, rc>>
others == <<wav, input, infer, vars>>

\* Variables of the parts that do not run; the trie is then not begun.
NoWav ==
  /\ file = 0 /\ position = 0
  /\ wavStage = "none" /\ handles = 0 /\ hdr = 0 /\ left = 0 /\ total = 0 /\ block = 0 /\ call = 0
  /\ decoded = 0
NoInput == raw = 0 /\ source = 0 /\ target = 0 /\ normalize = 0 /\ mono = 0 /\ samples = 0 /\ gain = 0 /\ step = "none"
NoInfer ==
  /\ stage = "none" /\ args = 0 /\ allow = 0 /\ params = 0 /\ held = [r \in Resources |-> 0]
  /\ prompt = [tokens |-> <<>>, start |-> 0, count |-> 0] /\ output = <<>> /\ lines = <<>> /\ rc = 0
NoSession ==
  /\ audio = Recording(1, Evenly, Once) /\ online = FALSE /\ server = "none" /\ unread = <<>>
  /\ phase = "done" /\ pos = 0 /\ text = <<>> /\ short = {} /\ unsure = {}

OneShotInit ==
  /\ part \in {"wav", "input", "infer", "trie", "session"}
  /\ IF part = "wav" THEN WavInit ELSE NoWav
  /\ IF part = "input" THEN InputInit ELSE NoInput
  /\ IF part = "infer" THEN InferInit ELSE NoInfer
  /\ IF part = "session" THEN SessionInit ELSE NoSession
  /\ Init

SessionPart == part = "session" /\ SessionNext /\ UNCHANGED <<part, others>>

OneShotNext ==
  \/ part = "wav" /\ WavNext /\ UNCHANGED <<part, input, infer, vars, sessionVars>>
  \/ part = "input" /\ InputNext /\ UNCHANGED <<part, wav, infer, vars, sessionVars>>
  \/ part = "infer" /\ InferNext /\ UNCHANGED <<part, wav, input, vars, sessionVars>>
  \/ part = "trie" /\ Next /\ UNCHANGED <<part, wav, input, infer, sessionVars>>
  \/ SessionPart

OneShotSpec == OneShotInit /\ [][OneShotNext]_<<part, others, sessionVars>> /\ WF_sessionVars(SessionPart)
================================================================================
