------------------------------- MODULE Mp3Stream -------------------------------
(***************************************************************************)
(* What drmp3_open_file_and_read_pcm_frames_f32 of src/utils/dr_mp3.h does *)
(* for load_mp3: skip the tags, keep a window of the file, find frames in  *)
(* it, decode each with the main data its predecessors left behind, and    *)
(* collect samples but for the encoder's delay and padding.  A file is a   *)
(* sequence of items: frames (one may carry a Xing/Info tag), junk, tags.  *)
(* A sample is the frame it comes from, the bytes of main data that frame  *)
(* was decoded from, and its place.  No payload looks like a header.       *)
(***************************************************************************)
EXTENDS Integers, SequencesExt

CONSTANTS
  Header,     \* bytes of a frame header (4)
  MinChunk,   \* DRMP3_MIN_DATA_CHUNK_SIZE (16384)
  Chunk,      \* DRMP3_DATA_CHUNK_SIZE (65536)
  Matches,    \* DRMP3_MAX_FRAME_SYNC_MATCHES (10)
  Reservoir,  \* DRMP3_MAX_BITRESERVOIR_BYTES (511)
  PerFrame,    \* of a frame (1152)
  Streams,    \* the files that may be opened: [items, channels]
  None

VARIABLES
  file,       \* [items, channels], or None
  stage,      \* "closed", "tags", "first", "xing", "read", "next", "append", "close", "loaded", "failed"
  live,       \* what is held: "file", "data" (pData), "frames" (pFrames)
  filePos,        \* position of the FILE
  stream,     \* [cursor, length, start] of pMP3
  size,       \* dataSize: the window is the size bytes before filePos
  decoder,    \* [sync, reserv]: header valid, positions of the bytes kept
  frame,      \* [item, bytes, main, used, rest] of the frame in pcmFrames
  tag,        \* [delay, padding, total] in samples; total is None when unknown
  current,    \* currentPCMFrame
  ask,        \* [want, raw]: left to read for this buffer, read by this raw call
  temp,       \* the samples in temp
  out,        \* the samples in pFrames
  cap         \* framesCapacity

inputVars == <<filePos, stream, size, decoder>>
outputVars == <<current, ask, temp, out, cap>>
mp3Vars == <<file, stage, live, inputVars, frame, tag, outputVars>>

NoTag == [delay |-> 0, padding |-> 0, total |-> None]
NoFrame == [item |-> None, bytes |-> 0, main |-> <<>>, used |-> 0, rest |-> 0]

Mp3Init ==
  /\ file = None /\ stage = "closed" /\ live = {} /\ filePos = 0
  /\ stream = [cursor |-> 0, length |-> 0, start |-> 0] /\ size = 0
  /\ decoder = [sync |-> FALSE, reserv |-> <<>>] /\ frame = NoFrame
  /\ tag = NoTag
  /\ current = 0 /\ ask = [want |-> 0, raw |-> 0] /\ temp = <<>> /\ out = <<>> /\ cap = 0

Least(a, b) == IF a <= b THEN a ELSE b
Most(a, b) == IF a >= b THEN a ELSE b
LastOf(s, n) == SubSeq(s, Most(0, Len(s) - n) + 1, Len(s))
--------------------------------------------------------------------------------
\* The layout of a file.
Start(f, k) == f.items[k].at
Size(f, k) == f.items[k].size
End(f, k) == Start(f, k) + Size(f, k)
Length(f) == End(f, Len(f.items))
Kind(f, k) == IF k \in DOMAIN f.items THEN f.items[k].kind ELSE "end"
IsFrame(f, k) == Kind(f, k) \in {"frame", "xing"}
MainOf(f, k) == [i \in 1..f.items[k].main |-> End(f, k) - f.items[k].main + i - 1]

\* A tag may come first; at the end, ID3v1 is the last, APE the last but for it.
First(f) == IF Kind(f, 1) = "id3v2" THEN 2 ELSE 1
TagsFrom(f) ==
  LET n == Len(f.items)
  IN  IF Kind(f, n) = "id3v1" THEN IF Kind(f, n - 1) = "ape" THEN n - 1 ELSE n
      ELSE IF Kind(f, n) = "ape" THEN n ELSE n + 1
AudioItems(f) == 1..(TagsFrom(f) - 1)
AudioEnd(f) == IF TagsFrom(f) > Len(f.items) THEN Length(f) ELSE Start(f, TagsFrom(f))
--------------------------------------------------------------------------------
OpenFile(f) ==
  /\ stage = "closed"
  /\ file' = f /\ stage' = "tags" /\ live' = {"file"}
  /\ UNCHANGED <<inputVars, frame, tag, outputVars>>

\* drmp3_init_internal up to the first frame.
ReadTags ==
  /\ stage = "tags"
  /\ LET skipped == IF Kind(file, 1) = "id3v2" THEN Size(file, 1) ELSE 0
     IN  /\ filePos' = skipped
         /\ stream' = [cursor |-> skipped, length |-> AudioEnd(file), start |-> skipped]
  /\ stage' = "first"
  /\ UNCHANGED <<file, live, size, decoder, frame, tag, outputVars>>

Fail == stage' = "failed" /\ live' = {}
--------------------------------------------------------------------------------
(***************************************************************************)
(* drmp3dec_decode_frame on the n bytes at p.                              *)
(***************************************************************************)
At(f, p) == CHOOSE k \in DOMAIN f.items : Start(f, k) = p
FrameAt(f, p) == \E k \in DOMAIN f.items : Start(f, k) = p /\ IsFrame(f, k)

\* In step: the next header is where this frame ends, or the window does.
InStep(f, p, n) ==
  /\ n > Header /\ FrameAt(f, p)
  /\ LET s == Size(f, At(f, p)) IN s = n \/ (s + Header <= n /\ FrameAt(f, p + s))

\* Every header in the window, up to Matches of them, is where it must be; one is.
Matched(f, k, n) ==
  \A j \in 1..Matches :
    k + j - 1 \in DOMAIN f.items /\ End(f, k + j - 1) - Start(f, k) + Header <= n => IsFrame(f, k + j)

FollowedIn(f, k, n) == Size(f, k) + Header <= n

Syncs(f, p, n) ==
  {k \in DOMAIN f.items :
     /\ IsFrame(f, k) /\ p <= Start(f, k) /\ Start(f, k) < p + n - Header
     /\ \/ LET m == p + n - Start(f, k)
           IN  Size(f, k) <= m /\ FollowedIn(f, k, m) /\ Matched(f, k, m)
        \/ Start(f, k) = p /\ Size(f, k) = n}

\* Variant: what is left over is kept from its start.
KeptFromStart(bytes) == SubSeq(bytes, 1, Least(Len(bytes), Reservoir))
Kept(bytes) == LastOf(bytes, Reservoir)

\* One frame, with the bytes kept before it.
DecodedFrame(f, k, reserv, consumed) ==
  LET item == f.items[k]
      have == LastOf(reserv, item.begin) \o MainOf(f, k)
      whole == Len(reserv) >= item.begin
  IN  [bytes |-> consumed,
       decoder |-> IF item.bad THEN [sync |-> FALSE, reserv |-> reserv]
                   ELSE [sync |-> TRUE,
                         reserv |-> Kept(IF whole THEN SubSeq(have, item.use + 1, Len(have)) ELSE have)],
       frame |-> IF item.bad \/ ~whole THEN NoFrame
                 ELSE [item |-> k, bytes |-> consumed, main |-> SubSeq(have, 1, item.use),
                       used |-> 0, rest |-> PerFrame]]

\* The frame that is found, or none: [bytes consumed, decoder, frame or NoFrame].
Decoded(f, dec, p, n) ==
  LET fast == dec.sync /\ InStep(f, p, n)
  IN  IF fast THEN DecodedFrame(f, At(f, p), dec.reserv, Size(f, At(f, p)))
      ELSE IF Syncs(f, p, n) = {}
      THEN [bytes |-> n, decoder |-> [sync |-> FALSE, reserv |-> <<>>], frame |-> NoFrame]
      ELSE LET k == Min(Syncs(f, p, n)) IN DecodedFrame(f, k, <<>>, End(f, k) - p)

(***************************************************************************)
(* One round of drmp3_decode_next_frame_ex__callbacks: top the window up,  *)
(* clamped to the stream, and decode.                                      *)
(***************************************************************************)
Clamped == Least(Least(Chunk - size, stream.length - stream.cursor), Length(file) - filePos)

\* The caller gets no frame: init fails, or the raw call ends.
NoMoreFrames ==
  IF stage = "first" THEN Fail /\ UNCHANGED ask
  ELSE /\ stage' = IF ask.raw = 0 THEN "append" ELSE "read"
       /\ ask' = [ask EXCEPT !.raw = 0]
       /\ UNCHANGED live

OutOfMemory ==
  /\ stage \in {"first", "next"} /\ "data" \notin live
  /\ NoMoreFrames
  /\ UNCHANGED <<file, inputVars, frame, tag, current, temp, out, cap>>

Round ==
  /\ stage \in {"first", "next"}
  /\ LET got == IF size < MinChunk THEN Clamped ELSE 0
         n == size + got
         d == Decoded(file, decoder, filePos - size, n)
     IN  /\ filePos' = filePos + got
         /\ stream' = [stream EXCEPT !.cursor = @ + got]
         /\ IF n = 0
            THEN NoMoreFrames /\ UNCHANGED <<size, decoder, frame>>
            ELSE /\ size' = n - d.bytes /\ decoder' = d.decoder
                 /\ live' = live \cup {"data"}
                 /\ IF d.frame = NoFrame THEN UNCHANGED <<stage, frame>>
                    ELSE frame' = d.frame /\ stage' = IF stage = "first" THEN "xing" ELSE "read"
                 /\ UNCHANGED ask
  /\ UNCHANGED <<file, tag, current, temp, out, cap>>

Buffered == (2 * PerFrame) \div file.channels

\* The first frame may be a tag: it is no sound, and the decoder starts afresh.
Inspect ==
  /\ stage = "xing"
  /\ LET item == file.items[frame.item]
     IN  IF item.kind = "xing"
         THEN /\ tag' = [delay |-> item.delay, padding |-> item.padding,
                         total |-> IF item.count = None THEN None ELSE item.count * PerFrame]
              /\ frame' = [frame EXCEPT !.rest = 0]
              /\ LET from == stream.start + frame.bytes
                 IN  stream' = [stream EXCEPT !.start = from, !.cursor = from]
              /\ decoder' = [decoder EXCEPT !.sync = FALSE]
         ELSE UNCHANGED <<tag, frame, stream, decoder>>
  /\ stage' = "read" /\ ask' = [want |-> Buffered, raw |-> 0]
  /\ UNCHANGED <<file, live, filePos, size, current, temp, out, cap>>
--------------------------------------------------------------------------------
(***************************************************************************)
(* A round of drmp3_read_pcm_frames_raw: skip the delay, stop before the   *)
(* padding, copy what the frame has left; then fetch the next frame.       *)
(***************************************************************************)
EndsWith(t) == t.total # None /\ t.total > t.padding
SoundEnd(t) == t.total - t.padding

Skipped == IF current < tag.delay THEN Least(frame.rest, tag.delay - current) ELSE 0

Copy ==
  /\ stage = "read"
  /\ LET from == current + Skipped
         free == Least(frame.rest - Skipped, ask.want)
         n == IF EndsWith(tag) THEN Least(free, Most(0, SoundEnd(tag) - from)) ELSE free
         used == frame.used + Skipped
         over == EndsWith(tag) /\ from + n >= SoundEnd(tag)
     IN  /\ current' = from + n
         /\ frame' = [frame EXCEPT !.used = used + n, !.rest = @ - Skipped - n]
         /\ temp' = temp \o [i \in 1..n |-> <<frame.item, frame.main, used + i>>]
         /\ LET raw == ask.raw + n
                done == ask.want = n
            IN  IF done \/ (over /\ raw = 0)
                THEN stage' = "append" /\ ask' = [want |-> ask.want - n, raw |-> 0]
                ELSE /\ stage' = IF over THEN "read" ELSE "next"
                     /\ ask' = [want |-> ask.want - n, raw |-> IF over THEN 0 ELSE raw]
  /\ UNCHANGED <<file, live, inputVars, tag, out, cap>>

\* drmp3__full_read_and_close_f32: make room and keep the buffer.
Room == Most(2 * cap, Len(out) + Len(temp))

AppendTemp ==
  /\ stage = "append" /\ temp # <<>>
  /\ out' = out \o temp /\ temp' = <<>>
  /\ cap' = IF cap < Len(out) + Len(temp) THEN Room ELSE cap
  /\ live' = live \cup {"frames"}
  /\ stage' = IF Len(temp) = Buffered THEN "read" ELSE "close"
  /\ ask' = [want |-> Buffered, raw |-> 0]
  /\ UNCHANGED <<file, inputVars, frame, tag, current>>

NoRoom ==
  /\ stage = "append" /\ temp # <<>> /\ cap < Len(out) + Len(temp)
  /\ out' = <<>> /\ temp' = <<>> /\ live' = live \ {"frames"} /\ stage' = "close"
  /\ UNCHANGED <<file, inputVars, frame, tag, current, ask, cap>>

NothingRead ==
  /\ stage = "append" /\ temp = <<>>
  /\ stage' = "close"
  /\ UNCHANGED <<file, live, inputVars, frame, tag, outputVars>>

Uninit ==
  /\ stage = "close"
  /\ live' = live \ {"file", "data"} /\ stage' = "loaded"
  /\ UNCHANGED <<file, inputVars, frame, tag, outputVars>>
--------------------------------------------------------------------------------
Step ==
  \/ ReadTags \/ OutOfMemory \/ Round \/ Inspect
  \/ Copy \/ AppendTemp \/ NoRoom \/ NothingRead \/ Uninit
Mp3Next == Step \/ \E f \in Streams : OpenFile(f)
Mp3Spec == Mp3Init /\ [][Mp3Next]_mp3Vars
--------------------------------------------------------------------------------
(***************************************************************************)
(* The sound of a file, from its layout: a frame is heard when a frame or  *)
(* the end of the audio follows it, when it continues frames in step or    *)
(* enough frames follow, and when those in step before it hold the main    *)
(* data it begins with.                                                    *)
(***************************************************************************)
\* There are bytes of a header where the k-th item begins.
HeaderAt(f, k) == k \in DOMAIN f.items /\ Start(f, k) + Header <= AudioEnd(f)

FollowedBy(f, k) == k + 1 \in AudioItems(f) => IsFrame(f, k + 1)
Chained(f, k) ==
  /\ \A j \in 1..Matches : HeaderAt(f, k + j) => IsFrame(f, k + j)
  /\ HeaderAt(f, k + 1) \/ (End(f, k) = AudioEnd(f) /\ Kind(f, k - 1) # "junk")

\* Where the frames in step with the k-th begin, or 0.
StepFrom(f) ==
  LET from[k \in 0..Len(f.items)] ==
        IF k \notin AudioItems(f) \/ ~IsFrame(f, k) \/ f.items[k].bad THEN 0
        ELSE IF Kind(f, k - 1) = "frame" /\ from[k - 1] > 0 /\ FollowedBy(f, k) THEN from[k - 1]
        ELSE IF Chained(f, k) THEN k ELSE 0
  IN  from

MainBefore(f, k) ==
  LET from == StepFrom(f)[k] IN FlattenSeq([i \in 1..(k - from) |-> MainOf(f, from + i - 1)])
HeardFrame(f, k) ==
  /\ Kind(f, k) = "frame" /\ StepFrom(f)[k] > 0
  /\ Len(MainBefore(f, k)) >= f.items[k].begin
MainData(f, k) == SubSeq(LastOf(MainBefore(f, k), f.items[k].begin) \o MainOf(f, k), 1, f.items[k].use)

FrameSamples(f, k) ==
  IF HeardFrame(f, k) THEN [j \in 1..PerFrame |-> <<k, MainData(f, k), j>>] ELSE <<>>
AllSamples(f) == FlattenSeq([k \in 1..Len(f.items) |-> FrameSamples(f, k)])

\* Without what the encoder put in front and behind, if the first frame tells.
Told(f) == Kind(f, First(f)) = "xing" /\ StepFrom(f)[First(f)] > 0
TagOf(f) ==
  LET x == f.items[First(f)]
  IN  IF Told(f) THEN [delay |-> x.delay, padding |-> x.padding,
                       total |-> IF x.count = None THEN None ELSE x.count * PerFrame]
      ELSE NoTag
Sound(f) ==
  LET all == AllSamples(f)
      t == TagOf(f)
  IN  SubSeq(all, t.delay + 1, IF EndsWith(t) THEN Least(Len(all), SoundEnd(t)) ELSE Len(all))

(***************************************************************************)
(* The files the program is meant for: items end to end, headers for the   *)
(* window's smallest top-up, a Xing tag only in front and never with tags  *)
(* at the end, main data used once.                                        *)
(***************************************************************************)
LaidOut(f) ==
  /\ f.channels \in {1, 2}
  /\ Len(f.items) \in Nat \ {0} /\ DOMAIN f.items = 1..Len(f.items)
  /\ Start(f, 1) = 0
  /\ \A k \in DOMAIN f.items :
       /\ Start(f, k) \in Nat /\ Size(f, k) \in Nat \ {0}
       /\ k + 1 \in DOMAIN f.items => Start(f, k + 1) = End(f, k)

Ordered(f) ==
  \A k \in First(f)..(TagsFrom(f) - 1) :
    /\ Kind(f, k) \in {"frame", "xing", "junk"}
    /\ Kind(f, k) = "xing" => k = First(f) /\ TagsFrom(f) = Len(f.items) + 1

FrameOf(f, k) ==
  LET item == f.items[k]
  IN  /\ Header < Size(f, k) /\ Size(f, k) + Header <= MinChunk
      /\ item.main \in Nat /\ item.begin \in 0..Reservoir /\ item.use \in 0..(item.begin + item.main)
      /\ item.bad \in BOOLEAN
      /\ Kind(f, k) = "frame" /\ Kind(f, k + 1) = "frame" /\ ~item.bad =>
           f.items[k + 1].begin <= (item.begin + item.main) - item.use
      /\ Kind(f, k) = "xing" =>
           /\ item.begin = 0 /\ ~item.bad
           /\ item.delay \in Nat /\ item.padding \in Nat /\ item.count \in Nat \cup {None}

\* Where no frame continues those before it, the next to begin with, or the
\* end, is within the smallest window: a window without any is skipped whole.
InStepAt(f, k) ==
  IsFrame(f, k) /\ Kind(f, k - 1) = "frame" /\ StepFrom(f)[k - 1] > 0 /\ FollowedBy(f, k)
ChainedFrom(f, k) == {s \in k..(TagsFrom(f) - 1) : IsFrame(f, s) /\ Chained(f, s)}
Searchable(f) ==
  \A k \in First(f)..(TagsFrom(f) - 1) :
    Kind(f, k - 1) # "junk" /\ ~InStepAt(f, k) =>
      IF ChainedFrom(f, k) = {} THEN AudioEnd(f) <= Start(f, k) + MinChunk
      ELSE End(f, Min(ChainedFrom(f, k))) + Header <= Start(f, k) + MinChunk

IsStream(f) ==
  LaidOut(f) /\ Ordered(f) /\ Searchable(f) /\ \A k \in DOMAIN f.items : IsFrame(f, k) => FrameOf(f, k)

Mp3Assumption ==
  /\ {Header, MinChunk, Chunk, Matches, PerFrame} \subseteq Nat \ {0}
  /\ MinChunk <= Chunk /\ Reservoir \in Nat /\ None \notin Nat
  /\ \A f \in Streams : IsStream(f)

(***************************************************************************)
(* load_mp3 gets every frame of the stream that can be heard, in order,    *)
(* each decoded from its own main data wherever the window was cut and the *)
(* reservoir capped, without the encoder's delay and padding and without   *)
(* the tags; or, out of memory, nothing.                                   *)
(***************************************************************************)
SoundIsStream == stage = "loaded" /\ out # <<>> => out = Sound(file)

(***************************************************************************)
(* No byte of a tag at the end enters the window (the comment of           *)
(* drmp3__on_read: the stream is clamped against ID3v1 or APE tags).       *)
(***************************************************************************)
TagsNotAudio == stage \in {"read", "next", "append", "close", "loaded"} => filePos <= AudioEnd(file)
================================================================================
