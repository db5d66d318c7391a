-------------------------------- MODULE WavFile --------------------------------
(***************************************************************************)
(* What drwav_init_file, drwav_read_pcm_frames_f32 and drwav_uninit of     *)
(* src/utils/dr_wav.h do for load_wav: find the format and the sound among *)
(* the chunks of a file, work out how many frames there are, and decode    *)
(* them through a buffer.  A file is where its chunks lie and how many     *)
(* bytes of it exist; a sample is where its bits lie.  "riff" stands for   *)
(* RIFX as well, whose bytes are swapped after they are read, and "aifc"   *)
(* for AIFF's other form.  Bytes that are no chunk end the search.         *)
(***************************************************************************)
EXTENDS Integers, Sequences

CONSTANTS
  Files,      \* the files that may be opened: [container, len, chunks]
  Buffer,     \* bytes of sampleData (4096)
  Shorts,     \* samples of samples16 (2048)
  MaxFloats,  \* floats a vector can hold
  Modulus,    \* of drwav_uint64 (2^64)
  Unstated    \* the size of what was written as a stream (0xFFFFFFFF)

VARIABLES
  file,       \* the file
  wavStage,   \* "closed", "open", "chunks", "describe", "pcm", "adpcm", "read",
              \* "done", "failed", "thrown"
  handles,    \* FILEs open
  position,   \* position in the file
  hdr,        \* what init found: fmt, pos, size, fact, aiff, and which chunks
  left,       \* bytesRemaining
  total,      \* totalPCMFrameCount
  block,      \* ADPCM: [rest, cached], bytes left in the open block and frames decoded
  call,       \* ADPCM: [want, got] of this drwav_read_pcm_frames_s16
  decoded     \* frames written to the caller's buffer

parseVars == <<left, total, block, call, decoded>>
readVars == <<file, handles, hdr, total>>
wavVars == <<file, wavStage, handles, position, hdr, parseVars>>

Least(a, b) == IF a <= b THEN a ELSE b
Aiff(f) == f.container \in {"aiff", "aifc"}
Compressed(fmt) == fmt.tag \in {"ms", "ima"}
HeadBytes(fmt) == (IF fmt.tag = "ms" THEN 7 ELSE 4) * fmt.channels

(***************************************************************************)
(* A file has one chunk of sound; its chunks hold what they are read for;  *)
(* an ADPCM block holds its heads and, in IMA, whole groups of eight       *)
(* frames.  Sizes whose sum with a position wraps are left out.            *)
(***************************************************************************)
Tags == {"pcm", "float", "law", "ms", "ima", "other"}
IsFormat(fmt) ==
  /\ fmt \in [tag : Tags, channels : Nat, bits : Nat, align : Nat, extended : BOOLEAN]
  /\ Compressed(fmt) => fmt.align >= HeadBytes(fmt)
  /\ fmt.tag = "ima" /\ fmt.channels \in {1, 2} => fmt.align % (4 * fmt.channels) = 0

IsChunk(f, c) ==
  /\ c.size \in Nat /\ c.stored \in Nat
  /\ c.id \in {"fmt", "COMM"} => IsFormat(c.fmt)
  /\ c.id = "COMM" => c.frames \in Nat
  /\ c.id = "SSND" => c.offset \in Nat /\ c.size >= 8
  /\ c.id = "fact" => c.fact \in Nat /\ c.size >= IF f.container = "w64" THEN 8 ELSE 4
  /\ c.id = "ds64" => c.data \in Nat /\ c.fact \in Nat /\ c.size >= 24

FormatId(f) == IF Aiff(f) THEN "COMM" ELSE "fmt"
SoundId(f) == IF Aiff(f) THEN "SSND" ELSE "data"

IsFile(f) ==
  /\ f.container \in {"riff", "rf64", "w64", "aiff", "aifc", "unknown"}
  /\ f.len \in Nat /\ f.len < Modulus
  /\ f.chunks \in Seq({f.chunks[k] : k \in DOMAIN f.chunks})
  /\ \A k \in DOMAIN f.chunks : IsChunk(f, f.chunks[k])
  /\ \A j, k \in DOMAIN f.chunks : f.chunks[j].id = SoundId(f) /\ f.chunks[k].id = SoundId(f) => j = k

ASSUME WavAssumption ==
  /\ \A f \in Files : IsFile(f)
  /\ Buffer \in Nat /\ Shorts \in Nat \ {0, 1} /\ MaxFloats \in Nat /\ Modulus \in Nat \ {0}
  /\ Unstated \in Nat

NoFormat == [tag |-> "other", channels |-> 0, bits |-> 0, align |-> 0, extended |-> FALSE]
NoHeader == [fmt |-> NoFormat, pos |-> 0, size |-> 0, fact |-> 0, aiff |-> 0, found |-> {}]
NoBlock == [rest |-> 0, cached |-> <<>>]
NoCall == [want |-> 0, got |-> 0]

WavInit ==
  /\ file \in Files /\ wavStage = "closed" /\ handles = 0 /\ position = 0 /\ hdr = NoHeader
  /\ left = 0 /\ total = 0 /\ block = NoBlock /\ call = NoCall /\ decoded = <<>>
--------------------------------------------------------------------------------
Preamble(f) == IF f.container = "w64" THEN 40 ELSE 12
HeaderBytes(f) == IF f.container = "w64" THEN 24 ELSE 8

\* Bytes passed over after a chunk.  Variant: every container pads to even sizes.
PaddingEven(f, bytes) == bytes % 2
Padding(f, bytes) == bytes % (IF f.container = "w64" THEN 8 ELSE 2)

\* The layout of a file, as its writer lays it down: a chunk begins at a multiple
\* of 8 bytes in Wave64, of 2 in the others.
Alignment(f) == IF f.container = "w64" THEN 8 ELSE 2
Filling(f, bytes) == (Alignment(f) - (bytes % Alignment(f))) % Alignment(f)

\* Where the k-th chunk begins; after the last, where the next would.
StartsOf(f) ==
  LET starts[k \in 1..(Len(f.chunks) + 1)] ==
        IF k = 1 THEN Preamble(f)
        ELSE LET stored == f.chunks[k - 1].stored
             IN  starts[k - 1] + HeaderBytes(f) + stored + Filling(f, stored)
  IN  starts
ChunkAt(f, k) == StartsOf(f)[k]

Holds(n) == position + n <= file.len         \* onRead(n) = n

\* drwav__read_chunk_header succeeds on the k-th chunk.
Here(k) == ChunkAt(file, k) = position /\ Holds(HeaderBytes(file))
Handled(f) == IF Aiff(f) THEN {"COMM", "SSND"} ELSE {"fmt", "data", "fact"}
Reads(id, k) ==
  /\ wavStage = "chunks" /\ k \in DOMAIN file.chunks /\ Here(k)
  /\ file.chunks[k].id = id /\ id \in Handled(file)
Skipped(c) == position + HeaderBytes(file) + c.size + Padding(file, c.size)

Fail == wavStage' = "failed" /\ handles' = handles - 1
--------------------------------------------------------------------------------
\* drwav_init_file: fopen, preinit.
OpenWav ==
  /\ wavStage = "closed"
  /\ wavStage' = "open" /\ handles' = handles + 1
  /\ UNCHANGED <<file, position, hdr, parseVars>>

\* RF64 states the sizes in a ds64 chunk before all others.
SizesFirst ==
  /\ file.chunks # <<>> /\ file.chunks[1].id = "ds64"
  /\ Holds(Preamble(file) + HeaderBytes(file) + 24)

ReadContainer ==
  /\ wavStage = "open"
  /\ IF \/ file.container = "unknown" \/ ~Holds(Preamble(file))
        \/ file.container = "rf64" /\ ~SizesFirst
     THEN Fail /\ UNCHANGED <<position, hdr>>
     ELSE /\ wavStage' = "chunks" /\ UNCHANGED handles
          /\ IF file.container = "rf64"
             THEN LET ds64 == file.chunks[1]
                  IN  /\ position' = Preamble(file) + HeaderBytes(file) + ds64.size + Padding(file, ds64.size)
                      /\ hdr' = [hdr EXCEPT !.size = ds64.data, !.fact = ds64.fact]
             ELSE position' = Preamble(file) /\ UNCHANGED hdr
  /\ UNCHANGED <<file, parseVars>>

\* "fmt ": 16 bytes, or 18 and an extension that states the real format.
FmtChunk(k) ==
  /\ Reads("fmt", k)
  /\ LET c == file.chunks[k]
         needed == IF c.size = 16 THEN 16 ELSE IF c.fmt.extended THEN 40 ELSE 18
     IN  IF c.size < 16 \/ ~Holds(HeaderBytes(file) + needed) THEN Fail /\ UNCHANGED <<position, hdr>>
         ELSE /\ hdr' = [hdr EXCEPT !.fmt = c.fmt, !.found = @ \cup {"fmt"}]
              /\ position' = Skipped(c)
              /\ UNCHANGED <<wavStage, handles>>
  /\ UNCHANGED <<file, parseVars>>

\* "data" ends the search: nothing after it matters without metadata.
DataChunk(k) ==
  /\ Reads("data", k)
  /\ hdr' = [hdr EXCEPT !.pos = position + HeaderBytes(file), !.found = @ \cup {"data"},
                        !.size = IF file.container = "rf64" THEN @ ELSE file.chunks[k].size]
  /\ wavStage' = "describe"
  /\ UNCHANGED <<file, handles, position, parseVars>>

\* The count is kept for w64 alone: translatedFormatTag is not set before the
\* last chunk is read, so RIFF's test for Microsoft ADPCM never holds.
FactChunk(k) ==
  /\ Reads("fact", k)
  /\ LET c == file.chunks[k]
         needed == CASE file.container = "riff" -> 4 [] file.container = "w64" -> 8 [] OTHER -> 0
     IN  IF ~Holds(HeaderBytes(file) + needed) THEN Fail /\ UNCHANGED <<position, hdr>>
         ELSE /\ hdr' = [hdr EXCEPT !.fact = CASE file.container = "riff" -> 0
                                               [] file.container = "w64" -> c.fact
                                               [] OTHER -> @]
              /\ position' = Skipped(c)
              /\ UNCHANGED <<wavStage, handles>>
  /\ UNCHANGED <<file, parseVars>>

\* Some writers state 16 bits for a byte of A-law or mu-law; bits are rounded up.
CommFormat(fmt) ==
  LET bits == IF fmt.tag = "law" /\ fmt.bits > 8 THEN 8 ELSE fmt.bits
  IN  [fmt EXCEPT !.bits = bits + (bits % 8), !.align = (fmt.channels * bits) \div 8]

\* AIFF's format; an unknown compression fails, and AIFF's own form has none.
CommChunk(k) ==
  /\ Reads("COMM", k)
  /\ LET c == file.chunks[k]
         aifc == file.container = "aifc"
     IN  IF \/ IF aifc THEN c.size < 24 ELSE c.size # 18
            \/ ~Holds(HeaderBytes(file) + IF aifc THEN 24 ELSE 18)
            \/ aifc /\ c.fmt.tag \notin {"pcm", "float", "law"}
         THEN Fail /\ UNCHANGED <<position, hdr>>
         ELSE /\ hdr' = [hdr EXCEPT !.fmt = CommFormat(IF aifc THEN c.fmt ELSE [c.fmt EXCEPT !.tag = "pcm"]),
                                    !.aiff = c.frames, !.found = @ \cup {"fmt"}]
              /\ position' = position + HeaderBytes(file) + c.size
              /\ UNCHANGED <<wavStage, handles>>
  /\ UNCHANGED <<file, parseVars>>

SoundAt(c) == position + HeaderBytes(file) + 8 + c.offset

\* AIFF's sound, after an offset; COMM may still come.
SsndChunk(k) ==
  /\ Reads("SSND", k)
  /\ LET c == file.chunks[k]
     IN  IF ~Holds(HeaderBytes(file) + 8) THEN Fail /\ UNCHANGED <<position, hdr>>
         ELSE /\ hdr' = [hdr EXCEPT !.pos = SoundAt(c), !.found = @ \cup {"data"},
                                    !.size = IF c.size > c.offset THEN c.size - c.offset ELSE 0]
              /\ position' = Skipped(c)
              /\ UNCHANGED <<wavStage, handles>>
  /\ UNCHANGED <<file, parseVars>>

OtherChunk(k) ==
  /\ wavStage = "chunks" /\ Here(k) /\ file.chunks[k].id \notin Handled(file)
  /\ position' = Skipped(file.chunks[k])
  /\ UNCHANGED <<file, wavStage, handles, hdr, parseVars>>

EndOfChunks ==
  /\ wavStage = "chunks" /\ ~\E k \in DOMAIN file.chunks : Here(k)
  /\ wavStage' = "describe"
  /\ UNCHANGED <<file, handles, position, hdr, parseVars>>
--------------------------------------------------------------------------------
FrameBytes(fmt) ==
  LET bytes == IF fmt.bits % 8 = 0 THEN (fmt.bits * fmt.channels) \div 8 ELSE fmt.align
  IN  IF fmt.tag = "law" /\ bytes # fmt.channels THEN 0 ELSE bytes

\* No more than the file has, in 64 bits; a size nobody stated is counted from
\* where the file ends, for that is where the test above has left it.
SoundBytes ==
  LET bytes == IF hdr.size + hdr.pos > file.len THEN (file.len - hdr.pos) % Modulus ELSE hdr.size
  IN  IF bytes = Unstated /\ file.container = "riff" THEN 0 ELSE bytes

WholeFrames(fmt, bytes) ==
  IF Compressed(fmt) \/ FrameBytes(fmt) = 0 THEN bytes ELSE bytes - (bytes % FrameBytes(fmt))

BlocksIn(fmt, bytes) == (bytes + fmt.align - 1) \div fmt.align

\* Frames of an ADPCM chunk: two per byte after the headers, and those the headers
\* hold: one in IMA's; Microsoft's two are the seventh byte, which is not counted.
AdpcmHeads(fmt, bytes) == BlocksIn(fmt, bytes) * ((IF fmt.tag = "ms" THEN 6 ELSE 4) * fmt.channels)

FrameCount(fmt, bytes) ==
  IF Compressed(fmt)
  THEN (((bytes - AdpcmHeads(fmt, bytes)) * 2) \div fmt.channels)
         + (IF fmt.tag = "ima" THEN BlocksIn(fmt, bytes) ELSE 0)
  ELSE bytes \div FrameBytes(fmt)

\* The count a file states comes before the one its size gives.
Stated == IF hdr.fact # 0 THEN hdr.fact ELSE hdr.aiff
TotalFrames(fmt, bytes) == IF Stated # 0 THEN Stated ELSE FrameCount(fmt, bytes)

Valid(fmt) ==
  /\ fmt.channels \in 1..256 /\ fmt.bits \in 1..64 /\ fmt.align # 0 /\ FrameBytes(fmt) # 0
  /\ Compressed(fmt) => fmt.channels <= 2

Playable(fmt, bytes) ==
  Valid(fmt) /\ (Compressed(fmt) /\ Stated = 0 => AdpcmHeads(fmt, bytes) < bytes)

\* load_wav's vector of total * channels floats may be more than there can be.
Describe ==
  /\ wavStage = "describe"
  /\ LET bytes == WholeFrames(hdr.fmt, SoundBytes)
         frames == TotalFrames(hdr.fmt, bytes)
     IN  IF hdr.found # {"fmt", "data"} \/ ~Playable(hdr.fmt, bytes)
         THEN Fail /\ UNCHANGED <<position, left, total>>
         ELSE /\ position' = hdr.pos /\ left' = bytes /\ total' = frames
              /\ wavStage' = IF frames * hdr.fmt.channels > MaxFloats THEN "thrown"
                              ELSE IF Compressed(hdr.fmt) THEN "adpcm" ELSE "pcm"
              /\ UNCHANGED handles
  /\ UNCHANGED <<file, hdr, block, call, decoded>>
--------------------------------------------------------------------------------
\* A sample is the position of its first byte and, for ADPCM, which half of it.
SampleBytes(fmt) == FrameBytes(fmt) \div fmt.channels
PcmFrame(fmt, p) == [c \in 1..fmt.channels |-> <<p + (c - 1) * SampleBytes(fmt), 0>>]

\* 32-bit floats are read into the caller's buffer at once; the other formats are
\* read a buffer at a time, if a frame is whole bytes of each channel.
Direct(fmt) == fmt.tag = "float" /\ fmt.bits = 32
Decodes(fmt) ==
  \/ Direct(fmt)
  \/ fmt.tag # "other" /\ FrameBytes(fmt) % fmt.channels = 0 /\ FrameBytes(fmt) <= Buffer

\* drwav_read_raw: no more than the chunk has, nor the file.
FramesRead(frames) ==
  LET there == IF position <= file.len THEN file.len - position ELSE 0
  IN  Least(Least(frames * FrameBytes(hdr.fmt), left), there) \div FrameBytes(hdr.fmt)

Round ==
  LET want == total - Len(decoded)
  IN  CASE Direct(hdr.fmt) -> FramesRead(want)
        [] Decodes(hdr.fmt) /\ ~Direct(hdr.fmt) ->
             FramesRead(Least(want, Buffer \div FrameBytes(hdr.fmt)))
        [] OTHER -> 0

ReadPcm ==
  /\ wavStage = "pcm" /\ Len(decoded) < total /\ Round > 0
  /\ LET bytes == Round * FrameBytes(hdr.fmt)
     IN  /\ decoded' = decoded
               \o [i \in 1..Round |-> PcmFrame(hdr.fmt, position + (i - 1) * FrameBytes(hdr.fmt))]
         /\ position' = position + bytes /\ left' = left - bytes
  /\ wavStage' = IF Direct(hdr.fmt) THEN "read" ELSE wavStage
  /\ UNCHANGED <<readVars, block, call>>

EndPcm ==
  /\ wavStage = "pcm" /\ (Len(decoded) = total \/ Round = 0)
  /\ wavStage' = "read"
  /\ UNCHANGED <<readVars, position, left, block, call, decoded>>
--------------------------------------------------------------------------------
(***************************************************************************)
(* ADPCM: the block that is open, and frames decoded from it and not yet   *)
(* asked for, outlive the call that read them.  Heads are taken as valid.  *)
(***************************************************************************)
BeginCall ==
  /\ wavStage = "adpcm" /\ call.want = 0 /\ Len(decoded) < total
  /\ call' = [want |-> Least(total - Len(decoded), Shorts \div hdr.fmt.channels), got |-> 0]
  /\ UNCHANGED <<readVars, wavStage, position, left, block, decoded>>

InCall == wavStage = "adpcm" /\ call.want > 0
Drained == block.cached = <<>>

\* The call returns early; the caller tries again unless it got nothing.
ReturnShort ==
  /\ call' = NoCall
  /\ wavStage' = IF call.got = 0 THEN "read" ELSE wavStage

HeadFrames(fmt, p) ==
  [i \in 1..(IF fmt.tag = "ms" THEN 2 ELSE 1) |->
     [c \in 1..fmt.channels |-> <<p, (i - 1) * fmt.channels + c>>]]

LoadBlock ==
  /\ InCall /\ Drained /\ block.rest = 0
  /\ IF Holds(HeadBytes(hdr.fmt))
     THEN /\ position' = position + HeadBytes(hdr.fmt)
          /\ block' = [rest |-> hdr.fmt.align - HeadBytes(hdr.fmt),
                       cached |-> HeadFrames(hdr.fmt, position)]
          /\ UNCHANGED <<wavStage, call>>
     ELSE ReturnShort /\ UNCHANGED <<position, block>>
  /\ UNCHANGED <<readVars, left, decoded>>

Emit ==
  /\ InCall /\ ~Drained
  /\ decoded' = Append(decoded, Head(block.cached))
  /\ block' = [block EXCEPT !.cached = Tail(@)]
  /\ call' = [want |-> call.want - 1, got |-> call.got + 1]
  /\ UNCHANGED <<readVars, wavStage, position, left>>

\* The frames in the next bytes at p: for Microsoft a byte, two frames of one
\* channel or one of two; for IMA eight frames, four bytes of each channel.
GroupBytes(fmt) == IF fmt.tag = "ms" THEN 1 ELSE 4 * fmt.channels

MsFrames(fmt, p) ==
  IF fmt.channels = 1 THEN <<<<<<p, 1>>>>, <<<<p, 2>>>>>> ELSE <<<<<<p, 1>>, <<p, 2>>>>>>

ImaFrames(fmt, p) ==
  [i \in 1..8 |-> [c \in 1..fmt.channels |->
     <<p + 4 * (c - 1) + ((i - 1) \div 2), 1 + ((i - 1) % 2)>>]]

DecodeBytes ==
  /\ InCall /\ Drained /\ block.rest > 0
  /\ LET fmt == hdr.fmt
     IN  IF Holds(GroupBytes(fmt))
         THEN /\ position' = position + GroupBytes(fmt)
              /\ block' = [rest |-> block.rest - GroupBytes(fmt),
                           cached |-> IF fmt.tag = "ms" THEN MsFrames(fmt, position)
                                      ELSE ImaFrames(fmt, position)]
              /\ UNCHANGED <<wavStage, call>>
         ELSE ReturnShort /\ UNCHANGED <<position, block>>
  /\ UNCHANGED <<readVars, left, decoded>>

EndAdpcm ==
  /\ wavStage = "adpcm" /\ call.want = 0 /\ Len(decoded) = total
  /\ wavStage' = "read"
  /\ UNCHANGED <<readVars, position, left, block, call, decoded>>

Uninit ==
  /\ wavStage = "read"
  /\ wavStage' = "done" /\ handles' = handles - 1
  /\ UNCHANGED <<file, position, hdr, parseVars>>
--------------------------------------------------------------------------------
Parse ==
  \/ OpenWav \/ ReadContainer \/ EndOfChunks \/ Describe
  \/ \E k \in DOMAIN file.chunks :
       \/ FmtChunk(k) \/ DataChunk(k) \/ FactChunk(k) \/ CommChunk(k) \/ SsndChunk(k)
       \/ OtherChunk(k)
ReadFrames ==
  \/ ReadPcm \/ EndPcm \/ BeginCall \/ LoadBlock \/ Emit \/ DecodeBytes \/ EndAdpcm \/ Uninit
WavNext == Parse \/ ReadFrames
WavSpec == WavInit /\ [][WavNext]_wavVars
--------------------------------------------------------------------------------
(***************************************************************************)
(* The sound of a file, from its layout alone: the chunk that holds it,    *)
(* the bytes of it that exist, the frames in them, and the k-th of these.  *)
(***************************************************************************)
HasSound(f) == \E k \in DOMAIN f.chunks : f.chunks[k].id = SoundId(f)
SoundChunk(f) == CHOOSE k \in DOMAIN f.chunks : f.chunks[k].id = SoundId(f)
SoundStart(f) ==
  ChunkAt(f, SoundChunk(f)) + HeaderBytes(f)
    + (IF Aiff(f) THEN 8 + f.chunks[SoundChunk(f)].offset ELSE 0)
SoundEnd(f) == ChunkAt(f, SoundChunk(f)) + HeaderBytes(f) + f.chunks[SoundChunk(f)].stored
SoundLength(f) == Least(SoundEnd(f), f.len) - SoundStart(f)

Formats(f) ==
  {IF f.container = "aiff" THEN CommFormat([f.chunks[k].fmt EXCEPT !.tag = "pcm"])
   ELSE IF f.container = "aifc" THEN CommFormat(f.chunks[k].fmt) ELSE f.chunks[k].fmt :
     k \in {j \in DOMAIN f.chunks : f.chunks[j].id = FormatId(f)}}

\* What the headers say of its size.
Declared(f) ==
  LET c == f.chunks[SoundChunk(f)]
  IN  CASE f.container = "rf64" -> f.chunks[1].data
        [] Aiff(f) -> IF c.size > c.offset THEN c.size - c.offset ELSE 0
        [] OTHER -> c.size

\* It is the size of the sound; or more, and nothing follows the sound.
EndKnown(f) ==
  /\ SoundLength(f) >= 0
  /\ \/ Declared(f) = SoundEnd(f) - SoundStart(f)
     \/ Declared(f) > SoundEnd(f) - SoundStart(f) /\ f.len <= SoundEnd(f)
  /\ f.container = "riff" => SoundLength(f) # Unstated

\* Frames in a block's first bytes, heads included.
FramesOfBlock(fmt, bytes) ==
  IF bytes = 0 THEN 0
  ELSE (IF fmt.tag = "ms" THEN 2 ELSE 1) + (((bytes - HeadBytes(fmt)) * 2) \div fmt.channels)

FramesIn(fmt, bytes) ==
  IF Compressed(fmt)
  THEN (bytes \div fmt.align) * FramesOfBlock(fmt, fmt.align) + FramesOfBlock(fmt, bytes % fmt.align)
  ELSE IF Decodes(fmt) THEN bytes \div FrameBytes(fmt) ELSE 0

\* An ADPCM sound ends with a block or within one, after its heads and a group.
WholeBlocks(fmt, bytes) ==
  LET rest == bytes % fmt.align
  IN  rest # 0 => rest >= HeadBytes(fmt) /\ ((rest - HeadBytes(fmt)) % GroupBytes(fmt)) = 0

FrameOf(f, fmt, k) ==
  LET perBlock == FramesOfBlock(fmt, fmt.align)
      heads == IF fmt.tag = "ms" THEN 2 ELSE 1
      start == SoundStart(f) + (k \div perBlock) * fmt.align
      body == start + HeadBytes(fmt)
      r == k % perBlock
      b == r - heads
  IN  [c \in 1..fmt.channels |->
         CASE ~Compressed(fmt) -> <<SoundStart(f) + k * FrameBytes(fmt) + (c - 1) * SampleBytes(fmt), 0>>
           [] Compressed(fmt) /\ r < heads -> <<start, r * fmt.channels + c>>
           [] fmt.tag = "ms" /\ r >= heads /\ fmt.channels = 1 -> <<body + (b \div 2), 1 + (b % 2)>>
           [] fmt.tag = "ms" /\ r >= heads /\ fmt.channels = 2 -> <<body + b, c>>
           [] OTHER -> <<body + (b \div 8) * 4 * fmt.channels + 4 * (c - 1) + ((b % 8) \div 2),
                         1 + (b % 2)>>]

\* A whole file of a known kind, its sizes true and its format where it is looked for.
Readable(f) ==
  /\ f.container # "unknown" /\ ChunkAt(f, Len(f.chunks) + 1) <= f.len
  /\ f.container = "rf64" => f.chunks # <<>> /\ f.chunks[1].id = "ds64"
  /\ \A k \in DOMAIN f.chunks :
       LET c == f.chunks[k]
       IN  /\ ~(f.container = "rf64" /\ c.id = "data") => c.size = c.stored
           /\ c.id = "fmt" => c.size >= IF c.fmt.extended THEN 40 ELSE 16
           /\ f.container = "aiff" /\ c.id = "COMM" => c.size = 18
           /\ f.container = "aifc" /\ c.id = "COMM" =>
                c.size >= 24 /\ c.size % 2 = 0 /\ c.fmt.tag \in {"pcm", "float", "law"}
  /\ HasSound(f) /\ EndKnown(f) /\ Formats(f) # {}
  /\ ~Aiff(f) => \E j \in DOMAIN f.chunks : j < SoundChunk(f) /\ f.chunks[j].id = "fmt"
  /\ \A fmt \in Formats(f) :
       Valid(fmt) /\ (Compressed(fmt) => AdpcmHeads(fmt, SoundLength(f)) < SoundLength(f))

\* The padding passed over is the padding laid down unless a Wave64 chunk has a
\* size off the multiples of 4.
PadsAgree(f) == f.container = "w64" => \A k \in DOMAIN f.chunks : (f.chunks[k].stored % 4) = 0

(***************************************************************************)
(* load_wav's buffer holds the frames of the file's sound, from the first  *)
(* and in order, each of its own bytes, wherever the chunks lie and        *)
(* however reads and blocks fall; all of them, where the end of the sound  *)
(* is known and within no group of ADPCM, unless the file states a smaller *)
(* count.  A whole file whose format comes first is not refused, Wave64    *)
(* with odd chunks excepted, nor is memory asked for that its sound does   *)
(* not need.                                                               *)
(***************************************************************************)
SoundIsFile ==
  LET frames == FramesIn(hdr.fmt, SoundLength(file))
      known == EndKnown(file) /\ (Compressed(hdr.fmt) => WholeBlocks(hdr.fmt, SoundLength(file)))
  IN  /\ wavStage = "failed" => ~(Readable(file) /\ PadsAgree(file))
      /\ wavStage = "thrown" /\ known /\ Stated = 0 /\ (Compressed(hdr.fmt) \/ Decodes(hdr.fmt)) =>
           frames * hdr.fmt.channels > MaxFloats
      /\ wavStage = "read" =>
           /\ hdr.fmt \in Formats(file)
           /\ decoded = [i \in 1..Len(decoded) |-> FrameOf(file, hdr.fmt, i - 1)]
           /\ known /\ Stated = 0 => Len(decoded) = frames
           /\ known /\ Stated # 0 /\ ~Compressed(hdr.fmt) => Len(decoded) = Least(Stated, frames)
           /\ known /\ Stated # 0 /\ Stated <= frames => Len(decoded) = Stated

(***************************************************************************)
(* What dr_wav says of a chunk's padding: "W64  = 8 byte alignment."  Then *)
(* every whole file whose format comes first is read.                      *)
(***************************************************************************)
WholeFileRead == wavStage = "failed" => ~Readable(file)
================================================================================
