# A verification project for VibeASR.cpp

TLA+ modules, TLC runs and TLAPS proofs about the speech recogniser of this
repository: a CPU inference runtime in C++ (two convolutional audio encoders, a
language model on llama.cpp, patches to ggml), a one-shot program, a persistent
server process that streams text, a Python demo that drives it, and a tool that
rewrites models. `src/` below is the root of the repository.

    tlc -workers 2 -config Server.cfg MCServer     # a run
    tlapm AsrSystem_proofs.tla                     # a proof

PROJECT.json lists the components, the runs, the map from definitions to lines
of source, the mutated definitions each property must reject, the hazards, the
findings and the theorems.

## 1. Inventory

| component | source | state it keeps | operations | interacts by | what is hard |
|---|---|---|---|---|---|
| server process | `src/asr_server.cpp` | models, `params` (context, format), one KV cache | input loop: `CONTEXT:`, `FORMAT:`, `EXIT`, empty line, a chunk path; `process_chunk` | stdin, stdout and stderr of the process | answers must stay delimited on every error return; settings change between chunks only; log pipe may be full |
| the demo's client | `demo/gradio_asr_demo.py`, `ASRServerProcess` | process handle, its configuration | `start`, `stop`, `_send_command`, `process_chunk_streaming`, `is_running` | writes and reads the pipes, kills the process | the process dies between any two steps; replies are matched by position only; a process outlives the session |
| streaming session | `demo/gradio_asr_demo.py`, `transcribe_streaming` | committed text, position in the audio | draft, refine, windows | calls the client or the one-shot program | silence boundary, overlap, repeated wording and uneven speech at a cut, failures of single windows |
| one-shot program | `demo/asr_infer.cpp`, `utils/prompt_builder.h` | models, contexts, backend, sampler, prompt | arguments, load, encode, prompt, prefill, decode, print, release | files, llama.cpp, both encoders | every step may fail with things held; two ways out; text between special tokens |
| chunk decoding | `src/asr_server.cpp`, `demo/asr_infer.cpp`, `utils/prompt_builder.h` | KV cache, positions, generated tokens | encode, build prompt, prefill in three segments of batches, sample, decode, stream | llama.cpp | pads against frames, batch boundaries, cache full, what is left by a failed chunk |
| hotword biasing | `utils/hotword_boost.h` | trie, current nodes | build, boost logits, accept a token | `asr_infer` sampling | partial matches that fail |
| audio loading | `utils/audio_io.h` | samples | choose a decoder, mix, resample, normalise | the two decoders | positions are doubles; last samples |
| WAV decoding | `utils/dr_wav.h` | chunks found, frames left, open ADPCM block | open, walk the chunks, count frames, read PCM, floats, companded and ADPCM samples, close | `load_wav` | five containers, padding, sizes that lie, blocks that outlive a buffer |
| MP3 decoding | `utils/dr_mp3.h` | window of the file, bit reservoir, cursors | skip tags, find frames, decode, delay and padding, collect | `load_mp3` | a window cut anywhere, frames that need their predecessors, tags, junk |
| encoder | `src/vae.cpp` | weights, graph, arenas | load, forward | ggml | lengths through strided convolutions, what is fused under which switch |
| parallel encoding | `demo/asr_infer.cpp` 304-385 | two encoder threads, affinity | split the cores, encode, join | both encoders | failure of one side, restoring affinity |
| fused int8 nodes | `patches/0001-ggml-i8s-fast-paths.patch` | work buffer shared by all threads and nodes | two-pass GEMM and convolution: float outputs, reduce, quantise | ggml thread pool, barriers | data race on the shared maxima, partition edges, one node overrunning the next |
| int8 kernels, pack cache | `src/ggml-vae-i8_s-mad.cpp` | cache of packed weights keyed by address | dot products, packing, epilogues | fused nodes | 16-bit accumulators, ragged ends, stale packs, spans cut by callers |
| ternary kernels | `src/ggml-lm-mad.cpp` | none | 2-bit layout, dot products | llama.cpp | permutations of registers, 16-bit accumulators |
| instruction set, statistics | `src/ggml-lm-mad.cpp`, `include/vibeasr-*.h` | cached level, slots of counters | detect, override, count, dump | all kernels | caches and counters without locks |
| requantisation tool | `tools/requant_lm_head.cpp` | tensors, rows of the target | read, find, quantise by threads, write | files | rows dealt to threads, errors half way |
| kernel benchmark | `bench/kernel_bench.cpp` | none | reference, comparison, timing | the kernels | its references are taken as the specification |
| converters, set-up, measurement scripts, generated files | `utils/*.py`, `setup_env.py`, `bench/`, `build2/` | none | offline | files | none |

What makes each one correct:

- server: one delimited answer per line, in order; every line taken is answered,
  failed chunks too; a chunk uses the settings of the last command before it;
- client: the line it reads belongs to the chunk it asked about; an
  acknowledgement is that of its command; the hotwords of the session are in
  force; every call returns whatever happens to the process;
- both together: a service that answers one chunk at a time, completely, in
  order, or says why not;
- session: the text is the transcript of the audio, up to what chunks that came
  back short and windows that cannot be merged for certain have cost; it ends;
- one-shot program: nothing of the models is held at the exit, whatever failed;
  one region of speech in the prompt, where the features go; a complete segment
  is printed as it is, whatever its neighbours lack;
- decoding: the cache holds the prompt of this chunk in order and nothing else;
  samples are drawn from logits that exist; generated tokens continue the
  sequence; both output modes show the same text;
- hotwords: exactly the tokens that continue a match get the bonus, once;
- audio: every sample is made of the frames of the file at its time; the decoders
  return the sound the layout of the file says, whole and once, and no tag or padding;
- encoder: as many frames as the buffers were sized for; whatever is fused,
  packed or switched off computes the same;
- parallel encoding: the two pools own their cores, and after it, failed or not,
  the program has all cores and threads again;
- fused nodes: the same output for every thread count and every schedule; no
  output read before it is complete or overwritten while it is read;
- kernels: each cell of a product is written once; every weight meets its own
  activation once; sums do not wrap; the spans callers cut do not show;
- instruction set and statistics: one level, one the machine executes; no call
  goes uncounted while slots suffice;
- tool: only the target changes, and all of it.

## 2. Modules

    AsrServer ──────── AsrPipeline ────── Server_proofs        server and a peer that writes ahead
        └───────────── AsrSystem ──────── AsrSystem_proofs     server and the demo's client
                           └ refines ──── ChunkService         what a caller may expect
    StreamingSession ──────────────────── StreamingSession_proofs   a session of the demo
    Frames ─────────── ChunkDecode ────── Server_proofs        what a chunk goes through
    AsrInfer, HotwordTrie ─┐
    AudioInput, WavFile ───┴───────────── OneShot_proofs       the one-shot program, WAV to samples
    Mp3Stream ─────────────────────────── Mp3_proofs           MP3 to samples
    EncoderGraph ───── EncodePair ─────── EncodePair_proofs    graphs; both encoders at once
    FusedNode, Epilogues, KernelStats, Requant ─ Kernels_proofs
    ConvGemm, DotKernels, SmallDots ─────┘
    DataInduction                         lemmas the proofs share
    MC<module>                            instances for TLC

Three MC modules hold several parts that do not interact (`MCServer`,
`MCKernels`, and `MCOneShot`, which also has the session): a variable `part` is chosen initially, the
variables of the other parts keep a fixed value, and a behaviour is one of
the chosen part's. A property of a part is then `part = ... => ...`, and says
nothing of the others.

**AsrServer** is the process as seen through its three pipes. `srv` is where it
stands: loading, at the top of the loop, before the prompt of a chunk is built,
streaming, before the timing line, shutting down. A line of stdin or stdout is
a record; `id` numbers the input lines and an output line carries the `id` of
the line it answers. The real line does not: no action reads it, it is there
for the properties. The log lines a handler writes at one place are one line,
and `Log` is enabled only when the pipe has room, so a full stderr pipe blocks
the action it belongs to, the error returns of `process_chunk` included: each
has written a message there before it prints `[ERROR]`. `CONTEXT:` and `FORMAT:`
set one string each in the same way, and `setting` is either. `BadChunks` are the chunks on which some step of
`process_chunk` fails, before or after the prompt. `Crash` stands for abort,
kill and out-of-memory. `--stream` is taken as given: without it the text is
printed at once, which is the same sequence of lines.

**AsrPipeline** adds a driver that writes any lines ahead of the answers, closes
stdin when it likes and reads the log when it likes.

**AsrSystem** adds the client. A call is a sequence of steps (poll, write, read
one line, wait) and the server moves or dies between any two. `phase` is the
step. `start` either reuses the running process (and sends a non-empty hotword
text by `CONTEXT:`) or stops it and launches another. A hotword text of several
lines is several protocol lines, as in the code; a text longer than the server's
line buffer (4096) is cut in the same way. `slipped` is a history variable for the
two places where the client loses its place in the stream: an `[ERROR]` line and
a hotword text of several lines.

**ChunkService** is the abstract service: begin, pieces spoken, pieces heard in
order, an end that is complete only when everything was spoken and heard. The
refinement mapping of `AsrSystem!Service` is three operators: `Call`, the request
in progress; `Spoken`, the pieces the server has emitted for it; `Closed`, that its
terminator is in the pipe or has been read.

**StreamingSession** is `transcribe_streaming`: a draft, a first full chunk that
replaces it, then windows that overlap by `Overlap` and end at a silence. What is
said is a sequence of units, each with its letter. Letters repeat, and any number of units
falls on an instant, so wording recurs, speakers pause and hurry. A text is
a sequence of units, so losing, repeating and reordering are visible; the program
sees the letters only. A chunk is answered in one step by what
AsrSystem allows: any prefix of its text, a refusal (which leaves a terminator
in the pipe, `unread`), nothing from a dead process, a broken pipe. `Dedup` is
`_lcs_dedup` with difflib's choice of the longest match among letters. What the
merge takes for granted is `Grounds`: the text of the overlap lies in the end
that is searched, and is what its share of the window says when nothing matches (even
speech); and what matches there is the same speech (no repeated wording). Two history
variables keep where something else than the merge may be at fault: `short`, the units of chunks that
came back short, and `unsure`, those of windows merged without grounds.
`WrongHasCause` says that whatever is missing, repeated or out of order lies in one
of these, and (`PlainIsPerfect`) that for even speech without repeated wording
a session whose calls return everything shows exactly what was said.

**Frames** computes how many frames seven causal convolutions make of n samples
(C's truncating division included) and how many `expected_frames` reserves.

**ChunkDecode** is `process_chunk` from the encoded chunk on, with the loops of
`prefill_segmented` and of decoding, for one chunk after the other on one KV
cache. `kv` maps positions to what was decoded there. `llama_decode` may fail at
any call and must when the cells do not fit. The sampler may return any token:
tokens are `im_start`, `assistant`, `newline`, a word, and the end of generation.
`asr_infer` takes the same steps for its one chunk.

**AsrInfer** is `asr_infer` around those steps: arguments one by one, each thing
loaded or not, encoding, prompt, prefill, decoding, display, cleanup. `held`
counts what is held of each resource; there are two ways out, the early
returns, which free by hand, and `goto cleanup`. A text is a sequence of words,
and a word may read like a special token. A segment of the output is the set of
its keys, any of which may be missing; a printed field is the number of the segment it was
found in. The code searches each key from the segment's start to the end of the
text, so `SegmentsWhole` says what can be relied on: a segment with every key is printed
with its own fields, a line mixes two segments only where the earlier lacks the
key the later gave, or its content, and words come out in the order of the segments.

**HotwordTrie** builds the trie one entry and one token at a time, in any order
of entries, then samples any token: `Bonus` is how often lambda is added to its
logit, `Advance` moves the one cursor. `Entries` are the token sequences of all
variants of all hotwords.

**WavFile** is what `load_wav` uses of dr_wav. A file is where its chunks lie,
what they declare and how many bytes exist; the parser walks it chunk by chunk
through the containers RIFF, W64, RF64 and AIFF, decides what the sound is and how
many frames it has, and reads it through its buffers. A sample is the position
of its first byte (and, in ADPCM, of its half), so a wrong offset, padding,
interleaving or left-over frame shows. The layout is the writer's: a chunk begins at a multiple
of 8 bytes in Wave64 and of 2 in the other containers (`Filling`), whatever the reader passes
over after it (`Padding`). The reference is the layout alone: the
one chunk of sound, how many bytes of it exist (`SoundLength`), how many frames are in these
(`FramesIn`), and the k-th of them (`FrameOf`). `SoundIsFile` compares: the frames
decoded are the first of the sound; all of them where the end of the sound is known (`EndKnown`: the
declared size is the true one, or larger and nothing follows) and a cut does not fall inside
an ADPCM block's heads or a group (`WholeBlocks`), unless the file states a smaller count; and a whole file with true sizes whose format
comes first (`Readable`) is not refused, where the two paddings agree (`PadsAgree`; elsewhere it is, finding 6). RIFX is RIFF with its bytes swapped after they are read.

**Mp3Stream** is `drmp3_open_file_and_read_pcm_frames_f32`. A file is a sequence
of items: tags, frames, junk. The window is the last `size` bytes before `filePos`;
`Round` tops it up, clamped to the stream, finds a frame by the headers that
follow it and decodes it with the bytes the reservoir kept. A sample names its
frame, the main data it was decoded from and its place. `Sound` is the reference,
from the layout alone: which frames can be heard and from which main data.

**AudioInput** is the rest of `load_audio`. A sample is the raw values it mixes,
a resampled one its two neighbours. Positions are exact ratios, but where the
division comes out even the double's floor may fall one short (`Floors`).

**EncoderGraph** is the list of nodes `AudioVAEEncoder::forward` emits for a
configuration `c`: type of the weights, host, and the five environment switches.
A node has the layout it reads and leaves, what it computes, and the order in
which it wants its weight packed. `Trained` is the reference: the encoder's steps without
any fusion. A projection file with a float model is left out: its weights are int8.

**EncodePair** is steps 4 and 5 of `asr_infer`: one after the other, or two
threads with a context and a part of the cores each. An encoder builds its
graph, goes through its lookups in the pack cache one by one (the cache has a
mutex, so a lookup is a step), and returns a number of frames or an error at any
moment. `mask` are the processors of the two threads, `poolOf` the threads of
the two contexts.

**FusedNode** is the protocol of the fused nodes on a pool: `step[t]` is the
step a thread is at, three per node, `arrived[t]` that it waits at the barrier
after it. Reading and writing of the shared buffer is one step per phase and
thread; that is sound because the phases of one step touch disjoint cells
(columns of the thread, its own slot, slot 0 by thread 0 alone), and where
they would not, the mutated definitions show it. The arithmetic is the constant
operators `Kernel` and `Quant`. The code stores 127 / max as the scale where
the model keeps the maximum.

**ConvGemm** is one convolution on one of four routes: the `0xC1` node on
strided windows, or im2col with the packed, the tiled or the blocked kernel. A
sum is the set of pairs <<byte of the weights, byte of the activations>> it
multiplies, so a wrong permutation, window, panel or padding shows as a wrong
pair. Each kernel is the set of rectangles of the result its loops write.

**DotKernels** is the dot products of both families (bytes, 2-bit weights) in
every instruction set. A kernel is the set of its terms: the weight and the
activation it multiplies and the lane, 16 or 32 bits, that adds the product up. Loads,
permutations of quadwords, the odd block, masks and the steps between two
widenings make the set; `Reference` is the benchmark's. The actions are the
loops over rows or columns of a call; the ternary VNNI kernel takes its columns
`I2ColBlock` at a time and looks at what is left, the others take whole parallels.

**SmallDots** is the kernels for rows of 2, 4, 8 and 16 bytes, where several
columns share a register and horizontal additions have to part them again.

**Epilogues** is the loops over floats (dequantise, quantise, scale and add,
residual, depthwise convolution). An element gets the instruction path it was
computed on and the operands it met; the callers may cut the tensor anywhere
they do in the code: at any element, or at a row for the last two.

**KernelStats** is threads that ask `vibeasr_isa` for the level (cached without a lock),
run kernels, and count them in a slot: claim and write are two steps, as the
counters are plain. **Requant** is the tool from its arguments to its exit code; a
row is where it came from and whether it is the old or the new type. The outcome of writing the
file is not looked at, so it may be missing at exit 0; rows of a source of type I2_S, whose size
the tool does not know (25-29), are left out.

## 3. Runs

| run | instance | states | shows |
|---|---|---|---|
| server | lines: 2 chunks (one unusable), 2 settings, 3 lines, stderr pipe of 1 line; chunks: lengths 0..28, ratio 4, batches of 2, 11 cells, 2 chunks, 5 tokens; MP3 files: see below | 45215 | `AnswersInOrder`, `SettingOfItsTime`, `EveryLineAnswered`; `FramesFit`, `OnlyThisChunk`, `PrefillSound`, `StreamedIsContentAfterHeader`, `EveryChunkEnds`; `SoundIsStream` |
| system_nominal | all chunks usable, one-line hotwords, 2 configurations, 3 sessions, 3 calls, 2 pieces | 47885 | client and server implement ChunkService (`ServiceSpec`) |
| system_faults | one chunk unusable, hotword lists, stderr pipe of 7 lines | 110907 | `InSync` until one of the two slips, and again after a restart; `OneLineHotwordsInForce`; `EveryCallReturnsUnlessLogFull`; `StopReturns` |
| encode_pair | 2 stages (1 and 2 blocks), 1, 3 and 7 threads, 2 and 8 processors, all configurations | 256272 | `GraphIsEncoder` under every switch, `PackedAsAsked`, `CoresOwned`, `WholeAgain` |
| kernels | see below | 205970 | `ThreadCountInvariant`, `WrittenInside`, `PoolFinishes`; `SumsAreConvolution`, `EveryCellOnce`; `OutputsWhole`, `NarrowIsExact`; `SmallSumsOwn`; `CutsDoNotShow`; `LevelRunnable`, `NoCallLost`; `OnlyTargetChanges` |
| one_shot | see below | 84310 | `SoundIsFile`, `SamplesOwn`; `NothingHeld`, `OneSpeechRegion`, `SegmentsWhole`; `OneNodePerPrefix`, `CursorIsRecent`, `ExactBoost`; `WrongHasCause`, `SessionEnds` |
| error_desync, float_encoder, conv_short, ternary_wraps, tags_read, w64_padding | | | violations: the findings of section 5 |

Why the bounds are enough.

*Server and client.* Replies slip by one, so three calls show a slip, its
effect on the next call and on a call after a restart; three sessions show
launch, reuse and replacement. One or two pieces per chunk separate "before",
"between" and "after" pieces; seven log lines are more than loading writes and
less than three chunks do, so the pipe fills in some behaviours and not in
others. Two chunks of decoding are enough for one to leave something to the next;
the lengths include none, less than a frame, exact multiples, one more and more
than the cache; eleven cells let the cache fill in the prefill and in decoding;
five tokens go past the header.

*MP3* (`load_mp3`, which server and one-shot program share, is in `server`). Windows of 15 to 20 bytes
over frames of 2 to 4, with reservoirs that grow, shrink and overflow, junk before,
between and behind frames, broken frames and tags; two headers have to match.

*Encoders.* `encode_pair` has a convolution of either kind in front of, between
and after the stages, and a stage that can be truncated; the threads lie around
the thresholds 2 and 6, with enough processors and without.

*Kernels.* Four threads on five columns give parts of 2, 2, 1 and 0 columns; the
second node depends on columns of other threads and on the scale of the first, so a
value read too early is visible in the output. The convolution scales the panel
(16 to 2), the quad (4 to 2), tiles (4 to 2), row blocks (32 to 4), column blocks
(16 to 2), parallel rows (4 to 2) and the block (32 to 4), with 90 shapes whose
channels and frames lie below, at and above each, on 1 and 3 threads. The dot
products scale the register from 32 bytes to 8 and keep the 32 steps of a group and
the 16 bits; the rows have one, three and seven blocks, a ragged end, one step more
than a group, and 257 blocks: long enough that operands of 8 would wrap if the lanes
were widened only at the end. Rows and columns come by 1, 3, 4 and 8; the column block is 3
instead of 4, so that it divides neither 4 nor 8 and its ragged end is taken. In the epilogues registers are 4 floats, tensors
have 5 and 11 columns and up to two cuts anywhere, taps below and above those
the registers hold. Three threads share two slots and run two kernels each or
none, on ten machines from one without AVX to one that grants tiles. The tool
has the target first, only, last or missing, short reads and unknown types, and
0 to 8 threads.

*One-shot.* Files of every container and fourteen formats, with formats that come late or
not at all, odd, lying and unstated sizes, sounds that begin past the end, counts that are stated, and
cut at six places; the buffer holds ten bytes and six samples, so frames
of every format straddle it; the vector holds forty floats, so that some sounds do not fit; sizes
wrap at 1000. Rates go up, down, stay,
and divide neither way. The command lines end complete, short of a model, by help
or by an error. The hotwords share beginnings, contain each other and start in
the middle of each other; five tokens are sampled. Transcripts have whole segments, segments
that lack a key the next one has or has not, blank ones and one cut off. `Wave64.cfg` replaces the files by
Wave64 with a format chunk of 18 bytes.

*Session* (in `one_shot`). Windows of 6 instants with 3 of overlap, cuts up to 2 off; recordings shorter than
the draft, just above it, one chunk, and two or three windows with a short last one; and, with one to three windows after the first chunk, a phrase
of four letters over and over, a silence as long as the overlap, and slow speech with a burst at its end.

Where an unbounded counter is capped, the cap is a constant named in the guard:
`MaxLines`, `MaxCalls`, `MaxSessions`, `MaxChunks`, `MaxPieces`, `MaxEmitted`.

Deadlock is not checked where the system may stop, which every instance may: the
server exits, the client's caller makes no more calls, the list of chunks, nodes, rows or
segments ends.

Fairness. `AsrSystem` and the lines of `MCServer` assume weak fairness of the
server's own steps and of the steps inside a call of the client: both are processes an
operating system schedules. Nobody is obliged to make a call, to crash, to fail
to load; the pipeline's driver reads its log. A blocked `readline` or a full
pipe is a disabled step, so fairness does not help it. `wait(timeout=5)` is a
step that is enabled while the process lives: it may come before or after the
process exits. The chunks of `MCServer` and the session of `MCOneShot` assume that their single
thread runs, `KernelsSpec` that each thread of the fused nodes' pool does. An error
is never obliged to happen. All other parts have safety properties only: they
are straight-line programs or loops whose bounds the properties check at the end.

## 4. Proofs

Seven modules of theorems about the components, for every value of the constants
that their named assumptions allow, and an eighth, `DataInduction`, of lemmas. All
of it is safety: an inductive invariant, three facts about it (it holds
initially, every step keeps it, it implies the property), and PTL.

**Induction over data.** The library's induction theorems take an operator as a
parameter, which the provers cannot instantiate. `DataInduction` states them with
sets and functions instead: a set of numbers that holds 0 and with n also n + 1
holds all of them (`NatSetInduction`; otherwise the numbers outside below some
k would map one to one into themselves less k), a function defined by
recursion up to n exists and is what the recursion says (`RecursionOverNat`,
`RecursiveConcat`), a non-empty set of numbers has a least (`LeastOf`), division with remainder is
unique (`DivisionUnique`). What `FlattenSeq`, the loops over samples and the walks
over nodes compute for every length rests on these.

**Kernels_proofs, FusedNode** (`NodeAssumption`: at least one thread and column,
kernels that map values to values), for every number of threads, columns
and nodes and every kernel: `TypeCorrect`, `OutputsIndependentOfThreads`
(`ThreadCountInvariant`), `OutputsWrittenInside` (`WrittenInside`).
`ThreadCountInvariant` is not inductive: it says nothing of a node in progress.
The invariant `IInv` adds, for each thread and step, that threads are at most one
barrier apart and how that orders them; that after its first phase the columns of
a thread hold the magnitudes of the current node and its slot the largest of
them; that after the second the slot of thread 0 bounds all columns and is one of
them; that after the third its columns are quantised; and that nodes nobody has
reached yet are untouched while finished ones are final. The arithmetic of the partition (every
column is dealt exactly once) is a lemma.

**KernelStats** (`StatsAssumption`: a machine with XSAVE reports at least 7 leaves; without
it `if (max_leaf < 7) return AVX2`, `ggml-lm-mad.cpp` 97, grants AVX2 unexamined): `EveryLevelRunnable`, from "the
cache holds nothing or the one answer", and `DumpLosesNoCall`. For the latter
`CountInv`: the next slot is the number of threads that counted anything, and while these
are no more than the slots, each owns its slot, what it read there is still there when it
writes, and calls counted, pending and left add up to its calls.

**Requant** (`ToolAssumption`: names in a model file are distinct): `ToolChangesOnlyTarget`. `ToolInv` says that
what is read so far is a copy of the beginning of the file, and which rows are done; the spans of
threads cover all rows for every number of rows and threads.

**Epilogues** (`EpilogueAssumption`): `CutsNeverShow`. `CutInv`: what lies before `done` has the one path and its own
operands. Loops that start at a cut treat whole registers, gamma segments and the rest; that each element
falls into one of these and meets its own operand is proved by cases of the operation.

**ConvGemm** (`GemmAssumption`: block, panel and tile sizes are positive, a stride is at most the kernel
width, a window is whole blocks, as the packed kernels demand with `n % QK_I8_S == 0`): `OneWriteEach` (`EveryCellOnce`) and
`RoutesSumConvolution` (`SumsAreConvolution`), for every shape, number of threads and size of
panels, tiles and blocks. `GemmInv`: the portions of the threads meet end to end,
so the frames before `row` are settled: each of their cells is written once and holds its sum,
and the others are as they were; once packed, the pack is what `get_pack` makes of the weights.
Three groups of lemmas carry it. The rectangles of each kernel tile the rows and columns
of a call: every cell lies in exactly one, whole or ragged (`PackedTiles`, `TileTiles`,
`BlockTiles`). A place of the pack tells its panel, its column and its weight, so the
position is one to one in them (`PutDecodes`, by `DivisionUnique` at each of the
four radixes), and a kernel meets each weight of the channel with one byte. And that
byte is, in each of the three ways to take it (padded frame, window in place, im2col), the byte of the
signal that the tap and the channel name, or a padding zero (`MeetsConvolution`).

**DotKernels** (`DotAssumption`: a register is a multiple of four bytes, groups have an even number of
steps below 256, parallels and column blocks are positive, ternary rows are whole blocks, and a kernel
of many rows called by its name gets whole parallels unless it looks at the rest):
`CallsReturnSums` (`OutputsWhole`) and `NarrowCallsExact` (`NarrowIsExact`), for every register
size and every length. The terms of a kernel are shown to be one for each position
(`OneTermEach`), by listing them: a kernel is a family of terms over the spots of its
loops (block and byte; block, group of two bits and byte; half or quarter registers; the ragged tail), and
the position of a spot is one to one, by `DivisionUnique`. The permutations of quadwords are decoded word by
word; the odd block that the NEON kernels leave behind, the starts and tails of VNNI, and the scalar rest each
have a lemma. `DotInv` does the rest: outputs before `at` are written once, from their own
operands, the others not, and where a call needs whole parallels it stays at whole ones.
For `NarrowIsExact`, the fold that adds up the lanes counts every term once, for the lanes part the
terms (`ValueExact`), if no lane wraps; and a 16-bit lane of a group gets at most `2 * Flush` products of bytes or `8 * Flush`
of fields, for a term's step and offset in the lane tell it from the others of the lane. With operands
of 8 and `Flush < 256` that stays below 2^15; a group of 256 steps could wrap. The VNNI kernels
use no narrow lane.

**SmallDots** (`SmallAssumption`): `ColumnsShareNoProduct` (`SmallSumsOwn`), for any number of
rows. `SmallInv`: rows taken have the products of their cells, the others none. The lanes a column
is read from, after none, one or two horizontal additions, hold its own bytes and no
others (`LanesOwn`).

**Server_proofs, Frames and ChunkDecode** (`FramesAssumption`, `DecodeAssumption`):

- `FramesAlwaysFit`: for any seven positive strides and every length the frames fit the
  reserved buffer and miss it by at most one. Each convolution turns `t` into
  `(t - s) / s + 1`, truncating; for `t >= s` that is the floor `t / s`, and for
  `0 < t < s` it is 1 instead of 0, which a later stage keeps at 1; floors of floors compose, so the
  result lies between the floor and the ceiling of `n / ratio`;
- `TypeCorrect`, with the bound on generated tokens;
- `CacheHoldsOneChunk`: `Spec => []OnlyThisChunk`;
- `PrefillIsSound`: `Spec => []PrefillSound`. The invariant says which items are in the
  cells below the position while each segment is under way (`ItemInPrompt`:
  an item's place in the prompt is decided by segment, count of frames and count of pads), that cells
  and positions agree, and that logits were asked for with the last batch of the
  last segment and only then;
- `StreamIsContentAfterHeader`: what was streamed after a header of three tokens is what the tool prints
  without streaming, for every sequence of tokens. The invariant gives the state of the header's automaton and the text streamed as functions of
  what was generated so far.

**Server_proofs, AsrPipeline** (`ServerAssumption`): `AnswersAlwaysInOrder`,
`SettingAlwaysOfItsTime`. The invariant `PipeInv` relates the three sequences: what waits in
stdin is the end of the script, printed answers are in order and belong to
lines taken, the one answer that may be open is that of the last line taken, and the
setting is the argument of the last command taken.

**AsrSystem_proofs** (`ServerAssumption`, `ClientAssumption`): `TypeCorrect`, `AlwaysInSync`,
`HotwordsAlwaysArrive`, `ServedUnlessSlipped`. `InSync` speaks of the line a client reads; what
makes it inductive is the whole content of both pipes at every step of the
client, as long as nothing has slipped (`InStep`): between calls they are empty and the server
rests (`Quiet`); after a launch only the greeting can come (`WhileLoading`); after a
command its line or its acknowledgement (`WhileAcking`); after a chunk is written either
its line is still in the pipe (`NotTaken`), or the server is at it and the pipe holds the pieces
emitted and not yet heard (`BeingAnswered`), or those and the closing lines follow
(`Answered`). `Numbered` orders the ids of lines, and `Owned` says whose the process and the ends
of the pipes are. For the hotwords, the last command in the pipe, or the
setting if there is none, is the session's text (`HotwordsArrive`).
`ServedUnlessSlipped` is `Spec /\ []~slipped => ServiceSpec`: from the same invariant, each
step of either process maps to a step of ChunkService or leaves its variables as they are.
The hypothesis is needed: after a slip the client hears an answer that is not its own
(finding 1).

**StreamingSession_proofs** (`SessionAssumption`: in the code's durations the draft is shorter than a chunk and overlap and
search together are no longer than one, 2.5 + 1 against 10 seconds; otherwise the overlap would reach back beyond the last
window): `WrongAlwaysHasCause`, for every recording, repeated wording, silences and bursts included. `WrongHasCause`
is not inductive: merging is only right if the text ends as the next window begins. `SessionInv` adds that answers
still unread belong to chunks already counted as short, so that a shifted answer is never taken for the whole text
of a later chunk; and that before each window either the whole overlap has a cause already or the text ends with exactly the
units of the overlap (`OverlapReady`). `CutOfPerfect` is the lemma about `_lcs_dedup`: of a whole window whose merge has
grounds never more than the overlap is cut, for no text is ahead of it, and exactly the overlap in the second case,
where the longest match is all of it, or `MinMatch` is longer and the share of the width is cut. In the first
case a wrong cut is excused by the cause before. `PlainHasGrounds` shows that even speech without repeated wording always gives
grounds: the overlap's share is exact, and a match of `MinMatch` units or more is the same speech.

**EncodePair_proofs** (`PairAssumption`, `GraphAssumption`): `CoresAlwaysOwned`, `AlwaysWholeAgain`, from
an invariant that gives masks and pools by the step of main and of the
semantic thread. `GraphAlwaysIsEncoder`: the nodes of a graph are a concatenation over stages and blocks,
and so is the reference; that they agree part by part, for every switch, type and host, is by cases, that the whole agrees by `RecursiveConcat` and
`FlattenConcat`. `AlwaysPackedAsAsked`: the nodes still to be looked up ask for the one order in which their weight is
packed (`PackInv`).

**OneShot_proofs, HotwordTrie** (`TrieAssumption`: entries are non-empty sequences of
tokens): `TypeCorrect`, `TrieIsExact`, `CursorFollows`, `BonusIsRight`,
`AlwaysFresh` and from the last two `BoostIsExact`, for every vocabulary, every set of entries and every order of
insertion. None but the first is inductive. The invariant adds `Spelling`: the arc
labelled t leads from a node to the one spelt one t longer, every node but the root has such an
arc, and no two nodes are spelt alike; `Inserted`: every node is a prefix of an entry, all prefixes of the entries inserted so far
have nodes, and the walk of the current entry stands on its prefix; `Decoding`: nothing is sampled before the
trie is finished and the cursor spells a suffix of what was.

**AudioInput** (`InputAssumption`): `SamplesAreTheFile`, for every number of channels and frames and every two rates. `InputInv` says
what each step has made of the file: the interleaved values, the averages, the resampled
positions. The bounds on the last positions are inequalities between products of rates and counts.

**AsrInfer** (`InferAssumption`): `NothingStaysHeld`, from `HeldInv`: what is held is a function of the stage, one of each
(`HeldAt`), so that both ways out free it all and nothing twice; `SpeechOnceInPrompt`, for any context, as its words are never parsed
as special tokens; `WholeSegmentsStayWhole`, for every transcript, whatever its segments lack: the field a line shows is the
nearest from its segment on (`FieldNearest`), so it is its own where the segment has the key.

**WavFile** (`WavAssumption`, about the files: at most one chunk of sound, as the format has it, for the reader takes the first `data`
and the last `SSND`; chunks as large as what is read from them; an ADPCM block holds its heads and whole groups; a file is
shorter than 2^64, and no size added to a position wraps): `SoundAlwaysIsFile`, for every number, order
and size of chunks, every container and format, every length that exists of the file and every size of the buffers.
Where chunks begin is the writer's alignment, not the reader's padding; that the two are the same in a whole file
with `PadsAgree` is a lemma (`FillingIs`). `SoundIsFile` is not inductive: it speaks of the end. `WavInv` follows the
reader through the layout:

- while it walks (`Walks`), it stands at the beginning of a chunk and has all chunks before it behind it
  (`Met`), so in a whole file it can only stop at the sound or, in AIFF, after the last chunk, with format and sound
  found. `FileLaid` turns the recursive definition of the chunks' starts into equations, `ChunksApart`
  makes a position at most one chunk's;
- what it has found is the file's (`HeaderTrue`), and so are the size and the
  count it derives (`Described`);
- while it reads samples, it stands before frame n, has decoded the n before it, and has
  the rest of the bytes left (`PcmAt`);
- in ADPCM it stands at the start of a block, or before a group in one, and `cached` are the frames
  between those decoded and that group, for any number of calls the frames of a block are
  spread over (`AdpcmAt`). That the frames of a block number what the reference says, that a group's frames are
  those of its bytes in mono and stereo, and that header bytes and groups exhaust a block are lemmas
  about `FrameOf`, by `DivisionUnique`;
- at the end (`ReadDone`, `Ended`) nothing more can be decoded: the count is reached, or the chunk, or the file.

What the code's frame count has to do with the frames that exist is arithmetic of blocks: the
heads that are subtracted, the partial block that is rounded up.

**Mp3_proofs** (`Mp3Assumption`): `SoundAlwaysIsStream`, for files of any number of frames, sizes of
frames and windows, main data and places of junk, `Mp3Invariant`, and `TagsNeverRead`. The assumption is
about the files, beyond sizes that are positive:

- `LaidOut`, `Ordered`: items lie end to end, tags only in front and at the end, a Xing tag only as the first
  frame and never together with tags at the end (finding 5: the cursor by which reads are clamped is then behind
  the file's);
- `FrameOf`: a frame and the header behind it fit the window's smallest top-up (`DRMP3_MIN_DATA_CHUNK_SIZE`, 16384 bytes;
  an MP3 frame has at most 1441), and a frame begins with no bytes of main data that the one before has used;
- `Searchable`: where no frame continues those before it, the next that is followed by enough headers, or the
  end of the audio, lies within that top-up: a window in which no frame is found is thrown away whole, and with
  it the beginning of a frame at its end.

TLC evaluates it for the files of `server` (`FilesAreAsMeant`). `SoundIsStream` speaks of the end; `Mp3Inv` follows the window:

- it begins where an item begins (`InWindow`), never right behind junk, and ends before the tags, and the
  stream's cursor is the file's, or behind it where nothing has to be clamped. `DecodeStep` is what carries it: from such
  a window one call of the decoder ends at the beginning of a later item, and what it passed over is not
  heard. If the frame at its beginning is in step, that is the next item; if not, the headers in the window decide
  as the headers of the whole file do (`SyncsAre`), since a chain of matching headers that the window cuts
  is broken nowhere before the cut (`ChainSeen`), and a break before the first frame found cannot lie inside a
  frame (`BreakBetween`);
- the decoder's header is valid exactly when the frame before the window is one that can be followed in the
  layout of the file, and then the bytes kept are the end of the
  main data of the frames in step, as many as the next frame can ask for (`Enough`). That this survives the cap of
  the reservoir, and frames too short of main data to be heard, are lemmas about the ends of sequences (`MainGrows`,
  `FrameDecoded`);
- the samples gathered are those from the delay up to the current one, and what the frame has left are the
  next (`Holding`, `Collected`). `CopyCounts` is the arithmetic of a round: the delay is passed before anything is
  copied, the padding never reached, and a round ends early only with the frame used up. `GatheredIs` turns the
  reference, a flattened sequence, into sums over items.

The type invariants of FusedNode, ChunkDecode, HotwordTrie and AsrSystem are theorems and
no run lists them.

Only model-checked: everything under fairness (liveness and ENABLED are out of the prover's
reach): `EveryLineAnswered`, `EveryChunkEnds`, `EveryCallReturnsUnlessLogFull`, `StopReturns`,
`SessionEnds`, `PoolFinishes`. Every safety property of a passing run is a theorem. No module
declares a RECURSIVE operator.

## 5. Findings

1. *An error leaves the client one answer behind.* The server closes every
   answer with `---END---`, error or not; `process_chunk_streaming` leaves at
   the `[ERROR]` line. The next chunk ends at once on the left-over terminator and
   each later one reads the answer of the one before (`error_desync`).
2. *A float model aborts on VNNI hosts.* The converter writes f32 or f16 and the
   blocks keep an F32 path, but whether a convolution becomes the int8-only node
   is decided without its type (`float_encoder`). `VIBEASR_CONV_GEMM=0` avoids it.
3. *A very short signal is convolved with what follows it.* In front of a convolution,
   fewer frames than its stride still give one output frame; the padded window
   copies past the signal where im2col has zeros (`conv_short`).
4. *The AVX2 ternary kernel can wrap.* A comment calls it numerically exact; 32
   steps of eight products of up to 2 * 127 are 65024 in a 16-bit lane (`ternary_wraps`). Random
   operands do not come near; the benchmark's do not.
5. *After a Xing frame the tags at the end are read as audio.* The stream's
   cursor goes back to the end of that frame although the file has been read further, so
   the clamp in front of the tags comes too late (`tags_read`).
6. *Wave64 chunks of some sizes are passed over wrongly.* They are aligned to 8 bytes, as the comment
   says; `drwav__chunk_padding_size_w64` returns what lies over a multiple of 8 instead of what is missing to
   the next, which is the same only for multiples of 4. After a format chunk of 18 bytes (companded or
   floating-point samples) the next header is read from the padding, and the file is refused (`w64_padding`).

Observed while modelling, without a run of their own:

- A hotword text of several lines given to a reused process becomes several
  protocol lines: the first is the context, the rest are taken for chunk paths
  (`gradio_asr_demo.py` 79, 742). `OneLineHotwordsInForce` excludes it.
- The server's stderr is a pipe nobody reads (`gradio_asr_demo.py` 119). A full
  pipe is the only thing that holds a call, says `EveryCallReturnsUnlessLogFull`.
- After an incomplete last frame decoding starts one position past the end of
  the prefill (`asr_server.cpp` 233): the position counts a pad that has no frame.
- The streamed text never shows the first token, and drops two after an
  `<|im_start|>` whatever they are (`asr_server.cpp` 265, 279). `StreamedIsContentAfterHeader` holds for the
  expected header.
- The trie's cursor has no failure links: after a miss it restarts at the root
  and can miss a longer match that the last tokens still form (`hotword_boost.h`
  91, 115).
- `asr_infer` returns 0 after the errors that `goto cleanup`, and the return after a
  language model that does not load leaves the backend initialised; `NothingHeld` leaves the backend out.
- The display of segments searches a key from the segment's start to the end of the
  text, not of the segment (`asr_infer.cpp` 623-650): a segment without a key shows the next one's, and one
  without content the next one's words, which are then printed twice. `SegmentsWhole` bounds what that can do.
- A session can lose or repeat words although every call returned everything: where wording is repeated
  near a cut the longest match may be another occurrence, and where speech is uneven the overlap's text may lie
  beyond the end that is searched, or be more or less than the share that is cut (`gradio_asr_demo.py` 570-583).
  `WrongHasCause` confines it to those windows.
- `requant_lm_head` does not look at what `gguf_write_to_file` returns (138, 207): it exits 0 and prints
  "wrote" without a file. A target of type I2_S would be read with rows of the wrong size (167), as its comment says.
- Kernel probes nest, so the products of a kernel that calls another are counted twice
  (`vibeasr-kernel-stats.h` 69). Below VNNI, `VIBEASR_ISA=scalar` still runs what the
  compiler was told it may use. With more threads than slots statistics lose updates; `NoCallLost` is for up to as many.
- Without `ACT_PARALLEL`, `quantize_i2_s` lays weights out in an order the kernels do not read.
- `requant_lm_head` writes a target of three dimensions with two.
- `dr_wav`: sizes of `SSND` are eight bytes too large, which the end of the file
  or `COMM`'s count hides; a sound before its format fails although a comment says chunks
  come in any order (3294); the frame count of Microsoft ADPCM is never taken from `fact`; a truncated last ADPCM
  block lowers the count; a data size that lies can make a short ADPCM file unplayable. A sound
  that begins past the end of the file (the offset of `SSND`) makes the bytes that are there wrap
  (3754-3794): the count becomes so large that `load_wav`'s vector throws with the file still open. A RIFF file whose
  data has 0xFFFFFFFF bytes, or as many up to its end, is taken for one of unknown size, and its bytes
  are counted from the end of the file: none. `EndKnown` leaves both out.
- `dr_mp3`: bytes after the last frame that are no frame cost the last frame; a
  frame between two stretches of junk is never found, as the search is designed.
- The README (30, 110) and the kernels' header comment (`ggml-vae-i8_s-mad.cpp` 44-53) differ
  on whether the int8 AVX2 kernel may wrap. `NarrowIsExact` checks what the benchmark claims.

## 6. Plan

Done: the modules of section 2, the runs of section 3, the proofs of section 4.

Next, in this order:

1. The GGUF reader of `vae.cpp` and the sizes of its arenas, if a reference for them can be stated
   from the code.

## 7. Not modelled

- Values of features, logits and audio, and rounding: the properties tell apart where a number
  comes from, not what it is. Sampling is "any token"; tokenisation and wording of prompts are left out.
- Of `dr_wav`: the writer, metadata, seeking, reading from memory, other output formats, headers
  of ADPCM blocks with invalid predictors, AIFF sample sizes that are no whole bytes. The second pass over the
  chunks (3711-3752) runs only with the metadata flag, which `load_wav` does not set.
- Of `dr_mp3`: the Huffman decoder, transforms and synthesis of a frame (one step
  here), layers I and II, free format, seeking, changes of rate or channels; payloads that look
  like a header.
- Of `asr_infer`: numbers in the arguments, layout of the display, escaped characters in its fields.
- Of `vae.cpp`: reading of GGUF files, arena sizes, taps for debugging. Ratios above 3200
  samples per frame would size the feature buffers too small; the models have 3200 or less.
- Of the demo: the browser side, other back ends, the display as a typewriter, waiting for audio
  time, the merging of JSON outputs, the stripping of punctuation at a cut, and difflib's shortcut for frequent
  characters in texts of 200 and more.
- The profile rows that thread 0 of both encoder pools update without
  synchronisation, under an environment variable: they are printed and never read.
- Offline converters, set-up and measurement scripts, and the generated build tree have no state to check.
