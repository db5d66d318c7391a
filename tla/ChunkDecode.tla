----------------------------- MODULE ChunkDecode -----------------------------
(***************************************************************************)
(* What process_chunk (src/src/asr_server.cpp, and the same steps of       *)
(* src/demo/asr_infer.cpp) does with one chunk after the other: encode,    *)
(* clear the KV cache, prefill the prompt in three segments of batches     *)
(* (src/utils/prompt_builder.h), then decode token by token.  The language *)
(* model itself is external: a cache of cells keyed by position, a decode  *)
(* call that may fail, and a sampler that may return any token.            *)
(***************************************************************************)
EXTENDS Frames, Sequences, FiniteSets

CONSTANTS
  Samples,    \* lengths a chunk can have after loading
  Pre,        \* prompt tokens before the speech pads (speech_pad_start)
  Post,       \* prompt tokens after them, at least <|speech_end|>
  NBatch,     \* params.n_batch
  NCtx,       \* params.n_ctx: cells of the KV cache
  MaxTokens,  \* params.max_tokens
  MaxChunks   \* bound: chunks processed

ASSUME DecodeAssumption ==
  /\ Samples \subseteq Nat
  /\ Pre \in Nat \ {0} /\ Post \in Nat \ {0} /\ NBatch \in Nat \ {0}
  /\ NCtx \in Nat \ {0} /\ MaxTokens \in Nat \ {0} /\ MaxChunks \in Nat

VARIABLES
  pc,       \* "idle", "prefill", "sampled" (a token was just drawn), "done"
  chunk,    \* chunks taken so far
  frames,   \* n_frames of this chunk
  pads,     \* speech_pad_count
  seg,      \* segment of prefill_segmented being decoded
  done,     \* processed: its items decoded so far
  pos,      \* next position prefill_segmented uses
  kv,       \* position |-> item in the KV cache
  logits,   \* the last llama_decode produced logits
  cur,      \* cur_pos
  gen,      \* generated_tokens
  skip,     \* header_skip_remaining
  shown     \* indices of gen that were streamed

vars == <<pc, chunk, frames, pads, seg, done, pos, kv, logits, cur, gen, skip, shown>>
prefillVars == <<frames, pads, seg, done, pos>>

Tokens == {"im_start", "assistant", "newline", "word", "eog"}
Visible(t) == t \in {"assistant", "newline", "word"}  \* token_to_piece(special = false) # ""

\* What a cell holds: the k-th prompt token, the k-th speech frame, or the k-th generated token.
Item(kind, k) == [chunk |-> chunk, kind |-> kind, k |-> k]

Lesser(a, b) == IF a <= b THEN a ELSE b

SegLen(s) == CASE s = 1 -> Pre
               [] s = 2 -> Lesser(pads, frames)
               [] s = 3 -> Post

\* Variant: segment 3 starts after the frames instead of after the pads.
SegItemShort(s, k) == CASE s = 1 -> Item("text", k)
                        [] s = 2 -> Item("frame", k)
                        [] s = 3 -> Item("text", Pre + frames + k)

SegItem(s, k) == CASE s = 1 -> Item("text", k)
                   [] s = 2 -> Item("frame", k)
                   [] s = 3 -> Item("text", Pre + pads + k)

Init ==
  /\ pc = "idle" /\ chunk = 0
  /\ frames = 0 /\ pads = 0 /\ seg = 1 /\ done = 0 /\ pos = 0
  /\ kv = <<>> /\ logits = FALSE
  /\ cur = 0 /\ gen = <<>> /\ skip = 0 /\ shown = <<>>

------------------------------------------------------------------------------
(***************************************************************************)
(* Load and encode.  No audio is an encoder error; so may anything be.     *)
(***************************************************************************)
EncodeFails ==
  /\ pc = "idle" /\ chunk < MaxChunks
  /\ chunk' = chunk + 1
  /\ UNCHANGED <<pc, prefillVars, kv, logits, cur, gen, skip, shown>>

\* Variant: the cache is not cleared.
EncodeChunkDirty(n) ==
  /\ pc = "idle" /\ chunk < MaxChunks /\ n > 0
  /\ chunk' = chunk + 1
  /\ frames' = EncoderFrames(n)
  /\ pads' = ExpectedFrames(n)
  /\ logits' = FALSE
  /\ seg' = 1 /\ done' = 0 /\ pos' = 0
  /\ pc' = "prefill"
  /\ UNCHANGED <<kv, cur, gen, skip, shown>>

EncodeChunk(n) ==
  /\ pc = "idle" /\ chunk < MaxChunks /\ n > 0
  /\ chunk' = chunk + 1
  /\ frames' = EncoderFrames(n)
  /\ pads' = ExpectedFrames(n)
  /\ kv' = <<>>                        \* llama_kv_cache_clear
  /\ logits' = FALSE
  /\ seg' = 1 /\ done' = 0 /\ pos' = 0
  /\ pc' = "prefill"
  /\ UNCHANGED <<cur, gen, skip, shown>>

(***************************************************************************)
(* llama_decode of items placed at positions p, p + 1, ...                 *)
(***************************************************************************)
Fits(len) == Cardinality(DOMAIN kv) + len <= NCtx

Place(p, items) ==
  kv' = [q \in DOMAIN kv \cup p..(p + Len(items) - 1) |->
           IF q \in p..(p + Len(items) - 1) THEN items[q - p + 1] ELSE kv[q]]

PrefillBatch ==
  /\ pc = "prefill" /\ done < SegLen(seg)
  /\ LET len == Lesser(NBatch, SegLen(seg) - done)
     IN  /\ Fits(len)
         /\ Place(pos, [i \in 1..len |-> SegItem(seg, done + i - 1)])
         /\ logits' = (seg = 3 /\ done + len = SegLen(3))
         /\ done' = done + len
         /\ pos' = pos + len
  /\ UNCHANGED <<pc, chunk, frames, pads, seg, cur, gen, skip, shown>>

NextSegment ==
  /\ pc = "prefill" /\ done = SegLen(seg) /\ seg < 3
  /\ seg' = seg + 1 /\ done' = 0
  /\ UNCHANGED <<pc, chunk, frames, pads, pos, kv, logits, cur, gen, skip, shown>>

\* llama_decode returns an error, as it must when the cells do not fit.
PrefillFails ==
  /\ pc = "prefill" /\ done < SegLen(seg)
  /\ pc' = "idle"
  /\ UNCHANGED <<chunk, prefillVars, kv, logits, cur, gen, skip, shown>>

\* Variant: one header token too few is skipped.
FirstTokenShortSkip(t) ==
  /\ pc = "prefill" /\ seg = 3 /\ done = SegLen(3)
  /\ cur' = Pre + pads + Post
  /\ gen' = <<t>>
  /\ skip' = IF t = "im_start" THEN 1 ELSE 0
  /\ shown' = <<>>
  /\ pc' = "sampled"
  /\ UNCHANGED <<chunk, prefillVars, kv, logits>>

(***************************************************************************)
(* Sample the first token from the prefill logits.  It is never streamed.  *)
(***************************************************************************)
FirstToken(t) ==
  /\ pc = "prefill" /\ seg = 3 /\ done = SegLen(3)
  /\ cur' = Pre + pads + Post          \* n_prompt_tokens
  /\ gen' = <<t>>
  /\ skip' = IF t = "im_start" THEN 2 ELSE 0
  /\ shown' = <<>>
  /\ pc' = "sampled"
  /\ UNCHANGED <<chunk, prefillVars, kv, logits>>

LastToken == gen[Len(gen)]

Continues == Len(gen) < MaxTokens /\ LastToken # "eog"

DecodeToken(t) ==
  /\ pc = "sampled" /\ Continues /\ Fits(1)
  /\ Place(cur, <<Item("generated", Len(gen))>>)
  /\ logits' = TRUE
  /\ cur' = cur + 1
  /\ gen' = Append(gen, t)
  /\ \/ skip > 0 /\ skip' = skip - 1 /\ UNCHANGED shown
     \/ /\ skip = 0 /\ UNCHANGED skip
        /\ shown' = IF Visible(t) THEN Append(shown, Len(gen) + 1) ELSE shown
  /\ UNCHANGED <<pc, chunk, prefillVars>>

\* Variant: only an end token ends the loop.
EndDecodeAtEog ==
  /\ pc = "sampled" /\ LastToken = "eog"
  /\ pc' = "done"
  /\ UNCHANGED <<chunk, prefillVars, kv, logits, cur, gen, skip, shown>>

\* The loop ends by its condition, an end token, or a failing llama_decode.
EndDecode ==
  /\ pc = "sampled"
  /\ pc' = "done"
  /\ UNCHANGED <<chunk, prefillVars, kv, logits, cur, gen, skip, shown>>

\* Back in the server's loop; the cache keeps its cells, the locals are gone.
Return ==
  /\ pc = "done"
  /\ pc' = "idle"
  /\ cur' = 0 /\ gen' = <<>> /\ skip' = 0 /\ shown' = <<>>
  /\ UNCHANGED <<chunk, prefillVars, kv, logits>>

Working ==
  \/ PrefillBatch \/ NextSegment \/ PrefillFails
  \/ \E t \in Tokens : FirstToken(t) \/ DecodeToken(t)
  \/ EndDecode \/ Return

Next == EncodeFails \/ (\E n \in Samples : EncodeChunk(n)) \/ Working

Spec == Init /\ [][Next]_vars

\* process_chunk runs on one thread that is scheduled.
FairSpec == Spec /\ WF_vars(Working)
------------------------------------------------------------------------------
TypeOK ==
  /\ pc \in {"idle", "prefill", "sampled", "done"}
  /\ chunk \in 0..MaxChunks
  /\ frames \in Nat /\ pads \in Nat
  /\ seg \in 1..3 /\ done \in Nat /\ pos \in Nat
  /\ \A p \in DOMAIN kv : p \in Nat /\ kv[p].kind \in {"text", "frame", "generated"}
  /\ logits \in BOOLEAN /\ cur \in Nat
  /\ gen \in Seq(Tokens) /\ Len(gen) <= MaxTokens
  /\ skip \in 0..2
  /\ shown \in Seq(1..MaxTokens)

(***************************************************************************)
(* The encoder never writes past the buffer its caller sized with          *)
(* expected_frames, and is at most one frame short of it.                  *)
(***************************************************************************)
FramesFit == frames <= pads /\ pads <= frames + 1

(***************************************************************************)
(* While a chunk is prefilled and decoded, the cache holds items of that   *)
(* chunk only: nothing an earlier chunk left there, not even one whose     *)
(* prefill failed half way, is attended to (llama_kv_cache_clear).         *)
(***************************************************************************)
OnlyThisChunk == pc # "idle" => \A p \in DOMAIN kv : kv[p].chunk = chunk

(***************************************************************************)
(* When sampling starts, the cells hold the prompt in order: the text      *)
(* before the pads, the frames, the text after the pads, at consecutive    *)
(* positions from 0, whatever the batch size (prefill_segmented).          *)
(***************************************************************************)
Prompt ==
  [p \in 0..(Pre + frames + Post - 1) |->
     IF p < Pre THEN Item("text", p)
     ELSE IF p < Pre + frames THEN Item("frame", p - Pre)
     ELSE Item("text", p + pads - frames)]

PromptInOrder ==
  pc \in {"sampled", "done"} => [p \in 0..(pos - 1) |-> kv[p]] = Prompt

(***************************************************************************)
(* Every sample is drawn from logits the model computed for the last item  *)
(* of the context (batch.logits of the last token of segment 3).           *)
(***************************************************************************)
LogitsReady ==
  (pc = "prefill" /\ seg = 3 /\ done = SegLen(3)) \/ pc = "sampled" => logits

(***************************************************************************)
(* A generated token never lands on an occupied position, and what is      *)
(* decoded next is at most one position away from the last cell: the gap   *)
(* is the pad of an incomplete last frame, however long the chunk is.      *)
(***************************************************************************)
DecodeAfterContext ==
  pc = "sampled" =>
    /\ \A p \in DOMAIN kv : p < cur
    /\ cur <= Cardinality(DOMAIN kv) + 1

(***************************************************************************)
(* The three together: a chunk is decoded from its whole prompt.           *)
(***************************************************************************)
PrefillSound == PromptInOrder /\ LogitsReady /\ DecodeAfterContext

(***************************************************************************)
(* The streamed pieces are the text the non-streaming mode prints for the  *)
(* same tokens.                                                            *)
(***************************************************************************)
ContentStart ==
  CASE Len(gen) < 3 \/ gen[1] # "im_start" -> 1
    [] OTHER -> IF gen[2] # "assistant" THEN 2
                ELSE IF gen[3] # "newline" THEN 3 ELSE 4

ContentEnd ==
  IF Len(gen) >= ContentStart /\ LastToken = "eog" THEN Len(gen) - 1 ELSE Len(gen)

Content == {i \in ContentStart..ContentEnd : Visible(gen[i])}

StreamedIsContent ==
  pc = "done" =>
    /\ {shown[k] : k \in DOMAIN shown} = Content
    /\ \A j, k \in DOMAIN shown : j < k => shown[j] < shown[k]

HasHeader == Len(gen) >= 3 /\ SubSeq(gen, 1, 3) = <<"im_start", "assistant", "newline">>

\* It is, when the model starts with the header it was trained to produce.
StreamedIsContentAfterHeader == HasHeader => StreamedIsContent

\* Every chunk that is begun is left again.
EveryChunkEnds == (pc # "idle") ~> (pc = "idle")
==============================================================================
