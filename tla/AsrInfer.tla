------------------------------- MODULE AsrInfer -------------------------------
(***************************************************************************)
(* src/demo/asr_infer.cpp from its arguments to its exit: load the audio   *)
(* and both models, encode (EncodePair has the two encoders), build the    *)
(* prompt of src/utils/prompt_builder.h, prefill and decode (ChunkDecode   *)
(* has the batches), print, release.  Every load and every stage may fail. *)
(* A text is a sequence of words; a word may read like a special token.    *)
(***************************************************************************)
EXTENDS Integers, FiniteSets, SequencesExt

CONSTANTS
  CommandLines,  \* sequences of [option, value]; value is None for a last option
  Transcripts,   \* outputs: sequences of segments, see IsSegment
  Frames,        \* speech frames of the audio
  None

Options == {"vae", "lm", "audio", "context", "format", "unknown", "help"}

\* A segment is the set of its keys; in a blank one nothing is said.
IsSegment(s) ==
  s \subseteq {"Start", "End", "Speaker", "Content", "blank"} /\ ("blank" \in s => "Content" \in s)

ASSUME InferAssumption ==
  /\ \A line \in CommandLines :
       /\ DOMAIN line = 1..Len(line) /\ Len(line) \in Nat /\ line \in Seq({line[i] : i \in 1..Len(line)})
       /\ \A i \in 1..Len(line) :
            /\ line[i].option \in Options
            /\ line[i].option = "context" /\ line[i].value # None =>
                 Len(line[i].value) \in Nat /\ DOMAIN line[i].value = 1..Len(line[i].value)
  /\ \A segments \in Transcripts :
       /\ Len(segments) \in Nat /\ DOMAIN segments = 1..Len(segments)
       /\ \A i \in 1..Len(segments) : IsSegment(segments[i])
  /\ Frames \subseteq Nat /\ None \notin Nat

VARIABLES
  args,        \* arguments left
  allow,       \* VIBEASR_ALLOW_JSON is set
  params,      \* [vae, lm, audio: given; context, format, parallel]
  stage,       \* where main is
  held,        \* how many of each resource are held
  prompt,      \* PromptTokens: [tokens, start, count]
  output,      \* output_text
  lines,       \* what was printed
  rc           \* exit status, None before

Resources == {"vae_model", "vae_ctx", "vae_ctx2", "lm_model", "lm_ctx", "backend", "sampler"}

inferVars == <<args, allow, params, stage, held, prompt, output, lines, rc>>

InferInit ==
  /\ args \in CommandLines /\ allow \in BOOLEAN
  /\ params \in [vae : {FALSE}, lm : {FALSE}, audio : {FALSE}, context : {<<>>},
                  format : {"text"}, parallel : BOOLEAN]
  /\ stage = "args" /\ held = [r \in Resources |-> 0]
  /\ prompt = [tokens |-> <<>>, start |-> 0, count |-> 0] /\ output = <<>>
  /\ lines = <<>> /\ rc = None

Exit(status) == stage' = "exit" /\ rc' = status
Goto(next) == stage' = next /\ UNCHANGED rc
Take(r) == held' = [held EXCEPT ![r] = @ + 1]
Drop(rs) == held' = [r \in Resources |-> IF r \in rs THEN held[r] - 1 ELSE held[r]]
--------------------------------------------------------------------------------
\* parse_args: an option without its value is unknown; so is any other word.
ParseArg ==
  /\ stage = "args" /\ args # <<>>
  /\ LET arg == Head(args)
         refused == arg.option = "unknown" \/ arg.value = None
                    \/ (arg.option = "format" /\ arg.value = "json" /\ ~allow)
                    \/ (arg.option = "format" /\ arg.value \notin {"json", "text"})
     IN  IF arg.option = "help" THEN Exit(0) /\ UNCHANGED params
         ELSE IF refused THEN Exit(1) /\ UNCHANGED params
         ELSE params' = [params EXCEPT ![arg.option] = arg.value] /\ UNCHANGED <<stage, rc>>
  /\ args' = Tail(args)
  /\ UNCHANGED <<allow, held, prompt, output, lines>>

ArgsDone ==
  /\ stage = "args" /\ args = <<>>
  /\ IF params.vae /\ params.lm /\ params.audio THEN Goto("audio") ELSE Exit(1)
  /\ UNCHANGED <<args, allow, params, held, prompt, output, lines>>

\* Steps 1 to 3: one thing after the other, and what is held freed on failure.
LoadAudio(ok) ==
  /\ stage = "audio"
  /\ IF ok THEN Goto("vae_model") ELSE Exit(1)
  /\ UNCHANGED <<args, allow, params, held, prompt, output, lines>>

Following == [vae_model |-> "vae_ctx", vae_ctx |-> "lm_model", lm_model |-> "lm_ctx", lm_ctx |-> "encode"]

\* llama_backend_init comes before the LM; only cleanup undoes it.
Loaded(r) ==
  /\ stage = r /\ Goto(Following[r])
  /\ held' = [held EXCEPT ![r] = @ + 1, !.backend = IF r = "lm_model" THEN @ + 1 ELSE @]
  /\ UNCHANGED <<args, allow, params, prompt, output, lines>>

\* Variant: a failed LM context leaves the LM.
FreedShort(r) == IF r = "vae_model" THEN {} ELSE IF r = "vae_ctx" THEN {"vae_model"} ELSE {"vae_ctx", "vae_model"}
FreedBy(r) ==
  CASE r = "vae_model" -> {}
    [] r = "vae_ctx" -> {"vae_model"}
    [] r = "lm_model" -> {"vae_ctx", "vae_model"}
    [] r = "lm_ctx" -> {"lm_model", "vae_ctx", "vae_model"}

NotLoaded(r) ==
  /\ stage = r /\ Exit(1)
  /\ held' = [q \in Resources |-> IF q \in FreedBy(r) THEN held[q] - 1
                                  ELSE IF q = "backend" /\ r = "lm_model" THEN held[q] + 1 ELSE held[q]]
  /\ UNCHANGED <<args, allow, params, prompt, output, lines>>
--------------------------------------------------------------------------------
\* Steps 4 and 5: in parallel there is a second context, freed after the join.
StartEncode(ok) ==
  /\ stage = "encode"
  /\ IF ~params.parallel THEN Goto("encoding") /\ UNCHANGED held
     ELSE IF ok THEN Goto("encoding") /\ Take("vae_ctx2")
     ELSE Goto("cleanup") /\ UNCHANGED held
  /\ UNCHANGED <<args, allow, params, prompt, output, lines>>

Encode(ok) ==
  /\ stage = "encoding"
  /\ Goto(IF ok THEN "prompt" ELSE "cleanup")
  /\ Drop(IF params.parallel THEN {"vae_ctx2"} ELSE {})
  /\ UNCHANGED <<args, allow, params, prompt, output, lines>>

\* tokenize, with and without special tokens parsed: a text's words are text, or
\* what they read like.
Special == {"im_start", "im_end", "speech_start", "speech_end", "speech_pad"}
Text(words) == [i \in DOMAIN words |-> IF words[i] \in Special THEN "text" ELSE words[i]]

\* Variant: special tokens in the context are parsed.
SuffixParsed == <<"duration">> \o params.context \o <<"please">>
Suffix == <<"duration">> \o Text(params.context) \o <<IF params.format = "json" THEN "keys" ELSE "please">>

\* build_prompt: a turn of the system, a turn of the user with the speech.
BuildPrompt ==
  /\ stage = "prompt"
  /\ \E n \in Frames :
       LET before == <<"im_start", "system", "im_end", "nl", "im_start", "user", "speech_start">>
       IN  prompt' = [tokens |-> before \o [i \in 1..n |-> "speech_pad"] \o <<"speech_end">>
                                   \o Suffix \o <<"im_end", "nl">>,
                      start |-> Len(before), count |-> n]
  /\ Goto("prefill")
  /\ UNCHANGED <<args, allow, params, held, output, lines>>

Prefill(ok) ==
  /\ stage = "prefill"
  /\ IF ok THEN Goto("decode") /\ Take("sampler") ELSE Goto("cleanup") /\ UNCHANGED held
  /\ UNCHANGED <<args, allow, params, prompt, output, lines>>

\* The loop ends by itself, by a limit or by an error: the sampler is freed, and
\* the text is what was decoded until then.
Decode ==
  /\ stage = "decode"
  /\ output' \in Transcripts
  /\ Goto("print") /\ Drop({"sampler"})
  /\ UNCHANGED <<args, allow, params, prompt, lines>>
--------------------------------------------------------------------------------
\* Variant: every key is looked for from the start of the text.
FieldFromStart(segments, key, k) ==
  LET having == {i \in DOMAIN segments : key \in segments[i]}
  IN  IF having = {} THEN None ELSE CHOOSE i \in having : \A j \in having : i <= j

\* extract_num and extract_str: the first such key from the k-th segment on.
Field(segments, key, k) ==
  LET having == {i \in DOMAIN segments : i >= k /\ key \in segments[i]}
  IN  IF having = {} THEN None ELSE CHOOSE i \in having : \A j \in having : i <= j

\* A line for each segment, if the first content from it on is not blank: the
\* segments its fields are from.
LineOf(segments, k) ==
  LET content == Field(segments, "Content", k)
  IN  IF content = None THEN <<>>
      ELSE IF "blank" \in segments[content] THEN <<>>
      ELSE <<[start |-> Field(segments, "Start", k), end |-> Field(segments, "End", k),
              speaker |-> Field(segments, "Speaker", k), content |-> content]>>

Display ==
  /\ stage = "print"
  /\ lines' = FlattenSeq([k \in DOMAIN output |-> LineOf(output, k)])
  /\ Goto("cleanup")
  /\ UNCHANGED <<args, allow, params, held, prompt, output>>

Cleanup ==
  /\ stage = "cleanup"
  /\ Drop({"lm_ctx", "lm_model", "backend", "vae_ctx", "vae_model"})
  /\ Exit(0)
  /\ UNCHANGED <<args, allow, params, prompt, output, lines>>

InferNext ==
  \/ ParseArg \/ ArgsDone \/ BuildPrompt \/ Decode \/ Display \/ Cleanup
  \/ \E ok \in BOOLEAN : LoadAudio(ok) \/ StartEncode(ok) \/ Encode(ok) \/ Prefill(ok)
  \/ \E r \in DOMAIN Following : Loaded(r) \/ NotLoaded(r)
InferSpec == InferInit /\ [][InferNext]_inferVars

(***************************************************************************)
(* A context is held no longer than its model, nothing is held or freed    *)
(* twice, and whatever failed, nothing of the models is held at the exit.  *)
(***************************************************************************)
ModelOf == [vae_ctx |-> "vae_model", vae_ctx2 |-> "vae_model", lm_ctx |-> "lm_model", sampler |-> "lm_ctx"]
NothingHeld ==
  /\ \A r \in Resources : held[r] \in {0, 1}
  /\ \A c \in DOMAIN ModelOf : held[c] <= held[ModelOf[c]]
  /\ stage = "exit" => \A r \in Resources \ {"backend"} : held[r] = 0

(***************************************************************************)
(* Whatever the context says, the prompt has two turns and one region of   *)
(* speech, exactly where prefill puts the features.                        *)
(***************************************************************************)
Count(token) == Cardinality({i \in DOMAIN prompt.tokens : prompt.tokens[i] = token})
OneSpeechRegion ==
  prompt.tokens # <<>> =>
    /\ Count("im_start") = 2 /\ Count("im_end") = 2
    /\ Count("speech_start") = 1 /\ Count("speech_end") = 1
    /\ {i \in DOMAIN prompt.tokens : prompt.tokens[i] = "speech_pad"}
         = (prompt.start + 1)..(prompt.start + prompt.count)
    /\ prompt.tokens[prompt.start] = "speech_start"

(***************************************************************************)
(* A segment that has every key and says something is printed, with its    *)
(* own times, speaker and words.  A line mixes two segments only if the    *)
(* earlier lacks a key, the one the later gave or its content, and leaves  *)
(* a field out only if its content's segment does.  Words come out in the  *)
(* order of the segments, and twice only after a segment without content.  *)
(***************************************************************************)
Whole(segment) == {"Start", "End", "Speaker", "Content"} \subseteq segment /\ "blank" \notin segment

\* What the line's field for this key, from the segment `given`, may be.
Explained(key, given, content) ==
  /\ given = None \/ given > content => key \notin output[content]
  /\ given # None /\ given < content => "Content" \notin output[given]

SegmentsWhole ==
  stage # "print" =>
    /\ \A k \in DOMAIN output : Whole(output[k]) =>
         \E i \in DOMAIN lines : lines[i] = [start |-> k, end |-> k, speaker |-> k, content |-> k]
    /\ \A i \in DOMAIN lines :
         /\ Explained("Start", lines[i].start, lines[i].content)
         /\ Explained("End", lines[i].end, lines[i].content)
         /\ Explained("Speaker", lines[i].speaker, lines[i].content)
    /\ \A i, j \in DOMAIN lines : i < j =>
         \/ lines[i].content < lines[j].content
         \/ /\ lines[i].content = lines[j].content
            /\ \E k \in 1..(lines[i].content - 1) : "Content" \notin output[k]
================================================================================
