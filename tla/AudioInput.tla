------------------------------ MODULE AudioInput ------------------------------
(***************************************************************************)
(* load_audio of src/utils/audio_io.h after a decoder has returned: choose *)
(* the decoder by extension, mix to mono, resample linearly, normalise.    *)
(* A sample is the set of raw values it mixes; a resampled one is its two  *)
(* neighbours and whether it lies on the first.  Rates are exact ratios;   *)
(* where the division is exact, the double's floor may fall one short.     *)
(***************************************************************************)
EXTENDS Integers, Sequences

CONSTANTS
  Sources,     \* [ext, opens, channels, rate, frames, silent]
  Rates,       \* target rates
  Nothing      \* the zero that no sample is

ASSUME InputAssumption ==
  /\ \A s \in Sources :
       s.channels \in Nat \ {0} /\ s.rate \in Nat \ {0} /\ s.frames \in Nat
  /\ Rates \subseteq Nat \ {0}

VARIABLES
  source,      \* the file
  target,      \* target_sample_rate
  normalize,   \* do_normalize
  raw,         \* interleaved values: [frame, channel]
  mono,        \* for each sample, the raw values averaged
  samples,     \* AudioData.samples: [at, left, right]
  gain,        \* "none", "scaled"
  step         \* "decode", "mix", "resample", "normalize", "loaded", "failed"

inputVars == <<source, target, normalize, raw, mono, samples, gain, step>>

InputInit ==
  /\ source \in Sources /\ target \in Rates /\ normalize \in BOOLEAN
  /\ raw = <<>> /\ mono = <<>> /\ samples = <<>> /\ gain = "none" /\ step = "decode"

\* Any other extension is refused; so is a file that does not open or has no frames.
DecodeFile ==
  /\ step = "decode"
  /\ IF source.ext \in {"wav", "wave", "mp3"} /\ source.opens /\ source.frames > 0
     THEN /\ raw' = [p \in 1..(source.frames * source.channels) |->
                       [frame |-> (p - 1) \div source.channels, channel |-> (p - 1) % source.channels]]
          /\ step' = "mix"
     ELSE step' = "failed" /\ UNCHANGED raw
  /\ UNCHANGED <<source, target, normalize, mono, samples, gain>>

\* Variant: the channels are laid out one after the other.
MixedPlanar(i) == {raw[i + c * source.frames] : c \in 0..(source.channels - 1)}
Mixed(i) == {raw[(i - 1) * source.channels + c] : c \in 1..source.channels}

Mix ==
  /\ step = "mix"
  /\ mono' = [i \in 1..source.frames |-> Mixed(i)]
  /\ step' = "resample"
  /\ UNCHANGED <<source, target, normalize, raw, samples, gain>>

\* What the double's floor of a * b / c may be.
Floors(a, b, c) ==
  {(a * b) \div c} \cup (IF (a * b) % c = 0 /\ a > 0 /\ b % c # 0 THEN {(a * b) \div c - 1} ELSE {})

Interpolated(idx, exact) ==
  IF idx + 1 < Len(mono) THEN [at |-> exact, left |-> idx, right |-> idx + 1]
  ELSE IF idx < Len(mono) THEN [at |-> exact, left |-> idx, right |-> idx]
  ELSE [at |-> exact, left |-> Nothing, right |-> Nothing]

\* resample_linear: sample i lies at i * rate / target of the input.
Resample ==
  /\ step = "resample"
  /\ IF source.rate = target
     THEN samples' = [i \in 1..Len(mono) |-> [at |-> i - 1, left |-> i - 1, right |-> i - 1]]
     ELSE \E n \in Floors(Len(mono), target, source.rate) : \E low \in BOOLEAN :
            samples' =
              [i \in 1..n |->
                 LET floors == Floors(i - 1, source.rate, target)
                     idx == CHOOSE f \in floors : \A g \in floors : IF low THEN f <= g ELSE f >= g
                 IN  Interpolated(idx, ((i - 1) * source.rate) \div target)]
  /\ step' = "normalize"
  /\ UNCHANGED <<source, target, normalize, raw, mono, gain>>

\* Silence and no samples at all are left alone.
Normalize ==
  /\ step = "normalize"
  /\ gain' = IF normalize /\ samples # <<>> /\ ~source.silent THEN "scaled" ELSE "none"
  /\ step' = "loaded"
  /\ UNCHANGED <<source, target, normalize, raw, mono, samples>>

InputNext == DecodeFile \/ Mix \/ Resample \/ Normalize
InputSpec == InputInit /\ [][InputNext]_inputVars

(***************************************************************************)
(* Every sample handed to the encoders mixes the channels of frames of the *)
(* file around its own time, never one past the end and never the silence  *)
(* of resample_linear's last branch; the duration is the file's but for    *)
(* less than one sample and the double's rounding.                         *)
(***************************************************************************)
SamplesOwn ==
  step = "loaded" =>
    /\ \A i \in DOMAIN mono : mono[i] = [frame : {i - 1}, channel : 0..(source.channels - 1)]
    /\ \A i \in DOMAIN samples :
         /\ samples[i].at = ((i - 1) * source.rate) \div target
         /\ {samples[i].left, samples[i].right} \subseteq 0..(source.frames - 1)
         /\ samples[i].left \in {samples[i].at, samples[i].at - 1}
         /\ samples[i].right - samples[i].left \in {0, 1}
         /\ samples[i].right = samples[i].left => source.rate = target \/ samples[i].left = source.frames - 1
    /\ source.frames * target - Len(samples) * source.rate \in 0..source.rate
================================================================================
