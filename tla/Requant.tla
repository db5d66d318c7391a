-------------------------------- MODULE Requant --------------------------------
(***************************************************************************)
(* requant_lm_head: a model file is read, one of its tensors is quantised  *)
(* again by several threads, or left out, and the rest is copied through.  *)
(* A row is modelled by where it came from and by its type.  The source    *)
(* has rows of ggml_row_size bytes, which those of I2_S do not.            *)
(***************************************************************************)
EXTENDS Integers, Sequences, FiniteSetsExt, SequencesExt

CONSTANTS
  Files,      \* sequences of records [name, rows, whole, fits, known]
  Jobs        \* records [target, drop, threads]

\* A GGUF file names no two tensors alike.
ASSUME ToolAssumption ==
  /\ \A f \in Files :
       /\ DOMAIN f = 1..Len(f) /\ Len(f) \in Nat
       /\ \A i \in 1..Len(f) : f[i].rows \in Nat \ {0} /\ {f[i].whole, f[i].fits, f[i].known} \subseteq BOOLEAN
       /\ \A i, j \in 1..Len(f) : f[i].name = f[j].name => i = j
  /\ \A j \in Jobs : j.drop \in BOOLEAN /\ j.threads \in Int

VARIABLES
  stage,      \* "read", "find", "prepare", "quantise", "finish", "done"
  file, job,
  blobs,      \* the tensors read so far
  qdata,      \* row |-> Unset, or the row of f32 it was quantised from
  pool,       \* spans <<r0, r1>> of the threads that still run
  written,    \* the model files written, each the sequence of its tensors
  rc          \* the exit code, -1 while it runs

toolVars == <<stage, file, job, blobs, qdata, pool, written, rc>>

Unset == -1
Old == "old"
Requantised == "new"
RowsOf(t) == [r \in 0..(t.rows - 1) |-> <<Old, r>>]
Position == CHOOSE i \in DOMAIN file : file[i].name = job.target
Target == file[Position]

ToolInit ==
  /\ stage = "read" /\ file \in Files /\ job \in Jobs
  /\ blobs = <<>> /\ qdata = <<>> /\ pool = {} /\ written = {} /\ rc = -1

Exit(code) == stage' = "done" /\ rc' = code

\* A short read ends the program; nothing has been written by then.
ReadTensor ==
  /\ stage = "read" /\ Len(blobs) < Len(file)
  /\ LET t == file[Len(blobs) + 1]
     IN  IF t.whole THEN blobs' = Append(blobs, [name |-> t.name, data |-> RowsOf(t)]) /\ UNCHANGED <<stage, rc>>
         ELSE Exit(1) /\ UNCHANGED blobs
  /\ UNCHANGED <<file, job, qdata, pool, written>>

FindTarget ==
  /\ stage = "read" /\ Len(blobs) = Len(file)
  /\ IF \E i \in DOMAIN file : file[i].name = job.target
     THEN stage' = (IF job.drop THEN "finish" ELSE "prepare") /\ UNCHANGED rc
     ELSE Exit(1)
  /\ UNCHANGED <<file, job, blobs, qdata, pool, written>>

\* Variant: the rows that do not divide among the threads are left.
SpansWhole(rows, threads) ==
  LET chunk == rows \div threads
  IN  {<<t * chunk, t * chunk + chunk>> : t \in {u \in 0..(threads - 1) : chunk > 0}}

\* Threads own chunks of rows; those without any are not started.
Spans(rows, threads) ==
  LET chunk == (rows + threads - 1) \div threads
      upto(t) == Min({t * chunk + chunk, rows})
  IN  {<<t * chunk, upto(t)>> : t \in {u \in 0..(threads - 1) : u * chunk < upto(u)}}

\* The row length has to suit the new type, and the old one needs a dequantiser.
StartThreads ==
  /\ stage = "prepare"
  /\ IF Target.fits /\ Target.known
     THEN /\ stage' = "quantise" /\ UNCHANGED rc
          /\ pool' = Spans(Target.rows, Max({job.threads, 1}))
          /\ qdata' = [r \in 0..(Target.rows - 1) |-> Unset]
     ELSE Exit(1) /\ UNCHANGED <<pool, qdata>>
  /\ UNCHANGED <<file, job, blobs, written>>

\* ggml_quantize_chunk offsets source and destination itself.
QuantizeChunk(span) ==
  /\ stage = "quantise" /\ span \in pool
  /\ pool' = pool \ {span}
  /\ qdata' = [r \in DOMAIN qdata |-> IF r \in span[1]..(span[2] - 1) THEN r ELSE qdata[r]]
  /\ UNCHANGED <<stage, file, job, blobs, written, rc>>

Join ==
  /\ stage = "quantise" /\ pool = {}
  /\ stage' = "finish"
  /\ UNCHANGED <<file, job, blobs, qdata, pool, written, rc>>

\* The new tensor in the old one's place, or no tensor there.
OutputOf(b) ==
  IF b.name # job.target THEN <<b>>
  ELSE IF job.drop THEN <<>>
  ELSE <<[name |-> job.target, data |-> [r \in DOMAIN qdata |-> <<Requantised, qdata[r]>>]]>>

Outputs == FlattenSeq([i \in DOMAIN blobs |-> OutputOf(blobs[i])])

\* What gguf_write_to_file returns is not looked at.
WriteFile ==
  /\ stage = "finish"
  /\ written' \in {{Outputs}, {}}
  /\ Exit(0)
  /\ UNCHANGED <<file, job, blobs, qdata, pool>>

ToolNext == ReadTensor \/ FindTarget \/ StartThreads \/ (\E span \in pool : QuantizeChunk(span)) \/ Join \/ WriteFile
ToolSpec == ToolInit /\ [][ToolNext]_toolVars
------------------------------------------------------------------------------
\* What a tensor of the file is to become.
Expected(t) ==
  CASE t.name # job.target -> <<[name |-> t.name, data |-> RowsOf(t)]>>
    [] t.name = job.target /\ job.drop -> <<>>
    [] OTHER -> <<[name |-> t.name, data |-> [r \in 0..(t.rows - 1) |-> <<Requantised, r>>]]>>

(***************************************************************************)
(* A model that is written has every other tensor as it was and in its     *)
(* place, and the target with every row quantised from its own row,        *)
(* whatever the number of threads and the order they finish in, or not at  *)
(* all when it was to be dropped; a run that fails has written nothing.    *)
(***************************************************************************)
OnlyTargetChanges ==
  /\ rc = 1 => written = {}
  /\ \A model \in written : model = FlattenSeq([i \in DOMAIN file |-> Expected(file[i])])
==============================================================================
