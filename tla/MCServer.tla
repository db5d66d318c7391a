------------------------------- MODULE MCServer -------------------------------
(***************************************************************************)
(* The recogniser process, one part in each behaviour: its lines, with a   *)
(* peer that writes ahead of the answers, its work on chunks, and load_mp3 *)
(* on a file.  The lengths of chunks lie at and beside the steps of the    *)
(* encoder's frames.                                                       *)
(***************************************************************************)
EXTENDS AsrPipeline, ChunkDecode, MCMp3Stream

CONSTANTS good, bad, none, words

GoodAndBad == {good, bad}
OneBad == {bad}
TwoSettings == {none, words}
SmallStrides == <<1, 1, 1, 2, 1, 1, 2>>
Lengths == {0, 1, 3, 4, 5, 10, 17, 28}

VARIABLE part

\* Variables of the parts that do not run; a file is then not opened.
NoChunks ==
  /\ pc = "idle" /\ chunk = 0 /\ frames = 0 /\ pads = 0 /\ seg = 1 /\ done = 0 /\ pos = 0
  /\ kv = <<>> /\ logits = FALSE /\ cur = 0 /\ gen = <<>> /\ skip = 0 /\ shown = <<>>
NoLines ==
  /\ srv = "none" /\ stdin = <<>> /\ eof = FALSE /\ stdout = <<>> /\ stderr = 0
  /\ setting = none /\ job = NoJob /\ emitted = 0 /\ script = <<>>

ServerInit ==
  /\ part \in {"lines", "chunks", "mp3"}
  /\ IF part = "lines" THEN PipelineInit ELSE NoLines
  /\ IF part = "chunks" THEN Init ELSE NoChunks
  /\ Mp3Init

ServerNext ==
  \/ part = "lines" /\ PipelineNext /\ UNCHANGED <<part, vars, mp3Vars>>
  \/ part = "chunks" /\ Next /\ UNCHANGED <<part, pipelineVars, mp3Vars>>
  \/ part = "mp3" /\ Mp3Next /\ UNCHANGED <<part, vars, pipelineVars>>

all == <<vars, pipelineVars, mp3Vars>>

\* The process runs whenever it can, and its log is read.
ServerSpec ==
  /\ ServerInit /\ [][ServerNext]_<<part, all>>
  /\ WF_all(part = "lines" /\ ServerStep /\ UNCHANGED <<part, vars, script, mp3Vars>>)
  /\ WF_all(part = "lines" /\ DrainStderr /\ UNCHANGED <<part, vars, mp3Vars>>)
  /\ WF_all(part = "chunks" /\ Working /\ UNCHANGED <<part, pipelineVars, mp3Vars>>)
================================================================================
