------------------------------ MODULE AsrServer ------------------------------
(***************************************************************************)
(* The persistent recogniser process, src/src/asr_server.cpp: it loads its *)
(* models once, then answers the lines of its standard input one after the *)
(* other.  A line is a command or the path of an audio chunk; the answer   *)
(* to a chunk is streamed to standard output and closed by ---END---, the  *)
(* answer to a command is ---ACK---.  Log lines go to standard error,      *)
(* which is a pipe of finite capacity: a full pipe blocks the writer.      *)
(*                                                                         *)
(* What feeds the process is left open here.  Module AsrPipeline lets      *)
(* anybody write lines ahead of the answers (`cat list | asr_server`);     *)
(* module AsrSystem drives the process by the demo's client.               *)
(***************************************************************************)
EXTENDS Naturals, Sequences

CONSTANTS
  Chunks,      \* paths a client can name
  BadChunks,   \* those process_chunk gives up on (audio, encoder, prompt or prefill error)
  Settings,    \* values of params.context_info / params.prompt_format
  MaxPieces,   \* most pieces one chunk streams (params.max_tokens)
  StderrCap    \* log lines the stderr pipe holds before a write blocks

ASSUME ServerAssumption ==
  /\ BadChunks \subseteq Chunks
  /\ MaxPieces \in Nat
  /\ StderrCap \in Nat \ {0}

VARIABLES
  srv,      \* where the process stands in main() and process_chunk()
  stdin,    \* lines written to the process and not read by it yet
  eof,      \* the writing end of stdin is closed
  stdout,   \* lines printed by the process and not read by its client yet
  stderr,   \* log lines in the stderr pipe
  setting,  \* params.context_info
  job,      \* the line being answered
  emitted   \* pieces streamed for it so far

serverVars == <<srv, stdin, eof, stdout, stderr, setting, job, emitted>>

(***************************************************************************)
(* Lines.  id numbers the input lines in the order they were written; an   *)
(* output line carries the id of the input line it answers, which the real *)
(* line does not: no action reads it, only properties do.                  *)
(***************************************************************************)
InLine(kind, id, arg)  == [kind |-> kind, id |-> id, arg |-> arg]
OutLine(kind, id, n) == [kind |-> kind, id |-> id, n |-> n]

NoJob == [kind |-> "none", id |-> 0, arg |-> "none"]

InLines ==
  [kind : {"chunk"}, id : Nat, arg : Chunks]
    \cup [kind : {"set"}, id : Nat, arg : Settings]
    \cup [kind : {"exit", "blank"}, id : Nat, arg : {"none"}]

OutLines == [kind : {"ready", "ack", "err", "tok", "blank", "end"}, id : Nat, n : Nat]

Terminators == {"ack", "end"}

Alive == srv \notin {"none", "exited"}

(***************************************************************************)
(* A log line can be written only when the pipe has room for it.           *)
(***************************************************************************)
Log == /\ stderr < StderrCap
       /\ stderr' = stderr + 1

Put(lines) == stdout' = stdout \o lines

(***************************************************************************)
(* Start of the process with the settings of its command line.             *)
(***************************************************************************)
Launch(s) ==
  /\ srv' = "loading"
  /\ stdin' = <<>> /\ eof' = FALSE /\ stdout' = <<>> /\ stderr' = 0
  /\ setting' = s
  /\ job' = NoJob /\ emitted' = 0

LoadModels ==
  /\ srv = "loading" /\ Log
  /\ srv' = "loop"
  /\ Put(<<OutLine("ready", 0, 0)>>)
  /\ UNCHANGED <<stdin, eof, setting, job, emitted>>

LoadFails ==
  /\ srv = "loading" /\ Log
  /\ srv' = "exited"
  /\ UNCHANGED <<stdin, eof, stdout, setting, job, emitted>>

(***************************************************************************)
(* The input loop.                                                         *)
(***************************************************************************)
Gets(kind) ==
  /\ srv = "loop"
  /\ stdin # <<>> /\ Head(stdin).kind = kind
  /\ stdin' = Tail(stdin)

SkipBlank ==
  /\ Gets("blank")
  /\ UNCHANGED <<srv, eof, stdout, stderr, setting, job, emitted>>

\* Variant: the acknowledgement is printed, the value is not kept.
HandleSettingDropped ==
  /\ Gets("set") /\ Log
  /\ Put(<<OutLine("ack", Head(stdin).id, 0)>>)
  /\ UNCHANGED <<srv, eof, setting, job, emitted>>

\* Variant: the value is kept, the acknowledgement is forgotten.
HandleSettingNoAck ==
  /\ Gets("set") /\ Log
  /\ setting' = Head(stdin).arg
  /\ UNCHANGED <<srv, eof, stdout, job, emitted>>

\* CONTEXT: and FORMAT: set one string each in the same way; setting is either.
HandleSetting ==
  /\ Gets("set") /\ Log
  /\ setting' = Head(stdin).arg
  /\ Put(<<OutLine("ack", Head(stdin).id, 0)>>)
  /\ UNCHANGED <<srv, eof, job, emitted>>

HandleExit ==
  /\ Gets("exit") /\ Log
  /\ srv' = "closing"
  /\ UNCHANGED <<eof, stdout, setting, job, emitted>>

HandleEof ==
  /\ srv = "loop" /\ stdin = <<>> /\ eof
  /\ srv' = "closing"
  /\ UNCHANGED <<stdin, eof, stdout, stderr, setting, job, emitted>>

BeginChunk ==
  /\ Gets("chunk") /\ Log
  /\ srv' = "chunk"
  /\ job' = Head(stdin)
  /\ emitted' = 0
  /\ UNCHANGED <<eof, stdout, setting>>

(***************************************************************************)
(* process_chunk.  Before every error return something was logged, by what *)
(* loads the audio or by what failed; it prints the message and the        *)
(* terminator together.                                                    *)
(***************************************************************************)
FailChunk ==
  /\ srv \in {"chunk", "stream"} /\ job.arg \in BadChunks /\ Log
  /\ srv' = "loop"
  /\ Put(<<OutLine("err", job.id, 0), OutLine("end", job.id, 0)>>)
  /\ UNCHANGED <<stdin, eof, setting, job, emitted>>

\* Encoders done; build_prompt reads params and logs; prefill and decode follow.
BuildPrompt ==
  /\ srv = "chunk" /\ Log
  /\ srv' = "stream"
  /\ UNCHANGED <<stdin, eof, stdout, setting, job, emitted>>

\* Variant: a piece is printed twice.
StreamTokenTwice ==
  /\ srv = "stream" /\ job.arg \notin BadChunks
  /\ emitted < MaxPieces
  /\ emitted' = emitted + 1
  /\ Put(<<OutLine("tok", job.id, emitted + 1), OutLine("tok", job.id, emitted + 1)>>)
  /\ UNCHANGED <<srv, stdin, eof, stderr, setting, job>>

StreamToken ==
  /\ srv = "stream" /\ job.arg \notin BadChunks
  /\ emitted < MaxPieces
  /\ emitted' = emitted + 1
  /\ Put(<<OutLine("tok", job.id, emitted + 1)>>)
  /\ UNCHANGED <<srv, stdin, eof, stderr, setting, job>>

\* Variant: the closing newline after the terminator.
EndChunkLateNewline ==
  /\ srv = "stream" /\ job.arg \notin BadChunks
  /\ srv' = "timing"
  /\ Put(<<OutLine("end", job.id, 0), OutLine("blank", job.id, 0)>>)
  /\ UNCHANGED <<stdin, eof, stderr, setting, job, emitted>>

EndChunk ==
  /\ srv = "stream" /\ job.arg \notin BadChunks
  /\ srv' = "timing"
  /\ Put(<<OutLine("blank", job.id, 0), OutLine("end", job.id, 0)>>)
  /\ UNCHANGED <<stdin, eof, stderr, setting, job, emitted>>

LogTiming ==
  /\ srv = "timing" /\ Log
  /\ srv' = "loop"
  /\ UNCHANGED <<stdin, eof, stdout, setting, job, emitted>>

Shutdown ==
  /\ srv = "closing" /\ Log
  /\ srv' = "exited"
  /\ UNCHANGED <<stdin, eof, stdout, setting, job, emitted>>

(***************************************************************************)
(* The process is killed or aborts (GGML_ASSERT, abort(), out of memory).  *)
(***************************************************************************)
Crash ==
  /\ Alive
  /\ srv' = "exited"
  /\ UNCHANGED <<stdin, eof, stdout, stderr, setting, job, emitted>>

ServerStep ==
  \/ LoadModels \/ SkipBlank \/ HandleSetting \/ HandleExit \/ HandleEof
  \/ BeginChunk \/ FailChunk \/ BuildPrompt \/ StreamToken \/ EndChunk \/ LogTiming
  \/ Shutdown

ServerTypeOK ==
  /\ srv \in {"none", "loading", "loop", "chunk", "stream", "timing", "closing", "exited"}
  /\ stdin \in Seq(InLines)
  /\ eof \in BOOLEAN
  /\ stdout \in Seq(OutLines)
  /\ stderr \in 0..StderrCap
  /\ setting \in Settings
  /\ job \in InLines \cup {NoJob}
  /\ emitted \in 0..MaxPieces
==============================================================================
