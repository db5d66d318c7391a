------------------------------ MODULE AsrSystem ------------------------------
(***************************************************************************)
(* The demo's client, class ASRServerProcess of                            *)
(* src/demo/gradio_asr_demo.py, and the server process it owns, connected  *)
(* by three pipes.  A session (transcribe_streaming) calls start() once    *)
(* and then process_chunk_streaming() for one chunk after the other; the   *)
(* object outlives the session and is reused by the next one.              *)
(*                                                                         *)
(* Every call of the client is a sequence of steps (poll the process,      *)
(* write to its stdin, read a line of its stdout), between which the       *)
(* server runs or dies.  The client never reads the stderr pipe.           *)
(***************************************************************************)
EXTENDS AsrServer

CONSTANTS
  Confs,        \* (model, threads, greedy) triples a session can ask for
  NoConf,
  NoHotwords,   \* the empty text of the hotword box
  FirstLine,    \* a text of the hotword box |-> the first of its lines
  StrayPath,    \* a second line of it, taken as the path of a chunk
  MaxCalls,     \* bound: commands and chunks sent
  MaxSessions   \* bound: calls of start()

MultiLine == {h \in Settings : FirstLine[h] # h}

ASSUME ClientAssumption ==
  /\ NoConf \notin Confs
  /\ NoHotwords \in Settings
  /\ FirstLine \in [Settings -> Settings]
  /\ FirstLine[NoHotwords] = NoHotwords
  /\ StrayPath \in Chunks
  /\ MaxCalls \in Nat /\ MaxSessions \in Nat

VARIABLES
  phase,     \* the step the current call of the client is at
  proc,      \* self.process is not None
  conf,      \* self._model_name, _n_threads, _greedy
  want,      \* arguments of the last start()
  started,   \* what that start() returned (use_server)
  sessions,  \* calls of start() so far
  req,       \* number of the last command or chunk
  heard,     \* pieces yielded for the current chunk
  outcome,   \* how the last process_chunk_streaming ended
  slipped    \* history: since the launch of this process, an error line has
             \* been taken for a whole answer or two lines sent as one command

clientVars == <<phase, proc, conf, want, started, sessions, req, heard, outcome, slipped>>
vars == <<serverVars, clientVars>>

Init ==
  /\ srv = "none"
  /\ stdin = <<>> /\ eof = FALSE /\ stdout = <<>> /\ stderr = 0
  /\ setting = NoHotwords /\ job = NoJob /\ emitted = 0
  /\ phase = "idle" /\ proc = FALSE /\ conf = NoConf
  /\ want = [conf |-> NoConf, hot |-> NoHotwords]
  /\ started = FALSE /\ sessions = 0
  /\ req = 0 /\ heard = 0 /\ outcome = "none" /\ slipped = FALSE

\* self.process is not None and self.process.poll() is None
Running == proc /\ Alive

Write(lines) ==
  /\ stdin' = stdin \o lines
  /\ UNCHANGED <<srv, eof, stdout, stderr, setting, job, emitted>>

\* One readline(): enabled when a line is there.
ReadLine ==
  /\ stdout # <<>>
  /\ stdout' = Tail(stdout)
  /\ UNCHANGED <<srv, stdin, eof, stderr, setting, job, emitted>>

\* readline() returns b"": nothing is left and nobody will print again.
AtEof == stdout = <<>> /\ ~Alive

------------------------------------------------------------------------------
(***************************************************************************)
(* start()                                                                 *)
(***************************************************************************)
StartReuse(c, h) ==
  /\ phase = "idle" /\ sessions < MaxSessions
  /\ Running /\ conf = c
  /\ want' = [conf |-> c, hot |-> h] /\ sessions' = sessions + 1
  /\ \/ h = NoHotwords /\ started' = TRUE /\ UNCHANGED phase
     \/ h # NoHotwords /\ req < MaxCalls /\ phase' = "command" /\ UNCHANGED started
  /\ UNCHANGED <<proc, conf, req, heard, outcome, slipped, serverVars>>

\* self.stop() first: a process that still runs is told to exit.
StartFresh(c, h) ==
  /\ phase = "idle" /\ sessions < MaxSessions
  /\ ~(Running /\ conf = c)
  /\ want' = [conf |-> c, hot |-> h] /\ sessions' = sessions + 1
  /\ \/ /\ Running
        /\ Write(<<InLine("exit", req, "none")>>)
        /\ phase' = "stopping" /\ UNCHANGED <<proc, conf>>
     \/ /\ ~Running
        /\ phase' = "launch" /\ proc' = FALSE
        /\ conf' = IF proc THEN NoConf ELSE conf
        /\ UNCHANGED serverVars
  /\ UNCHANGED <<started, req, heard, outcome, slipped>>

StopWaited ==
  /\ phase = "stopping" /\ ~Alive
  /\ phase' = "launch" /\ proc' = FALSE /\ conf' = NoConf
  /\ UNCHANGED <<want, started, sessions, req, heard, outcome, slipped, serverVars>>

\* Variant: wait() without a timeout.
StopKillsNever == FALSE

\* wait(timeout=5) raised: kill().
StopKills ==
  /\ phase = "stopping" /\ Alive
  /\ srv' = "exited"
  /\ phase' = "launch" /\ proc' = FALSE /\ conf' = NoConf
  /\ UNCHANGED <<stdin, eof, stdout, stderr, setting, job, emitted>>
  /\ UNCHANGED <<want, started, sessions, req, heard, outcome, slipped>>

\* The binary or a model file is missing, or Popen raises.
LaunchRefused ==
  /\ phase = "launch"
  /\ phase' = "idle" /\ started' = FALSE
  /\ UNCHANGED <<proc, conf, want, sessions, req, heard, outcome, slipped, serverVars>>

Popen ==
  /\ phase = "launch"
  /\ Launch(want.hot)
  /\ phase' = "loading" /\ proc' = TRUE /\ slipped' = FALSE
  /\ UNCHANGED <<conf, want, started, sessions, req, heard, outcome>>

ReadReady ==
  /\ phase = "loading" /\ ReadLine
  /\ phase' = "idle" /\ started' = TRUE /\ conf' = want.conf
  /\ UNCHANGED <<proc, want, sessions, req, heard, outcome, slipped>>

ReadyEof ==
  /\ phase = "loading" /\ AtEof
  /\ phase' = "idle" /\ started' = FALSE /\ proc' = FALSE /\ conf' = NoConf
  /\ UNCHANGED <<want, sessions, req, heard, outcome, slipped, serverVars>>

(***************************************************************************)
(* _send_command(): poll again, write, read exactly one line.  start()     *)
(* returns True whatever that line is.                                     *)
(***************************************************************************)
PollCommand ==
  /\ phase = "command"
  /\ \/ ~Running /\ phase' = "idle" /\ started' = TRUE
     \/ Running /\ phase' = "cmdwrite" /\ UNCHANGED started
  /\ UNCHANGED <<proc, conf, want, sessions, req, heard, outcome, slipped, serverVars>>

WriteCommand ==
  /\ phase = "cmdwrite" /\ Alive
  /\ req' = req + 1
  /\ Write(<<InLine("set", req + 1, FirstLine[want.hot])>>
             \o IF want.hot \in MultiLine
                THEN <<InLine("chunk", req + 1, StrayPath)>> ELSE <<>>)
  /\ slipped' = (slipped \/ want.hot \in MultiLine)
  /\ phase' = "acking"
  /\ UNCHANGED <<proc, conf, want, started, sessions, heard, outcome>>

\* Variant: the answer to a command is left in the pipe.
ReadAckSkipped ==
  /\ phase = "acking"
  /\ phase' = "idle" /\ started' = TRUE
  /\ UNCHANGED <<proc, conf, want, sessions, req, heard, outcome, slipped, serverVars>>

ReadAck ==
  /\ phase = "acking"
  /\ ReadLine \/ (AtEof /\ UNCHANGED serverVars)
  /\ phase' = "idle" /\ started' = TRUE
  /\ UNCHANGED <<proc, conf, want, sessions, req, heard, outcome, slipped>>

(***************************************************************************)
(* process_chunk_streaming()                                               *)
(***************************************************************************)
ChunkRefused ==
  /\ phase = "idle" /\ started /\ ~Running
  /\ outcome' = "down"
  /\ UNCHANGED <<phase, proc, conf, want, started, sessions, req, heard, slipped, serverVars>>

ChunkCall ==
  /\ phase = "idle" /\ started /\ Running /\ req < MaxCalls
  /\ phase' = "write"
  /\ req' = req + 1 /\ heard' = 0 /\ outcome' = "none"
  /\ UNCHANGED <<proc, conf, want, started, sessions, slipped, serverVars>>

WriteChunk(c) ==
  /\ phase = "write" /\ Alive
  /\ Write(<<InLine("chunk", req, c)>>)
  /\ phase' = "read"
  /\ UNCHANGED <<proc, conf, want, started, sessions, req, heard, outcome, slipped>>

\* The process died after the poll: BrokenPipeError leaves the generator (or
\* start()) and ends the session.
WriteRaises ==
  /\ phase \in {"write", "cmdwrite"} /\ ~Alive
  /\ phase' = "idle" /\ started' = FALSE
  /\ outcome' = IF phase = "write" THEN "raised" ELSE outcome
  /\ heard' = 0
  /\ UNCHANGED <<proc, conf, want, sessions, req, slipped, serverVars>>

Finish(how) ==
  /\ phase' = "idle" /\ outcome' = how /\ heard' = 0
  /\ UNCHANGED <<proc, conf, want, started, sessions, req>>

ReadEnd ==
  /\ phase = "read" /\ ReadLine /\ Head(stdout).kind = "end"
  /\ Finish("complete") /\ UNCHANGED slipped

\* Breaks out of the loop without reading the terminator that follows.
ReadError ==
  /\ phase = "read" /\ ReadLine /\ Head(stdout).kind = "err"
  /\ Finish("error") /\ slipped' = TRUE

ReadPiece ==
  /\ phase = "read" /\ ReadLine /\ Head(stdout).kind \notin {"end", "err"}
  /\ heard' = IF Head(stdout).kind = "tok" THEN heard + 1 ELSE heard
  /\ UNCHANGED <<phase, proc, conf, want, started, sessions, req, outcome, slipped>>

\* Variant: `if not line: break` is missing; the loop spins at end of file.
ReadEofSpins == FALSE

ReadEof ==
  /\ phase = "read" /\ AtEof
  /\ Finish("cut") /\ UNCHANGED <<slipped, serverVars>>

------------------------------------------------------------------------------
ClientStep ==
  \/ StopWaited \/ StopKills \/ LaunchRefused \/ Popen
  \/ ReadReady \/ ReadyEof
  \/ PollCommand \/ WriteCommand \/ ReadAck
  \/ \E c \in Chunks : WriteChunk(c)
  \/ WriteRaises \/ ReadEnd \/ ReadError \/ ReadPiece \/ ReadEof

NewCall ==
  \/ \E c \in Confs, h \in Settings : StartReuse(c, h) \/ StartFresh(c, h)
  \/ ChunkRefused \/ ChunkCall

ServerRuns == (ServerStep \/ LoadFails \/ Crash) /\ UNCHANGED clientVars

Next == ClientStep \/ NewCall \/ ServerRuns

Spec == Init /\ [][Next]_vars

(***************************************************************************)
(* The operating system schedules both processes; nobody is obliged to     *)
(* make another call.  StopKills needs no fairness of its own: it is the   *)
(* only client step of a stop() whose process does not exit.               *)
(***************************************************************************)
FairSpec ==
  /\ Spec
  /\ WF_vars(ClientStep)
  /\ WF_vars(ServerStep /\ UNCHANGED clientVars)
------------------------------------------------------------------------------
TypeOK ==
  /\ ServerTypeOK
  /\ phase \in {"idle", "command", "cmdwrite", "acking", "stopping", "launch",
               "loading", "write", "read"}
  /\ proc \in BOOLEAN /\ started \in BOOLEAN /\ slipped \in BOOLEAN
  /\ conf \in Confs \cup {NoConf}
  /\ want \in [conf : Confs \cup {NoConf}, hot : Settings]
  /\ sessions \in Nat /\ req \in Nat /\ heard \in Nat
  /\ outcome \in {"none", "complete", "error", "cut", "down", "raised"}

(***************************************************************************)
(* The line the client is about to take for an answer to its chunk was     *)
(* printed for that chunk (readline loop, gradio_asr_demo.py:146-157).     *)
(***************************************************************************)
OwnReply == phase = "read" /\ stdout # <<>> => Head(stdout).id = req

(***************************************************************************)
(* The one line _send_command reads is the acknowledgement of that command.*)
(***************************************************************************)
AckIsOwn == phase = "acking" /\ stdout # <<>> => Head(stdout) = OutLine("ack", req, 0)

(***************************************************************************)
(* Both hold through deaths, kills and restarts of the process, until the  *)
(* client takes an error line for a whole answer or sends a command of two *)
(* lines; and again from the next launch.                                  *)
(***************************************************************************)
InSync == ~slipped => OwnReply /\ AckIsOwn

(***************************************************************************)
(* A chunk is transcribed with the hotwords its session asked for, whether *)
(* they reached the process on its command line or by a CONTEXT: line sent *)
(* to a reused process.                                                    *)
(***************************************************************************)
HotwordsInForce ==
  srv \in {"chunk", "stream"} /\ phase = "read" /\ job.id = req /\ want.hot # NoHotwords
    => setting = want.hot

\* The same for a text of one line, in every state the pipes can be in.
OneLineHotwordsInForce == want.hot \notin MultiLine => HotwordsInForce

\* Nothing but a full log pipe holds a call: deaths, unusable chunks and
\* hotword lists do not.
EveryCallReturnsUnlessLogFull == (phase # "idle") ~> (phase = "idle" \/ stderr = StderrCap)

\* stop() returns even when the process is stuck: wait() times out.
StopReturns == (phase = "stopping") ~> (phase = "launch")

(***************************************************************************)
(* The client and the server together are a ChunkService.                  *)
(***************************************************************************)
InCall == phase \in {"write", "read"}
Answering == phase = "read" /\ job.id = req

Call == IF InCall THEN req ELSE 0
Spoken == IF Answering THEN emitted ELSE 0
Closed == phase = "read" /\ \E i \in DOMAIN stdout : stdout[i].id = req /\ stdout[i].kind = "end"

Service == INSTANCE ChunkService WITH call <- Call, spoken <- Spoken, closed <- Closed

ServiceSpec == Service!Spec
==============================================================================
