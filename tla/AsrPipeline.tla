----------------------------- MODULE AsrPipeline -----------------------------
(***************************************************************************)
(* The server of AsrServer under a driver that writes its lines without    *)
(* waiting for answers and reads the answers whenever it likes: what the   *)
(* protocol in the header of src/src/asr_server.cpp promises to any peer.  *)
(* Nobody removes lines from stdout here, so stdout is the whole output.   *)
(***************************************************************************)
EXTENDS AsrServer

CONSTANTS
  FirstSetting,  \* --context of the command line
  MaxLines       \* bound: lines the driver writes

VARIABLE script  \* every line the driver has written, in order

pipelineVars == <<serverVars, script>>

PipelineInit ==
  /\ srv = "loading"
  /\ stdin = <<>> /\ eof = FALSE /\ stdout = <<>> /\ stderr = 0
  /\ setting = FirstSetting
  /\ job = NoJob /\ emitted = 0
  /\ script = <<>>

Feed ==
  /\ ~eof /\ Len(script) < MaxLines
  /\ \E l \in {InLine("chunk", Len(script) + 1, c) : c \in Chunks}
            \cup {InLine("set", Len(script) + 1, s) : s \in Settings}
            \cup {InLine(k, Len(script) + 1, "none") : k \in {"exit", "blank"}} :
       /\ stdin' = Append(stdin, l)
       /\ script' = Append(script, l)
  /\ UNCHANGED <<srv, eof, stdout, stderr, setting, job, emitted>>

CloseStdin ==
  /\ ~eof /\ eof' = TRUE
  /\ UNCHANGED <<srv, stdin, stdout, stderr, setting, job, emitted, script>>

\* A terminal, or any driver that reads the log.
DrainStderr ==
  /\ stderr > 0 /\ stderr' = 0
  /\ UNCHANGED <<srv, stdin, eof, stdout, setting, job, emitted, script>>

PipelineNext ==
  \/ (ServerStep \/ LoadFails \/ Crash) /\ UNCHANGED script
  \/ Feed \/ CloseStdin \/ DrainStderr

PipelineSpec == PipelineInit /\ [][PipelineNext]_pipelineVars

\* The process runs whenever it can, and its log is read.
FairPipeline ==
  /\ PipelineSpec
  /\ WF_pipelineVars(ServerStep /\ UNCHANGED script)
  /\ WF_pipelineVars(DrainStderr)

------------------------------------------------------------------------------
Needs(k) == script[k].kind \in {"chunk", "set"}
Answered(k) == \E i \in DOMAIN stdout : stdout[i].id = k /\ stdout[i].kind \in Terminators

(***************************************************************************)
(* A peer that cuts the output at its terminators gets one answer per      *)
(* line, in the order of the lines: answers never interleave and nothing   *)
(* follows a terminator on behalf of the same line (the print sequences of *)
(* the main loop and of every return of process_chunk).                    *)
(***************************************************************************)
AnswersInOrder ==
  \A j \in DOMAIN stdout : \A i \in 1..(j - 1) :
    /\ stdout[i].id <= stdout[j].id
    /\ stdout[i].kind \in Terminators => stdout[i].id < stdout[j].id

(***************************************************************************)
(* A chunk is transcribed with the settings of the last command written    *)
(* before it, whatever was written after it meanwhile (params is read by   *)
(* process_chunk and written only between chunks).                         *)
(***************************************************************************)
LastSetting(k) ==
  LET before == {j \in 1..(k - 1) : script[j].kind = "set"}
  IN  IF before = {} THEN FirstSetting
      ELSE script[CHOOSE j \in before : \A i \in before : i <= j].arg

SettingOfItsTime == srv \in {"chunk", "stream"} => setting = LastSetting(job.id)

(***************************************************************************)
(* Every line written is answered, unless the process ends first: however  *)
(* small the stderr pipe is, a driver that reads it never loses an answer. *)
(***************************************************************************)
EveryLineAnswered ==
  \A k \in 1..MaxLines :
    (k <= Len(script) /\ Needs(k)) ~> (Answered(k) \/ ~Alive)
==============================================================================
