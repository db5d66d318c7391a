-------------------------- MODULE AsrSystem_proofs --------------------------
(***************************************************************************)
(* Proofs about AsrSystem: for any numbers of chunks, pieces, sessions and *)
(* calls, any capacity of the log pipe and any deaths, the client stays in *)
(* step with the server until it slips, a chunk is transcribed with the    *)
(* hotwords of its session, and until it slips the two are a ChunkService. *)
(***************************************************************************)
EXTENDS AsrSystem, Integers, TLAPS

(***************************************************************************)
(* What is in the pipes at each step of a call, while nothing slipped.     *)
(***************************************************************************)
Resting == srv \in {"loop", "timing"}

Quiet == Alive => Resting /\ stdin = <<>> /\ stdout = <<>>

WhileLoading ==
  /\ stdin = <<>>
  /\ \/ srv \in {"loading", "exited"} /\ stdout = <<>>
     \/ srv \in {"loop", "exited"} /\ stdout = <<OutLine("ready", 0, 0)>>

WhileAcking ==
  \/ /\ Resting \/ srv = "exited"
     /\ \E s \in Settings : stdin = <<InLine("set", req, s)>>
     /\ stdout = <<>>
  \/ srv \in {"loop", "exited"} /\ stdin = <<>> /\ stdout = <<OutLine("ack", req, 0)>>

\* The chunk is not taken yet; it is being answered; the answer is complete.
NotTaken ==
  /\ Resting \/ srv = "exited"
  /\ \E c \in Chunks : stdin = <<InLine("chunk", req, c)>>
  /\ job.id < req /\ stdout = <<>> /\ heard = 0

Pieces(n) ==
  /\ job.id = req /\ stdin = <<>>
  /\ heard <= emitted /\ n = emitted - heard
  /\ \A i \in 1..n : stdout[i] = OutLine("tok", req, heard + i)

BeingAnswered ==
  /\ srv \in {"chunk", "stream", "exited"}
  /\ Len(stdout) = emitted - heard /\ Pieces(Len(stdout))

Answered ==
  /\ Resting \/ srv = "exited"
  /\ job.id = req /\ stdin = <<>>
  /\ \/ /\ Len(stdout) = emitted - heard + 2 /\ Pieces(Len(stdout) - 2)
        /\ stdout[Len(stdout) - 1] \in {OutLine("blank", req, 0), OutLine("err", req, 0)}
        /\ stdout[Len(stdout)] = OutLine("end", req, 0)
     \/ heard = emitted /\ stdout = <<OutLine("end", req, 0)>>

InStep ==
  ~slipped =>
    /\ phase \in {"idle", "command", "cmdwrite", "write"} => Quiet
    /\ phase = "loading" => WhileLoading
    /\ phase = "acking" => WhileAcking
    /\ phase = "read" => NotTaken \/ BeingAnswered \/ Answered

(***************************************************************************)
(* Numbers of lines: what is in stdin or being answered is not newer than  *)
(* the last request, and the chunk a call waits for is written last.       *)
(***************************************************************************)
Numbered ==
  /\ job.id <= req /\ \A i \in DOMAIN stdin : stdin[i].id <= req
  /\ phase = "write" => job.id < req /\ \A i \in DOMAIN stdin : stdin[i].id < req
  /\ phase = "read" =>
       /\ \A i \in 1..(Len(stdin) - 1) : stdin[i].id < req
       /\ stdin # <<>> => job.id < req

\* No process without the object; stdin stays open; nothing heard between calls.
Owned ==
  /\ ~proc => ~Alive
  /\ phase = "launch" => ~proc
  /\ ~eof
  /\ ~InCall => heard = 0
  /\ phase = "write" => heard = 0

(***************************************************************************)
(* The last command in the pipe, or the setting in force, is the text of   *)
(* the session.                                                            *)
(***************************************************************************)
NoCommand == \A i \in DOMAIN stdin : stdin[i].kind # "set"

LastCommandIs(h) ==
  /\ \A i \in DOMAIN stdin :
       stdin[i].kind = "set" /\ (\A k \in (i + 1)..Len(stdin) : stdin[k].kind # "set")
         => stdin[i].arg = h
  /\ NoCommand => setting = h

Asked ==
  /\ Alive /\ want.hot # NoHotwords /\ want.hot \notin MultiLine
  /\ phase \in {"loading", "acking", "write", "read"} \/ (phase = "idle" /\ started)

HotwordsArrive == Asked => LastCommandIs(want.hot)

(***************************************************************************)
(* Types.                                                                  *)
(***************************************************************************)
LEMMA OutLineType ==
  ASSUME NEW kind \in {"ready", "ack", "err", "tok", "blank", "end"}, NEW id \in Nat, NEW n \in Nat
  PROVE  /\ OutLine(kind, id, n) \in OutLines
         /\ OutLine(kind, id, n).id = id /\ OutLine(kind, id, n).kind = kind
         /\ OutLine(kind, id, n).n = n
BY DEF OutLine, OutLines

LEMMA InLineType ==
  ASSUME NEW id \in Nat
  PROVE  /\ \A c \in Chunks : InLine("chunk", id, c) \in InLines
         /\ \A h \in Settings : InLine("set", id, h) \in InLines
         /\ InLine("exit", id, "none") \in InLines
         /\ \A k, a : InLine(k, id, a).id = id /\ InLine(k, id, a).kind = k /\ InLine(k, id, a).arg = a
BY DEF InLine, InLines

LEMMA LineParts ==
  /\ \A l \in InLines \cup {NoJob} : l.id \in Nat
  /\ \A l \in InLines : l.kind = "set" => l.arg \in Settings
  /\ \A l \in InLines : l.kind = "chunk" => l.arg \in Chunks
  /\ \A l \in OutLines : l.id \in Nat
BY DEF InLines, OutLines, NoJob

LEMMA TakenTypes ==
  ASSUME ServerTypeOK, NEW kind, Gets(kind)
  PROVE  /\ stdin' \in Seq(InLines) /\ Head(stdin) \in InLines /\ Head(stdin).kind = kind
         /\ Head(stdin).id \in Nat
<1>1. stdin' \in Seq(InLines) /\ Head(stdin) \in InLines /\ Head(stdin).kind = kind
  BY DEF ServerTypeOK, Gets
<1> QED BY <1>1, LineParts

LEMMA LogType ==
  ASSUME ServerTypeOK, Log
  PROVE  stderr' \in 0..StderrCap
BY ServerAssumption DEF ServerTypeOK, Log

LEMMA PutType ==
  ASSUME ServerTypeOK, NEW lines \in Seq(OutLines), Put(lines)
  PROVE  stdout' \in Seq(OutLines)
BY DEF ServerTypeOK, Put

LEMMA ServerTypes ==
  ServerTypeOK /\ (ServerStep \/ LoadFails \/ Crash) => ServerTypeOK'
<1> SUFFICES ASSUME ServerTypeOK, ServerStep \/ LoadFails \/ Crash PROVE ServerTypeOK'
  OBVIOUS
<1>1. CASE LoadModels
  <2>1. <<OutLine("ready", 0, 0)>> \in Seq(OutLines)
    BY OutLineType
  <2>2. stdout' \in Seq(OutLines) /\ stderr' \in 0..StderrCap
    BY <1>1, <2>1, PutType, LogType DEF LoadModels
  <2> QED BY <1>1, <2>2 DEF LoadModels, ServerTypeOK
<1>2. CASE SkipBlank
  BY <1>2, TakenTypes DEF SkipBlank, ServerTypeOK
<1>3. CASE HandleSetting
  <2>1. /\ stdin' \in Seq(InLines) /\ Head(stdin) \in InLines /\ Head(stdin).kind = "set"
        /\ Head(stdin).id \in Nat
    BY <1>3, TakenTypes DEF HandleSetting
  <2>2. <<OutLine("ack", Head(stdin).id, 0)>> \in Seq(OutLines) /\ Head(stdin).arg \in Settings
    BY <2>1, OutLineType, LineParts
  <2>3. stdout' \in Seq(OutLines) /\ stderr' \in 0..StderrCap
    BY <1>3, <2>2, PutType, LogType DEF HandleSetting
  <2> QED BY <1>3, <2>1, <2>2, <2>3 DEF HandleSetting, ServerTypeOK
<1>4. CASE HandleExit
  BY <1>4, TakenTypes, LogType DEF HandleExit, ServerTypeOK
<1>5. CASE BeginChunk
  <2>1. stdin' \in Seq(InLines) /\ Head(stdin) \in InLines /\ stderr' \in 0..StderrCap
    BY <1>5, TakenTypes, LogType DEF BeginChunk
  <2> QED BY <1>5, <2>1, ServerAssumption DEF BeginChunk, ServerTypeOK
<1>6. job.id \in Nat
  BY LineParts DEF ServerTypeOK
<1>7. CASE FailChunk
  <2>1. <<OutLine("err", job.id, 0), OutLine("end", job.id, 0)>> \in Seq(OutLines)
    BY <1>6, OutLineType
  <2>2. stdout' \in Seq(OutLines) /\ stderr' \in 0..StderrCap
    BY <1>7, <2>1, PutType, LogType DEF FailChunk
  <2> QED BY <1>7, <2>2 DEF FailChunk, ServerTypeOK
<1>8. CASE EndChunk
  <2>1. <<OutLine("blank", job.id, 0), OutLine("end", job.id, 0)>> \in Seq(OutLines)
    BY <1>6, OutLineType
  <2>2. stdout' \in Seq(OutLines)
    BY <1>8, <2>1, PutType DEF EndChunk
  <2> QED BY <1>8, <2>2 DEF EndChunk, ServerTypeOK
<1>9. CASE StreamToken
  <2>1. emitted' \in 0..MaxPieces /\ emitted + 1 \in Nat
    BY <1>9, ServerAssumption DEF StreamToken, ServerTypeOK
  <2>2. <<OutLine("tok", job.id, emitted + 1)>> \in Seq(OutLines)
    BY <1>6, <2>1, OutLineType
  <2>3. stdout' \in Seq(OutLines)
    BY <1>9, <2>2, PutType DEF StreamToken
  <2> QED BY <1>9, <2>1, <2>3 DEF StreamToken, ServerTypeOK
<1>10. CASE BuildPrompt \/ LogTiming \/ Shutdown \/ LoadFails
  <2>1. stderr' \in 0..StderrCap
    BY <1>10, LogType DEF BuildPrompt, LogTiming, Shutdown, LoadFails
  <2> QED BY <1>10, <2>1 DEF BuildPrompt, LogTiming, Shutdown, LoadFails, ServerTypeOK
<1>11. CASE HandleEof \/ Crash
  BY <1>11 DEF HandleEof, Crash, ServerTypeOK
<1> QED BY <1>1, <1>2, <1>3, <1>4, <1>5, <1>7, <1>8, <1>9, <1>10, <1>11 DEF ServerStep

LEMMA ReadType == TypeOK /\ ReadLine => ServerTypeOK'
BY DEF TypeOK, ServerTypeOK, ReadLine

LEMMA WriteType ==
  ASSUME TypeOK, NEW lines \in Seq(InLines), Write(lines)
  PROVE  ServerTypeOK'
BY DEF TypeOK, ServerTypeOK, Write

ClientTypeOK ==
  /\ phase \in {"idle", "command", "cmdwrite", "acking", "stopping", "launch",
               "loading", "write", "read"}
  /\ proc \in BOOLEAN /\ started \in BOOLEAN /\ slipped \in BOOLEAN
  /\ conf \in Confs \cup {NoConf}
  /\ want \in [conf : Confs \cup {NoConf}, hot : Settings]
  /\ sessions \in Nat /\ req \in Nat /\ heard \in Nat
  /\ outcome \in {"none", "complete", "error", "cut", "down", "raised"}

LEMMA SameServer == TypeOK /\ UNCHANGED serverVars => ServerTypeOK'
BY DEF TypeOK, ServerTypeOK, serverVars

LEMMA LaunchType ==
  ASSUME NEW h \in Settings, Launch(h)
  PROVE  ServerTypeOK'
<1>1. /\ stdin' \in Seq(InLines) /\ stdout' \in Seq(OutLines)
      /\ stderr' \in 0..StderrCap /\ emitted' \in 0..MaxPieces
  BY ServerAssumption DEF Launch
<1> QED BY <1>1 DEF Launch, ServerTypeOK

LEMMA TypeStep == TypeOK /\ [Next]_vars => TypeOK'
<1> SUFFICES ASSUME TypeOK, [Next]_vars PROVE TypeOK'
  OBVIOUS
<1>0. ServerTypeOK /\ ClientTypeOK /\ req + 1 \in Nat /\ heard + 1 \in Nat /\ sessions + 1 \in Nat
  BY DEF TypeOK, ClientTypeOK
<1> SUFFICES ServerTypeOK' /\ ClientTypeOK'
  BY DEF TypeOK, ClientTypeOK
<1>1. CASE ServerRuns
  BY <1>0, <1>1, ServerTypes DEF ServerRuns, clientVars, ClientTypeOK
<1>2. ASSUME NEW c \in Confs, NEW h \in Settings, StartReuse(c, h)
      PROVE  ServerTypeOK' /\ ClientTypeOK'
  <2>1. want' \in [conf : Confs \cup {NoConf}, hot : Settings]
    BY <1>2 DEF StartReuse
  <2>2. ServerTypeOK'
    BY <1>2, SameServer DEF StartReuse
  <2> QED BY <1>0, <1>2, <2>1, <2>2 DEF StartReuse, ClientTypeOK
<1>3. ASSUME NEW c \in Confs, NEW h \in Settings, StartFresh(c, h)
      PROVE  ServerTypeOK' /\ ClientTypeOK'
  <2>1. want' \in [conf : Confs \cup {NoConf}, hot : Settings]
    BY <1>3 DEF StartFresh
  <2>2. <<InLine("exit", req, "none")>> \in Seq(InLines)
    <3>1. InLine("exit", req, "none") \in InLines
      BY <1>0, InLineType DEF ClientTypeOK
    <3> QED BY <3>1
  <2>3. ServerTypeOK'
    BY <1>3, <2>2, WriteType, SameServer DEF StartFresh
  <2>4. /\ phase' \in {"stopping", "launch"} /\ proc' \in BOOLEAN
        /\ conf' \in Confs \cup {NoConf} /\ sessions' \in Nat
        /\ UNCHANGED <<started, req, heard, outcome, slipped>>
    BY <1>0, <1>3 DEF StartFresh, ClientTypeOK
  <2> QED BY <1>0, <2>1, <2>3, <2>4 DEF ClientTypeOK
<1>4. CASE StopWaited \/ LaunchRefused \/ ReadyEof \/ PollCommand \/ WriteRaises \/ ReadEof
             \/ ChunkRefused \/ ChunkCall \/ UNCHANGED vars
  <2>1. UNCHANGED serverVars
    BY <1>4 DEF StopWaited, LaunchRefused, ReadyEof, PollCommand, WriteRaises, ReadEof,
                ChunkRefused, ChunkCall, vars
  <2>2. ServerTypeOK'
    BY <2>1, SameServer
  <2>3. CASE StopWaited \/ LaunchRefused \/ ReadyEof \/ PollCommand
    BY <1>0, <2>2, <2>3 DEF StopWaited, LaunchRefused, ReadyEof, PollCommand, ClientTypeOK
  <2>4. CASE WriteRaises
    <3>1. outcome' \in {"raised", outcome}
      BY <2>4 DEF WriteRaises
    <3>2. /\ phase' = "idle" /\ started' = FALSE /\ heard' = 0
          /\ UNCHANGED <<proc, conf, want, sessions, req, slipped>>
      BY <2>4 DEF WriteRaises
    <3> QED BY <1>0, <2>2, <3>1, <3>2 DEF ClientTypeOK
  <2>8. CASE ReadEof
    BY <1>0, <2>2, <2>8 DEF ReadEof, Finish, ClientTypeOK
  <2>5. CASE ChunkRefused
    BY <1>0, <2>2, <2>5 DEF ChunkRefused, ClientTypeOK
  <2>6. CASE ChunkCall
    BY <1>0, <2>2, <2>6 DEF ChunkCall, ClientTypeOK
  <2>7. CASE UNCHANGED vars
    BY <1>0, <2>2, <2>7 DEF vars, clientVars, ClientTypeOK
  <2> QED BY <1>4, <2>3, <2>4, <2>5, <2>6, <2>7, <2>8
<1>5. CASE StopKills
  BY <1>0, <1>5 DEF StopKills, ServerTypeOK, ClientTypeOK
<1>6. CASE Popen
  <2>1. want.hot \in Settings
    BY <1>0 DEF ClientTypeOK
  <2>2. ServerTypeOK'
    BY <1>6, <2>1, LaunchType DEF Popen
  <2> QED BY <1>0, <1>6, <2>2 DEF Popen, ClientTypeOK
<1>7. CASE ReadReady
  <2>1. conf' \in Confs \cup {NoConf}
    BY <1>0, <1>7 DEF ReadReady, ClientTypeOK
  <2> QED BY <1>0, <1>7, <2>1, ReadType DEF ReadReady, ClientTypeOK
<1>8. CASE WriteCommand
  <2>1. FirstLine[want.hot] \in Settings /\ StrayPath \in Chunks
    BY <1>0, ClientAssumption DEF ClientTypeOK
  <2>2. /\ <<InLine("set", req + 1, FirstLine[want.hot])>> \in Seq(InLines)
        /\ <<InLine("chunk", req + 1, StrayPath)>> \in Seq(InLines)
        /\ <<>> \in Seq(InLines)
    <3>1. /\ InLine("set", req + 1, FirstLine[want.hot]) \in InLines
          /\ InLine("chunk", req + 1, StrayPath) \in InLines
      BY <1>0, <2>1, InLineType
    <3> QED BY <3>1
  <2>3. <<InLine("set", req + 1, FirstLine[want.hot])>>
          \o (IF want.hot \in MultiLine
             THEN <<InLine("chunk", req + 1, StrayPath)>> ELSE <<>>) \in Seq(InLines)
    BY <2>2
  <2>4. ServerTypeOK'
    BY <1>8, <2>3, WriteType DEF WriteCommand
  <2>5. slipped' \in BOOLEAN
    BY <1>8, Zenon DEF WriteCommand
  <2> QED BY <1>0, <1>8, <2>4, <2>5 DEF WriteCommand, ClientTypeOK
<1>9. CASE ReadAck
  BY <1>0, <1>9, ReadType, SameServer DEF ReadAck, ClientTypeOK
<1>10. ASSUME NEW c \in Chunks, WriteChunk(c) PROVE ServerTypeOK' /\ ClientTypeOK'
  <2>1. <<InLine("chunk", req, c)>> \in Seq(InLines)
    <3>1. InLine("chunk", req, c) \in InLines
      BY <1>0, InLineType DEF ClientTypeOK
    <3> QED BY <3>1
  <2> QED BY <1>0, <1>10, <2>1, WriteType DEF WriteChunk, ClientTypeOK
<1>11. CASE ReadEnd \/ ReadError \/ ReadPiece
  <2>1. ServerTypeOK'
    BY <1>11, ReadType DEF ReadEnd, ReadError, ReadPiece
  <2>2. CASE ReadEnd
    BY <1>0, <2>1, <2>2 DEF ReadEnd, Finish, ClientTypeOK
  <2>4. CASE ReadError
    BY <1>0, <2>1, <2>4 DEF ReadError, Finish, ClientTypeOK
  <2>3. CASE ReadPiece
    <3>1. heard' \in Nat
      BY <1>0, <2>3 DEF ReadPiece, ClientTypeOK
    <3> QED BY <1>0, <2>1, <2>3, <3>1 DEF ReadPiece, ClientTypeOK
  <2> QED BY <1>11, <2>2, <2>3, <2>4
<1> QED BY <1>1, <1>2, <1>3, <1>4, <1>5, <1>6, <1>7, <1>8, <1>9, <1>10, <1>11
        DEF Next, ClientStep, NewCall

LEMMA TypeInit == Init => TypeOK
<1> SUFFICES ASSUME Init PROVE TypeOK
  OBVIOUS
<1>1. ServerTypeOK
  <2>1. /\ stdin \in Seq(InLines) /\ stdout \in Seq(OutLines)
        /\ stderr \in 0..StderrCap /\ emitted \in 0..MaxPieces
    BY ServerAssumption DEF Init
  <2> QED BY <2>1, ClientAssumption DEF Init, ServerTypeOK
<1> QED BY <1>1, ClientAssumption DEF Init, TypeOK

(***************************************************************************)
(* Types of both processes and of the pipes between them.                  *)
(***************************************************************************)
THEOREM TypeCorrect == Spec => []TypeOK
BY TypeInit, TypeStep, PTL DEF Spec

(***************************************************************************)
(* What a step of the server does to its input.                            *)
(***************************************************************************)
Takes == stdin # <<>> /\ stdin' = Tail(stdin)

LEMMA ServerInput ==
  ASSUME TypeOK, ServerRuns
  PROVE  /\ Alive /\ srv' # "none" /\ eof' = eof /\ UNCHANGED clientVars
         /\ \/ stdin' = stdin /\ job' = job
            \/ Takes /\ job' = job
            \/ Takes /\ job' = Head(stdin)
<1> USE DEF ServerRuns
<1>1. UNCHANGED clientVars
  OBVIOUS
<1>2. CASE LoadModels \/ HandleEof \/ FailChunk \/ BuildPrompt
  BY <1>1, <1>2 DEF LoadModels, HandleEof, FailChunk, BuildPrompt, Alive
<1>3. CASE StreamToken \/ EndChunk \/ LogTiming \/ Shutdown \/ LoadFails
  BY <1>1, <1>3 DEF StreamToken, EndChunk, LogTiming, Shutdown, LoadFails, Alive
<1>4. CASE Crash
  BY <1>1, <1>4 DEF Crash
<1>5. CASE SkipBlank \/ HandleSetting \/ HandleExit \/ BeginChunk
  BY <1>1, <1>5 DEF SkipBlank, HandleSetting, HandleExit, BeginChunk, Gets, Takes, Alive
<1> QED BY <1>2, <1>3, <1>4, <1>5 DEF ServerStep

LEMMA TailShape ==
  ASSUME stdin \in Seq(InLines), Takes
  PROVE  /\ Len(stdin) \in Nat \ {0} /\ Len(stdin') = Len(stdin) - 1
         /\ stdin' \in Seq(InLines) /\ Head(stdin) = stdin[1] /\ stdin[1] \in InLines
         /\ \A i \in 1..Len(stdin') : stdin'[i] = stdin[i + 1]
         /\ DOMAIN stdin = 1..Len(stdin) /\ DOMAIN stdin' = 1..Len(stdin')
         /\ stdin' # <<>> => Len(stdin') >= 1
BY DEF Takes

LEMMA OwnedStep == TypeOK /\ Owned /\ [Next]_vars => Owned'
<1> SUFFICES ASSUME TypeOK, Owned, [Next]_vars PROVE Owned'
  OBVIOUS
<1>1. CASE ServerRuns
  <2>1. Alive /\ eof' = eof /\ UNCHANGED clientVars
    BY <1>1, ServerInput
  <2> QED BY <2>1 DEF Owned, clientVars, InCall
<1>2. ASSUME NEW c \in Confs, NEW h \in Settings, StartReuse(c, h) PROVE Owned'
  BY <1>2 DEF StartReuse, Owned, InCall, serverVars, Alive
<1>3. ASSUME NEW c \in Confs, NEW h \in Settings, StartFresh(c, h) PROVE Owned'
  <2>1. /\ UNCHANGED <<srv, eof, heard>> /\ phase = "idle"
        /\ \/ phase' = "stopping" /\ proc' = proc
           \/ phase' = "launch" /\ ~proc' /\ ~Running
    BY <1>3 DEF StartFresh, Write, serverVars
  <2> QED BY <2>1 DEF Owned, InCall, Alive, Running
<1>4. CASE StopWaited \/ StopKills
  BY <1>4 DEF StopWaited, StopKills, Owned, InCall, Alive, serverVars
<1>5. CASE LaunchRefused \/ PollCommand \/ ReadyEof
  BY <1>5 DEF LaunchRefused, PollCommand, ReadyEof, AtEof, Owned, InCall, Alive, serverVars
<1>6. CASE Popen
  BY <1>6 DEF Popen, Launch, Owned, InCall
<1>7. CASE WriteRaises
  BY <1>7 DEF WriteRaises, Owned, InCall, Alive, serverVars
<1>8. CASE ReadEof
  BY <1>8 DEF ReadEof, Finish, Owned, InCall, Alive, serverVars
<1>9. CASE ReadReady
  BY <1>9 DEF ReadReady, ReadLine, Owned, InCall, Alive
<1>10. CASE WriteCommand
  BY <1>10 DEF WriteCommand, Write, Owned, InCall, Alive
<1>11. CASE ReadAck
  BY <1>11 DEF ReadAck, ReadLine, Owned, InCall, Alive, serverVars
<1>12. ASSUME NEW c \in Chunks, WriteChunk(c) PROVE Owned'
  BY <1>12 DEF WriteChunk, Write, Owned, InCall, Alive
<1>13. CASE ReadEnd \/ ReadError
  BY <1>13 DEF ReadEnd, ReadError, Finish, ReadLine, Owned, InCall, Alive
<1>14. CASE ReadPiece
  BY <1>14 DEF ReadPiece, ReadLine, Owned, InCall, Alive
<1>15. CASE ChunkRefused
  BY <1>15 DEF ChunkRefused, Owned, InCall, Alive, serverVars
<1>16. CASE ChunkCall
  BY <1>16 DEF ChunkCall, Owned, InCall, Alive, serverVars
<1>17. CASE UNCHANGED vars
  BY <1>17 DEF vars, clientVars, serverVars, Owned, InCall, Alive
<1> QED BY <1>1, <1>2, <1>3, <1>4, <1>5, <1>6, <1>7, <1>8, <1>9, <1>10, <1>11, <1>12, <1>13,
           <1>14, <1>15, <1>16, <1>17 DEF Next, ClientStep, NewCall

LEMMA WriteOne ==
  ASSUME stdin \in Seq(InLines), NEW l \in InLines, stdin' = stdin \o <<l>>
  PROVE  /\ Len(stdin) \in Nat /\ Len(stdin') = Len(stdin) + 1
         /\ DOMAIN stdin = 1..Len(stdin) /\ DOMAIN stdin' = 1..(Len(stdin) + 1)
         /\ \A i \in 1..Len(stdin) : stdin'[i] = stdin[i]
         /\ stdin'[Len(stdin) + 1] = l /\ stdin' # <<>>
OBVIOUS

LEMMA WriteTwo ==
  ASSUME stdin \in Seq(InLines), NEW k \in InLines, NEW l \in InLines, stdin' = stdin \o <<k, l>>
  PROVE  /\ Len(stdin) \in Nat /\ Len(stdin') = Len(stdin) + 2
         /\ DOMAIN stdin = 1..Len(stdin) /\ DOMAIN stdin' = 1..(Len(stdin) + 2)
         /\ \A i \in 1..Len(stdin) : stdin'[i] = stdin[i]
         /\ stdin'[Len(stdin) + 1] = k /\ stdin'[Len(stdin) + 2] = l /\ stdin' # <<>>
OBVIOUS

LEMMA ShortConcat ==
  ASSUME NEW a \in InLines, NEW b \in InLines
  PROVE  <<a>> \o <<b>> = <<a, b>> /\ <<a>> \o <<>> = <<a>>
<1>1. <<a>> \o <<b>> = <<a, b>>
  <2>1. <<a>> \o <<b>> = Append(<<a>>, b)
    OBVIOUS
  <2>2. <<a, b>> = Append(<<a>>, b)
    OBVIOUS
  <2> QED BY <2>1, <2>2
<1>2. <<a>> \o <<>> = <<a>>
  OBVIOUS
<1> QED BY <1>1, <1>2

\* What _send_command writes.
LEMMA CommandWritten ==
  ASSUME TypeOK, WriteCommand
  PROVE  /\ InLine("set", req + 1, FirstLine[want.hot]) \in InLines
         /\ InLine("chunk", req + 1, StrayPath) \in InLines
         /\ stdin' = IF want.hot \in MultiLine
                     THEN stdin \o <<InLine("set", req + 1, FirstLine[want.hot]),
                                     InLine("chunk", req + 1, StrayPath)>>
                     ELSE stdin \o <<InLine("set", req + 1, FirstLine[want.hot])>>
         /\ UNCHANGED <<srv, eof, stdout, stderr, setting, job, emitted>>
<1>1. req + 1 \in Nat /\ FirstLine[want.hot] \in Settings /\ StrayPath \in Chunks
  BY ClientAssumption DEF TypeOK
<1> DEFINE k == InLine("set", req + 1, FirstLine[want.hot])
           l == InLine("chunk", req + 1, StrayPath)
<1>2. k \in InLines /\ l \in InLines
  BY <1>1, InLineType
<1>3. <<k>> \o <<l>> = <<k, l>> /\ <<k>> \o <<>> = <<k>>
  BY <1>2, ShortConcat
<1>4. stdin' = stdin \o (<<k>> \o (IF want.hot \in MultiLine THEN <<l>> ELSE <<>>))
  BY Zenon DEF WriteCommand, Write
<1>5. UNCHANGED <<srv, eof, stdout, stderr, setting, job, emitted>>
  BY DEF WriteCommand, Write
<1> QED BY <1>2, <1>3, <1>4, <1>5

LEMMA LineIds ==
  ASSUME TypeOK
  PROVE  /\ req \in Nat /\ job.id \in Nat /\ Len(stdin) \in Nat
         /\ DOMAIN stdin = 1..Len(stdin)
         /\ \A i \in 1..Len(stdin) : stdin[i] \in InLines /\ stdin[i].id \in Nat
<1>1. \A i \in 1..Len(stdin) : stdin[i] \in InLines
  BY DEF TypeOK, ServerTypeOK
<1> QED BY <1>1, LineParts DEF TypeOK, ServerTypeOK

\* Without a new line or number.
LEMMA NumberedSame ==
  ASSUME TypeOK, Numbered, UNCHANGED <<stdin, job, req>>,
         phase' \in {"write", "read"} => phase' = phase
  PROVE  Numbered'
BY DEF Numbered

\* The server takes the next line.
LEMMA NumberedTaken ==
  ASSUME TypeOK, Numbered, Takes, job' = job \/ job' = Head(stdin), UNCHANGED <<phase, req>>
  PROVE  Numbered'
<1>1. /\ Len(stdin) \in Nat \ {0} /\ Len(stdin') = Len(stdin) - 1
      /\ Head(stdin) = stdin[1]
      /\ \A i \in 1..Len(stdin') : stdin'[i] = stdin[i + 1]
      /\ DOMAIN stdin = 1..Len(stdin) /\ DOMAIN stdin' = 1..Len(stdin')
      /\ stdin' # <<>> => Len(stdin') >= 1
  BY TailShape DEF TypeOK, ServerTypeOK
<1>2. /\ req \in Nat /\ job.id \in Nat /\ \A i \in 1..Len(stdin) : stdin[i].id \in Nat
  BY LineIds
<1>3. 1 \in 1..Len(stdin) /\ \A i \in 1..Len(stdin') : i + 1 \in 1..Len(stdin)
  BY <1>1
<1>4. job'.id <= req' /\ \A i \in DOMAIN stdin' : stdin'[i].id <= req'
  <2>1. job'.id <= req'
    BY <1>1, <1>3 DEF Numbered
  <2>2. \A i \in DOMAIN stdin' : stdin'[i].id <= req'
    BY <1>1, <1>3 DEF Numbered
  <2> QED BY <2>1, <2>2
<1>5. phase' = "write" => job'.id < req' /\ \A i \in DOMAIN stdin' : stdin'[i].id < req'
  <2> SUFFICES ASSUME phase' = "write"
               PROVE  job'.id < req' /\ \A i \in DOMAIN stdin' : stdin'[i].id < req'
    OBVIOUS
  <2>1. job'.id < req'
    BY <1>1, <1>3 DEF Numbered
  <2>2. \A i \in DOMAIN stdin' : stdin'[i].id < req'
    BY <1>1, <1>3 DEF Numbered
  <2> QED BY <2>1, <2>2
<1>6. phase' = "read" =>
        /\ \A i \in 1..(Len(stdin') - 1) : stdin'[i].id < req'
        /\ stdin' # <<>> => job'.id < req'
  <2> SUFFICES ASSUME phase' = "read"
               PROVE  /\ \A i \in 1..(Len(stdin') - 1) : stdin'[i].id < req'
                      /\ stdin' # <<>> => job'.id < req'
    OBVIOUS
  <2>1. (\A i \in 1..(Len(stdin) - 1) : stdin[i].id < req) /\ job.id < req
    BY <1>1 DEF Numbered, Takes
  <2>2. \A i \in 1..(Len(stdin') - 1) : stdin'[i].id < req'
    <3> TAKE i \in 1..(Len(stdin') - 1)
    <3>1. i \in 1..Len(stdin') /\ i + 1 \in 1..(Len(stdin) - 1)
      BY <1>1
    <3> QED BY <1>1, <2>1, <3>1
  <2>3. stdin' # <<>> => job'.id < req'
    <3> HAVE stdin' # <<>>
    <3>1. 1 \in 1..(Len(stdin) - 1)
      BY <1>1
    <3> QED BY <1>1, <2>1, <3>1
  <2> QED BY <2>2, <2>3
<1> QED BY <1>4, <1>5, <1>6 DEF Numbered

LEMMA NumberedStep == TypeOK /\ Numbered /\ [Next]_vars => Numbered'
<1> SUFFICES ASSUME TypeOK, Numbered, [Next]_vars PROVE Numbered'
  OBVIOUS
<1>0. /\ req \in Nat /\ job.id \in Nat /\ Len(stdin) \in Nat /\ DOMAIN stdin = 1..Len(stdin)
      /\ \A i \in 1..Len(stdin) : stdin[i] \in InLines /\ stdin[i].id \in Nat
      /\ stdin \in Seq(InLines)
  BY LineIds DEF TypeOK, ServerTypeOK
<1>1. CASE ServerRuns
  <2>1. /\ UNCHANGED <<phase, req>>
        /\ \/ stdin' = stdin /\ job' = job
           \/ Takes /\ (job' = job \/ job' = Head(stdin))
    BY <1>1, ServerInput DEF clientVars
  <2> QED BY <2>1, NumberedSame, NumberedTaken
<1>2. ASSUME NEW c \in Confs, NEW h \in Settings, StartReuse(c, h) PROVE Numbered'
  BY <1>2, NumberedSame DEF StartReuse, serverVars
<1>3. ASSUME NEW c \in Confs, NEW h \in Settings, StartFresh(c, h) PROVE Numbered'
  <2>1. phase' \notin {"write", "read"} /\ req' = req /\ job' = job
    BY <1>3 DEF StartFresh, Write, serverVars
  <2>2. CASE stdin' = stdin
    BY <2>1, <2>2, NumberedSame
  <2>3. CASE stdin' = stdin \o <<InLine("exit", req, "none")>>
    <3>1. InLine("exit", req, "none") \in InLines /\ InLine("exit", req, "none").id = req
      BY <1>0, InLineType
    <3>2. \A i \in DOMAIN stdin' : stdin'[i].id <= req
      BY <1>0, <2>3, <3>1, WriteOne DEF Numbered
    <3> QED BY <2>1, <3>2 DEF Numbered
  <2>4. stdin' = stdin \/ stdin' = stdin \o <<InLine("exit", req, "none")>>
    BY <1>3 DEF StartFresh, Write, serverVars
  <2> QED BY <2>2, <2>3, <2>4
<1>4. CASE StopWaited \/ LaunchRefused \/ ReadyEof \/ PollCommand \/ WriteRaises \/ ReadEof
  BY <1>4, NumberedSame
     DEF StopWaited, LaunchRefused, ReadyEof, PollCommand, WriteRaises, ReadEof, Finish, serverVars
<1>5. CASE StopKills \/ ReadReady \/ ReadEnd \/ ReadError \/ ReadPiece
  BY <1>5, NumberedSame DEF StopKills, ReadReady, ReadEnd, ReadError, ReadPiece, Finish, ReadLine
<1>6. CASE ReadAck
  BY <1>6, NumberedSame DEF ReadAck, ReadLine, serverVars
<1>7. CASE Popen
  <2>1. stdin' = <<>> /\ job'.id = 0 /\ req' = req /\ phase' = "loading"
    BY <1>7 DEF Popen, Launch, NoJob
  <2> QED BY <1>0, <2>1 DEF Numbered
<1>8. CASE WriteCommand
  <2> DEFINE k == InLine("set", req + 1, FirstLine[want.hot])
             l == InLine("chunk", req + 1, StrayPath)
  <2>1. /\ k \in InLines /\ l \in InLines /\ job' = job /\ req' = req + 1 /\ phase' = "acking"
        /\ stdin' = stdin \o <<k, l>> \/ stdin' = stdin \o <<k>>
    BY <1>8, CommandWritten DEF WriteCommand
  <2>2. k.id = req + 1 /\ l.id = req + 1
    BY DEF InLine
  <2>3. \A i \in DOMAIN stdin' : stdin'[i].id <= req + 1
    <3>1. CASE stdin' = stdin \o <<k, l>>
      <4> HIDE DEF k, l
      <4> QED BY <1>0, <2>1, <2>2, <3>1, WriteTwo DEF Numbered
    <3>2. CASE stdin' = stdin \o <<k>>
      <4> HIDE DEF k, l
      <4> QED BY <1>0, <2>1, <2>2, <3>2, WriteOne DEF Numbered
    <3> QED BY <2>1, <3>1, <3>2
  <2>4. job'.id <= req + 1
    BY <1>0, <2>1 DEF Numbered
  <2> QED BY <2>1, <2>3, <2>4 DEF Numbered
<1>9. ASSUME NEW c \in Chunks, WriteChunk(c) PROVE Numbered'
  <2>1. /\ phase = "write" /\ phase' = "read" /\ req' = req /\ job' = job
        /\ stdin' = stdin \o <<InLine("chunk", req, c)>>
    BY <1>9 DEF WriteChunk, Write
  <2>2. InLine("chunk", req, c) \in InLines /\ InLine("chunk", req, c).id = req
    <3>1. InLine("chunk", req, c) \in InLines
      BY <1>0, InLineType
    <3>2. InLine("chunk", req, c).id = req
      BY DEF InLine
    <3> QED BY <3>1, <3>2
  <2>3. /\ Len(stdin') = Len(stdin) + 1 /\ DOMAIN stdin' = 1..(Len(stdin) + 1)
        /\ \A i \in 1..Len(stdin) : stdin'[i] = stdin[i]
        /\ stdin'[Len(stdin) + 1].id = req
    BY <1>0, <2>1, <2>2, WriteOne
  <2>4. job.id < req /\ \A i \in 1..Len(stdin) : stdin[i].id < req
    BY <1>0, <2>1 DEF Numbered
  <2> QED BY <1>0, <2>1, <2>3, <2>4 DEF Numbered
<1>10. CASE ChunkRefused \/ UNCHANGED vars
  BY <1>10, NumberedSame DEF ChunkRefused, vars, clientVars, serverVars
<1>11. CASE ChunkCall
  <2>1. phase' = "write" /\ req' = req + 1 /\ stdin' = stdin /\ job' = job
    BY <1>11 DEF ChunkCall, serverVars
  <2> QED BY <1>0, <2>1 DEF Numbered
<1> QED BY <1>1, <1>2, <1>3, <1>4, <1>5, <1>6, <1>7, <1>8, <1>9, <1>10, <1>11
        DEF Next, ClientStep, NewCall

(***************************************************************************)
(* What the server can do, by where it stands.                             *)
(***************************************************************************)
Steps == ServerStep \/ LoadFails \/ Crash

LEMMA AtRest ==
  ASSUME Resting \/ srv = "exited", ~eof, stdin = <<>>, Steps
  PROVE  /\ srv' \in {"loop", "exited"}
         /\ UNCHANGED <<stdin, stdout, setting, job, emitted>>
BY DEF Resting, Steps, ServerStep, LoadModels, LoadFails, Crash, SkipBlank, HandleSetting, HandleExit,
       HandleEof, BeginChunk, FailChunk, BuildPrompt, StreamToken, EndChunk, LogTiming, Shutdown,
       Gets, Alive

\* One line is waiting.
LEMMA AtRestWithLine ==
  ASSUME Resting \/ srv = "exited", NEW l \in InLines, stdin = <<l>>, l.kind \in {"set", "chunk"},
         Steps
  PROVE  \/ /\ srv' \in {"loop", "exited"}
            /\ UNCHANGED <<stdin, stdout, setting, job, emitted>>
         \/ /\ l.kind = "set" /\ srv' = "loop" /\ stdin' = <<>> /\ setting' = l.arg
            /\ Put(<<OutLine("ack", l.id, 0)>>) /\ UNCHANGED <<job, emitted>>
         \/ /\ l.kind = "chunk" /\ srv' = "chunk" /\ stdin' = <<>>
            /\ job' = l /\ emitted' = 0 /\ UNCHANGED <<stdout, setting>>
<1>1. Head(stdin) = l /\ Tail(stdin) = <<>> /\ stdin # <<>>
  OBVIOUS
<1>2. CASE LogTiming \/ Crash
  BY <1>2 DEF LogTiming, Crash
<1>3. CASE HandleSetting
  BY <1>1, <1>3 DEF HandleSetting, Gets
<1>4. CASE BeginChunk
  BY <1>1, <1>4 DEF BeginChunk, Gets
<1>5. ~ (SkipBlank \/ HandleExit \/ HandleEof)
  BY <1>1 DEF SkipBlank, HandleExit, HandleEof, Gets
<1>6. ~ (LoadModels \/ FailChunk \/ BuildPrompt \/ StreamToken \/ EndChunk \/ Shutdown \/ LoadFails)
  BY DEF Resting, LoadModels, FailChunk, BuildPrompt, StreamToken, EndChunk, Shutdown, LoadFails
<1> QED BY <1>2, <1>3, <1>4, <1>5, <1>6 DEF Steps, ServerStep

LEMMA InChunk ==
  ASSUME srv \in {"chunk", "stream", "exited"}, Steps
  PROVE  \/ /\ srv' \in {"stream", "exited"}
            /\ UNCHANGED <<stdin, stdout, setting, job, emitted>>
         \/ /\ srv = "stream" /\ srv' = srv /\ emitted < MaxPieces /\ emitted' = emitted + 1
            /\ Put(<<OutLine("tok", job.id, emitted + 1)>>)
            /\ UNCHANGED <<stdin, setting, job>>
         \/ /\ srv # "exited" /\ srv' \in {"loop", "timing"}
            /\ \E kind \in {"err", "blank"} :
                 Put(<<OutLine(kind, job.id, 0), OutLine("end", job.id, 0)>>)
            /\ UNCHANGED <<stdin, setting, job, emitted>>
<1>1. CASE BuildPrompt \/ Crash
  BY <1>1 DEF BuildPrompt, Crash
<1>2. CASE StreamToken
  BY <1>2 DEF StreamToken
<1>3. CASE FailChunk
  BY <1>3 DEF FailChunk
<1>4. CASE EndChunk
  BY <1>4 DEF EndChunk
<1>5. ~ (LoadModels \/ LogTiming \/ Shutdown \/ LoadFails \/ HandleEof)
  BY DEF LoadModels, LogTiming, Shutdown, LoadFails, HandleEof
<1>6. ~ (SkipBlank \/ HandleSetting \/ HandleExit \/ BeginChunk)
  BY DEF SkipBlank, HandleSetting, HandleExit, BeginChunk, Gets
<1> QED BY <1>1, <1>2, <1>3, <1>4, <1>5, <1>6 DEF Steps, ServerStep

LEMMA AtStart ==
  ASSUME srv = "loading", Steps
  PROVE  \/ srv' = "exited" /\ UNCHANGED <<stdin, stdout, setting, job, emitted>>
         \/ /\ srv' = "loop" /\ Put(<<OutLine("ready", 0, 0)>>)
            /\ UNCHANGED <<stdin, setting, job, emitted>>
BY DEF Steps, ServerStep, LoadModels, LoadFails, Crash, SkipBlank, HandleSetting, HandleExit,
       HandleEof, BeginChunk, FailChunk, BuildPrompt, StreamToken, EndChunk, LogTiming, Shutdown, Gets

LEMMA PutShape ==
  ASSUME stdout \in Seq(OutLines), NEW a \in OutLines, NEW b \in OutLines
  PROVE  /\ Put(<<a>>) => /\ Len(stdout') = Len(stdout) + 1
                          /\ \A i \in 1..Len(stdout) : stdout'[i] = stdout[i]
                          /\ stdout'[Len(stdout) + 1] = a
         /\ Put(<<a, b>>) => /\ Len(stdout') = Len(stdout) + 2
                             /\ \A i \in 1..Len(stdout) : stdout'[i] = stdout[i]
                             /\ stdout'[Len(stdout) + 1] = a
                             /\ stdout'[Len(stdout) + 2] = b
         /\ stdout = <<>> /\ Put(<<a>>) => stdout' = <<a>>
BY DEF Put

(***************************************************************************)
(* The server's steps keep the two in step.                                *)
(***************************************************************************)
LEMMA StdoutTypes ==
  ASSUME TypeOK
  PROVE  /\ stdout \in Seq(OutLines) /\ Len(stdout) \in Nat
         /\ heard \in Nat /\ emitted \in Nat /\ req \in Nat /\ job.id \in Nat
BY LineIds, ServerAssumption DEF TypeOK, ServerTypeOK

LEMMA PiecesSame ==
  ASSUME NEW n, Pieces(n), UNCHANGED <<job, req, stdin, heard, emitted, stdout>>
  PROVE  Pieces(n)'
BY DEF Pieces

LEMMA AnsweringStep ==
  ASSUME TypeOK, BeingAnswered, Steps, UNCHANGED <<req, heard>>
  PROVE  BeingAnswered' \/ Answered'
<1>0. /\ stdout \in Seq(OutLines) /\ Len(stdout) \in Nat
      /\ heard \in Nat /\ emitted \in Nat /\ req \in Nat /\ job.id \in Nat
  BY StdoutTypes
<1>1. /\ srv \in {"chunk", "stream", "exited"} /\ Len(stdout) = emitted - heard
      /\ job.id = req /\ stdin = <<>> /\ heard <= emitted
      /\ \A i \in 1..Len(stdout) : stdout[i] = OutLine("tok", req, heard + i)
  BY DEF BeingAnswered, Pieces
<1>2. CASE srv' \in {"stream", "exited"} /\ UNCHANGED <<stdin, stdout, setting, job, emitted>>
  BY <1>1, <1>2 DEF BeingAnswered, Pieces
<1>3. CASE /\ srv = "stream" /\ srv' = srv /\ emitted' = emitted + 1
           /\ Put(<<OutLine("tok", job.id, emitted + 1)>>)
           /\ UNCHANGED <<stdin, setting, job>>
  <2> DEFINE a == OutLine("tok", req, emitted + 1)
  <2>1. a \in OutLines
    BY <1>0, OutLineType
  <2>2. /\ Len(stdout') = Len(stdout) + 1 /\ stdout'[Len(stdout) + 1] = a
        /\ \A i \in 1..Len(stdout) : stdout'[i] = stdout[i]
    BY <1>0, <1>1, <1>3, <2>1, PutShape
  <2>3. Len(stdout') = emitted' - heard' /\ heard' <= emitted'
    BY <1>0, <1>1, <1>3, <2>2
  <2>4. \A i \in 1..Len(stdout') : stdout'[i] = OutLine("tok", req, heard + i)
    <3> TAKE i \in 1..Len(stdout')
    <3>1. CASE i \in 1..Len(stdout)
      BY <1>1, <2>2, <3>1
    <3>2. CASE i = Len(stdout) + 1
      <4>1. heard + i = emitted + 1
        BY <1>0, <1>1, <3>2
      <4> QED BY <2>2, <3>2, <4>1
    <3> QED BY <1>0, <2>2, <3>1, <3>2
  <2> QED BY <1>1, <1>3, <2>3, <2>4 DEF BeingAnswered, Pieces
<1>4. CASE /\ srv' \in {"loop", "timing"}
           /\ \E kind \in {"err", "blank"} :
                Put(<<OutLine(kind, job.id, 0), OutLine("end", job.id, 0)>>)
           /\ UNCHANGED <<stdin, setting, job, emitted>>
  <2>1. PICK kind \in {"err", "blank"} :
          Put(<<OutLine(kind, job.id, 0), OutLine("end", job.id, 0)>>)
    BY <1>4
  <2> DEFINE a == OutLine(kind, req, 0)
             b == OutLine("end", req, 0)
  <2>2. a \in OutLines /\ b \in OutLines
    BY <1>0, OutLineType
  <2>3. /\ Len(stdout') = Len(stdout) + 2
        /\ stdout'[Len(stdout) + 1] = a /\ stdout'[Len(stdout) + 2] = b
        /\ \A i \in 1..Len(stdout) : stdout'[i] = stdout[i]
    BY <1>0, <1>1, <2>1, <2>2, PutShape
  <2>4. /\ Len(stdout') - 1 = Len(stdout) + 1 /\ Len(stdout') - 2 = Len(stdout)
        /\ Len(stdout') = emitted' - heard' + 2
    BY <1>0, <1>1, <1>4, <2>3
  <2>5. Pieces(Len(stdout) - 2)'
    BY <1>1, <1>4, <2>3, <2>4 DEF Pieces
  <2>6. /\ stdout'[Len(stdout') - 1] \in {OutLine("blank", req, 0), OutLine("err", req, 0)}
        /\ stdout'[Len(stdout')] = OutLine("end", req, 0)
    BY <2>3, <2>4
  <2> QED BY <1>1, <1>4, <2>4, <2>5, <2>6 DEF Answered, Resting
<1> QED BY <1>1, <1>2, <1>3, <1>4, InChunk

LEMMA InStepServer ==
  ASSUME TypeOK, Owned, Numbered, InStep, ServerRuns
  PROVE  InStep'
<1> SUFFICES ASSUME ~slipped' PROVE /\ phase' \in {"idle", "command", "cmdwrite", "write"} => Quiet'
                                    /\ phase' = "loading" => WhileLoading'
                                    /\ phase' = "acking" => WhileAcking'
                                    /\ phase' = "read" => (NotTaken \/ BeingAnswered \/ Answered)'
  BY DEF InStep
<1>0. /\ UNCHANGED clientVars /\ Alive /\ ~eof /\ Steps
      /\ phase' = phase /\ ~slipped /\ req' = req /\ heard' = heard
  BY ServerInput DEF clientVars, Owned, ServerRuns, Steps
<1>00. req \in Nat
  BY DEF TypeOK
<1>1. CASE phase \in {"idle", "command", "cmdwrite", "write"}
  <2>1. Resting /\ stdin = <<>> /\ stdout = <<>>
    BY <1>0, <1>1 DEF InStep, Quiet
  <2> QED BY <1>0, <1>1, <2>1, AtRest DEF Quiet, Resting, Alive
<1>2. CASE phase = "loading"
  <2>1. /\ stdin = <<>>
        /\ \/ srv = "loading" /\ stdout = <<>>
           \/ srv = "loop" /\ stdout = <<OutLine("ready", 0, 0)>>
    BY <1>0, <1>2 DEF InStep, WhileLoading, Alive
  <2>2. CASE srv = "loading" /\ stdout = <<>>
    <3>1. OutLine("ready", 0, 0) \in OutLines
      BY OutLineType
    <3>2. Put(<<OutLine("ready", 0, 0)>>) => stdout' = <<OutLine("ready", 0, 0)>>
      BY <2>2, <3>1, PutShape, StdoutTypes
    <3> QED BY <1>0, <1>2, <2>1, <2>2, <3>2, AtStart DEF WhileLoading
  <2>3. CASE srv = "loop" /\ stdout = <<OutLine("ready", 0, 0)>>
    BY <1>0, <1>2, <2>1, <2>3, AtRest DEF WhileLoading, Resting
  <2> QED BY <2>1, <2>2, <2>3
<1>3. CASE phase = "acking"
  <2>0. WhileAcking
    BY <1>0, <1>3 DEF InStep
  <2>1. CASE /\ Resting /\ stdout = <<>>
             /\ \E s \in Settings : stdin = <<InLine("set", req, s)>>
    <3>1. PICK s \in Settings : stdin = <<InLine("set", req, s)>>
      BY <2>1
    <3> DEFINE l == InLine("set", req, s)
    <3>2. l \in InLines /\ l.kind = "set" /\ l.id = req
      BY <1>00, InLineType
    <3>3. \/ /\ srv' \in {"loop", "exited"}
             /\ UNCHANGED <<stdin, stdout, setting, job, emitted>>
          \/ /\ srv' = "loop" /\ stdin' = <<>> /\ Put(<<OutLine("ack", req, 0)>>)
      <4> HIDE DEF l
      <4> QED BY <1>0, <2>1, <3>1, <3>2, AtRestWithLine DEF l
    <3>4. OutLine("ack", req, 0) \in OutLines
      BY <1>00, OutLineType
    <3>5. Put(<<OutLine("ack", req, 0)>>) => stdout' = <<OutLine("ack", req, 0)>>
      BY <2>1, <3>4, PutShape, StdoutTypes
    <3> QED BY <1>0, <1>3, <2>1, <3>3, <3>5 DEF WhileAcking, Resting
  <2>2. CASE srv = "loop" /\ stdin = <<>> /\ stdout = <<OutLine("ack", req, 0)>>
    BY <1>0, <1>3, <2>2, AtRest DEF WhileAcking, Resting
  <2> QED BY <1>0, <2>0, <2>1, <2>2 DEF WhileAcking, Alive
<1>4. CASE phase = "read"
  <2>0. NotTaken \/ BeingAnswered \/ Answered
    BY <1>0, <1>4 DEF InStep
  <2>1. CASE NotTaken
    <3>0. Resting /\ job.id < req /\ stdout = <<>> /\ heard = 0
      BY <1>0, <2>1 DEF NotTaken, Alive
    <3>1. PICK c \in Chunks : stdin = <<InLine("chunk", req, c)>>
      BY <2>1 DEF NotTaken
    <3> DEFINE l == InLine("chunk", req, c)
    <3>2. l \in InLines /\ l.kind = "chunk" /\ l.id = req
      BY <1>00, InLineType
    <3>3. \/ /\ srv' \in {"loop", "exited"}
             /\ UNCHANGED <<stdin, stdout, setting, job, emitted>>
          \/ /\ srv' = "chunk" /\ stdin' = <<>> /\ job' = l /\ emitted' = 0 /\ stdout' = stdout
      <4> HIDE DEF l
      <4> QED BY <1>0, <3>0, <3>1, <3>2, AtRestWithLine DEF l
    <3>4. CASE srv' \in {"loop", "exited"} /\ UNCHANGED <<stdin, stdout, setting, job, emitted>>
      BY <1>0, <1>4, <3>0, <3>1, <3>4 DEF NotTaken, Resting
    <3>5. CASE srv' = "chunk" /\ stdin' = <<>> /\ job' = l /\ emitted' = 0 /\ stdout' = stdout
      <4>1. BeingAnswered'
        <5> HIDE DEF l
        <5> QED BY <1>0, <3>0, <3>2, <3>5 DEF BeingAnswered, Pieces
      <4> QED BY <1>0, <1>4, <4>1
    <3> QED BY <3>3, <3>4, <3>5
  <2>2. CASE BeingAnswered
    BY <1>0, <1>4, <2>2, AnsweringStep
  <2>3. CASE Answered
    <3>1. Resting /\ stdin = <<>>
      BY <1>0, <2>3 DEF Answered, Alive
    <3>2. srv' \in {"loop", "exited"} /\ UNCHANGED <<stdin, stdout, setting, job, emitted>>
      BY <1>0, <3>1, AtRest
    <3> QED BY <1>0, <1>4, <2>3, <3>2 DEF Answered, Pieces, Resting
  <2> QED BY <2>0, <2>1, <2>2, <2>3
<1>5. CASE phase \notin {"idle", "command", "cmdwrite", "write", "loading", "acking", "read"}
  BY <1>0, <1>5
<1> QED BY <1>1, <1>2, <1>3, <1>4, <1>5

(***************************************************************************)
(* The client's steps keep the two in step.                                *)
(***************************************************************************)
LEMMA LineTaken ==
  ASSUME stdout \in Seq(OutLines), ReadLine
  PROVE  /\ Len(stdout) \in Nat \ {0} /\ Len(stdout') = Len(stdout) - 1
         /\ Head(stdout) = stdout[1]
         /\ \A i \in 1..Len(stdout') : stdout'[i] = stdout[i + 1]
         /\ \A l \in OutLines : stdout = <<l>> => stdout' = <<>> /\ Head(stdout) = l
         /\ \A l \in OutLines : Len(stdout) = 2 /\ stdout[2] = l => stdout' = <<l>>
         /\ UNCHANGED <<srv, stdin, eof, stderr, setting, job, emitted>>
<1>1. /\ Len(stdout) \in Nat \ {0} /\ Len(stdout') = Len(stdout) - 1
      /\ Head(stdout) = stdout[1] /\ stdout' \in Seq(OutLines)
      /\ \A i \in 1..Len(stdout') : stdout'[i] = stdout[i + 1]
  BY DEF ReadLine
<1>2. \A l \in OutLines : stdout = <<l>> => stdout' = <<>> /\ Head(stdout) = l
  BY DEF ReadLine
<1>3. ASSUME NEW l \in OutLines, Len(stdout) = 2, stdout[2] = l PROVE stdout' = <<l>>
  <2>1. Len(stdout') = 1 /\ stdout'[1] = l
    BY <1>1, <1>3
  <2> QED BY <1>1, <2>1
<1> QED BY <1>1, <1>2, <1>3 DEF ReadLine

LEMMA PieceTaken ==
  ASSUME TypeOK, ReadLine, NEW n \in Nat \ {0}, n <= Len(stdout), Pieces(n), req' = req
  PROVE  /\ Head(stdout) = OutLine("tok", req, heard + 1)
         /\ heard' = heard + 1 => Pieces(n - 1)'
<1>1. /\ heard \in Nat /\ emitted \in Nat /\ Len(stdout) \in Nat \ {0}
      /\ Len(stdout') = Len(stdout) - 1 /\ Head(stdout) = stdout[1]
      /\ \A i \in 1..Len(stdout') : stdout'[i] = stdout[i + 1]
      /\ UNCHANGED <<stdin, job, emitted>>
  BY LineTaken, StdoutTypes
<1>2. /\ job.id = req /\ stdin = <<>> /\ heard <= emitted /\ n = emitted - heard
      /\ \A i \in 1..n : stdout[i] = OutLine("tok", req, heard + i)
  BY DEF Pieces
<1>3. Head(stdout) = OutLine("tok", req, heard + 1)
  BY <1>1, <1>2
<1>4. ASSUME heard' = heard + 1 PROVE Pieces(n - 1)'
  <2>1. heard' <= emitted' /\ n - 1 = emitted' - heard'
    BY <1>1, <1>2, <1>4
  <2>2. \A i \in 1..(n - 1) : stdout'[i] = OutLine("tok", req', heard' + i)
    <3> TAKE i \in 1..(n - 1)
    <3>1. i \in 1..Len(stdout') /\ i + 1 \in 1..n /\ heard' + i = heard + (i + 1)
      BY <1>1, <1>2, <1>4
    <3> QED BY <1>1, <1>2, <3>1
  <2> QED BY <1>1, <1>2, <2>1, <2>2 DEF Pieces
<1> QED BY <1>3, <1>4

LEMMA LastAnswer ==
  ASSUME TypeOK, Answered, ReadLine, Head(stdout).kind = "end"
  PROVE  stdout' = <<>> /\ heard = emitted
<1>0. /\ stdout \in Seq(OutLines) /\ Len(stdout) \in Nat /\ heard \in Nat /\ emitted \in Nat
      /\ req \in Nat /\ Head(stdout) = stdout[1]
  BY StdoutTypes, LineTaken
<1>1. CASE heard = emitted /\ stdout = <<OutLine("end", req, 0)>>
  BY <1>0, <1>1, LineTaken, OutLineType
<1>2. CASE /\ Len(stdout) = emitted - heard + 2 /\ Pieces(Len(stdout) - 2)
           /\ stdout[Len(stdout) - 1] \in {OutLine("blank", req, 0), OutLine("err", req, 0)}
  <2>1. CASE Len(stdout) - 2 = 0
    <3>1. Len(stdout) - 1 = 1
      BY <1>0, <2>1
    <3>2. Head(stdout) \in {OutLine("blank", req, 0), OutLine("err", req, 0)}
      BY <1>0, <1>2, <3>1
    <3> QED BY <3>2 DEF OutLine
  <2>2. CASE Len(stdout) - 2 # 0
    <3>1. Len(stdout) - 2 \in Nat \ {0} /\ 1 \in 1..(Len(stdout) - 2)
      BY <1>0, <1>2, <2>2 DEF Pieces
    <3>2. stdout[1] = OutLine("tok", req, heard + 1)
      BY <1>2, <3>1 DEF Pieces
    <3> QED BY <1>0, <3>2 DEF OutLine
  <2> QED BY <2>1, <2>2
<1> QED BY <1>1, <1>2 DEF Answered

LEMMA PieceHeard ==
  ASSUME TypeOK, ReadPiece, BeingAnswered \/ Answered
  PROVE  (BeingAnswered /\ BeingAnswered') \/ (Answered /\ Answered')
<1>0. /\ stdout \in Seq(OutLines) /\ Len(stdout) \in Nat \ {0} /\ heard \in Nat /\ emitted \in Nat
      /\ req \in Nat /\ Head(stdout) = stdout[1]
      /\ Len(stdout') = Len(stdout) - 1 /\ \A i \in 1..Len(stdout') : stdout'[i] = stdout[i + 1]
      /\ UNCHANGED <<req, srv, stdin, emitted, job>> /\ ReadLine
  BY StdoutTypes, LineTaken DEF ReadPiece
<1>1. CASE BeingAnswered
  <2>1. /\ Len(stdout) = emitted - heard /\ Pieces(Len(stdout))
        /\ srv \in {"chunk", "stream", "exited"}
    BY <1>1 DEF BeingAnswered
  <2>0. PICK n \in Nat \ {0} : n = Len(stdout)
    BY <1>0
  <2>2. /\ Head(stdout) = OutLine("tok", req, heard + 1)
        /\ heard' = heard + 1 => Pieces(n - 1)'
    <3>1. Pieces(n)
      BY <2>0, <2>1
    <3> QED BY <1>0, <2>0, <3>1, PieceTaken
  <2>3. heard' = heard + 1
    BY <2>2 DEF ReadPiece, OutLine
  <2>4. Len(stdout') = emitted' - heard'
    BY <1>0, <2>1, <2>3
  <2>5. Pieces(Len(stdout))'
    BY <1>0, <2>0, <2>2, <2>3 DEF Pieces
  <2> QED BY <1>0, <1>1, <2>1, <2>4, <2>5 DEF BeingAnswered
<1>2. CASE Answered
  <2>0. Resting \/ srv = "exited"
    BY <1>2 DEF Answered
  <2>1. CASE heard = emitted /\ stdout = <<OutLine("end", req, 0)>>
    BY <1>0, <2>1 DEF ReadPiece, OutLine
  <2>2. CASE /\ Len(stdout) = emitted - heard + 2 /\ Pieces(Len(stdout) - 2)
             /\ stdout[Len(stdout) - 1] \in {OutLine("blank", req, 0), OutLine("err", req, 0)}
             /\ stdout[Len(stdout)] = OutLine("end", req, 0)
    <3>1. CASE Len(stdout) - 2 = 0
      <4>1. Len(stdout) = 2 /\ heard = emitted
        BY <1>0, <2>2, <3>1
      <4>2. Head(stdout).kind # "tok"
        BY <1>0, <2>2, <4>1 DEF OutLine
      <4>3. heard' = emitted'
        BY <1>0, <4>1, <4>2 DEF ReadPiece
      <4>4. stdout' = <<OutLine("end", req, 0)>>
        BY <1>0, <2>2, <4>1, LineTaken, OutLineType
      <4> QED BY <1>0, <2>0, <1>2, <4>3, <4>4 DEF Answered, Resting
    <3>2. CASE Len(stdout) - 2 # 0
      <4>0. PICK n \in Nat \ {0} : n = Len(stdout) - 2 /\ n <= Len(stdout)
        BY <1>0, <2>2, <3>2 DEF Pieces
      <4>1. /\ Head(stdout) = OutLine("tok", req, heard + 1)
            /\ heard' = heard + 1 => Pieces(n - 1)'
        <5>1. Pieces(n)
          BY <2>2, <4>0
        <5> QED BY <1>0, <4>0, <5>1, PieceTaken
      <4>2. heard' = heard + 1
        BY <4>1 DEF ReadPiece, OutLine
      <4>3. n - 1 = Len(stdout') - 2
        BY <1>0, <4>0
      <4>4. Pieces(Len(stdout) - 2)'
        BY <4>1, <4>2, <4>3 DEF Pieces
      <4>5. /\ Len(stdout') = emitted' - heard' + 2
            /\ Len(stdout') - 1 \in 1..Len(stdout') /\ Len(stdout') \in 1..Len(stdout')
            /\ (Len(stdout') - 1) + 1 = Len(stdout) - 1 /\ Len(stdout') + 1 = Len(stdout)
        BY <1>0, <2>2, <4>0, <4>2
      <4>6. /\ stdout'[Len(stdout') - 1] = stdout[Len(stdout) - 1]
            /\ stdout'[Len(stdout')] = stdout[Len(stdout)]
        BY <1>0, <4>5
      <4> QED BY <1>0, <1>2, <2>0, <2>2, <4>4, <4>5, <4>6 DEF Answered, Resting
    <3> QED BY <3>1, <3>2
  <2> QED BY <1>2, <2>1, <2>2 DEF Answered
<1> QED BY <1>1, <1>2

LEMMA EndIsLast ==
  ASSUME TypeOK, InStep, ~slipped, ReadEnd
  PROVE  Answered
<1>1. phase = "read" /\ ReadLine /\ Head(stdout).kind = "end"
  BY DEF ReadEnd
<1>2. ~NotTaken
  BY <1>1 DEF NotTaken, ReadLine
<1>3. ~BeingAnswered
  <2> SUFFICES ASSUME BeingAnswered PROVE FALSE
    OBVIOUS
  <2>1. Len(stdout) \in Nat \ {0} /\ Head(stdout) = stdout[1]
    BY <1>1, LineTaken, StdoutTypes
  <2>2. stdout[1] = OutLine("tok", req, heard + 1)
    BY <2>1 DEF BeingAnswered, Pieces
  <2> QED BY <1>1, <2>1, <2>2 DEF OutLine
<1> QED BY <1>1, <1>2, <1>3 DEF InStep

LEMMA InStepStep == TypeOK /\ Owned /\ Numbered /\ InStep /\ [Next]_vars => InStep'
<1> SUFFICES ASSUME TypeOK, Owned, Numbered, InStep, [Next]_vars PROVE InStep'
  OBVIOUS
<1>0. /\ req \in Nat /\ job.id \in Nat /\ stdin \in Seq(InLines) /\ stdout \in Seq(OutLines)
      /\ want.hot \in Settings
  BY LineIds DEF TypeOK, ServerTypeOK
<1>1. CASE ServerRuns
  BY <1>1, InStepServer
<1>2. ASSUME NEW c \in Confs, NEW h \in Settings, StartReuse(c, h) PROVE InStep'
  <2>1. /\ phase = "idle" /\ phase' \in {"idle", "command"} /\ slipped' = slipped
        /\ UNCHANGED <<srv, stdin, stdout>>
    BY <1>2 DEF StartReuse, serverVars
  <2> QED BY <2>1 DEF InStep, Quiet, Resting, Alive
<1>3. ASSUME NEW c \in Confs, NEW h \in Settings, StartFresh(c, h) PROVE InStep'
  <2>1. phase' \in {"stopping", "launch"}
    BY <1>3 DEF StartFresh
  <2> QED BY <2>1 DEF InStep
<1>4. CASE StopWaited \/ StopKills
  BY <1>4 DEF StopWaited, StopKills, InStep
<1>5. CASE LaunchRefused \/ ReadyEof \/ WriteRaises \/ ReadEof
  <2>1. phase' = "idle" /\ ~Alive'
    BY <1>5 DEF LaunchRefused, ReadyEof, WriteRaises, ReadEof, Finish, AtEof, Owned, Alive, serverVars
  <2> QED BY <2>1 DEF InStep, Quiet
<1>6. CASE Popen
  BY <1>6 DEF Popen, Launch, InStep, WhileLoading
<1>7. CASE PollCommand \/ ChunkCall \/ ChunkRefused
  <2>1. /\ phase \in {"idle", "command"} /\ phase' \in {"idle", "cmdwrite", "write"}
        /\ slipped' = slipped /\ UNCHANGED <<srv, stdin, stdout>>
    BY <1>7 DEF PollCommand, ChunkCall, ChunkRefused, serverVars
  <2> QED BY <2>1 DEF InStep, Quiet, Resting, Alive
<1>8. CASE ReadReady
  <2> SUFFICES ASSUME ~slipped PROVE Quiet'
    BY <1>8 DEF ReadReady, InStep
  <2>1. OutLine("ready", 0, 0) \in OutLines
    BY OutLineType
  <2>2. ReadLine /\ srv' = srv /\ stdin' = stdin
    BY <1>8 DEF ReadReady, ReadLine
  <2>3. WhileLoading /\ stdout # <<>>
    BY <1>8 DEF ReadReady, ReadLine, InStep
  <2> QED BY <1>0, <2>1, <2>2, <2>3, LineTaken DEF WhileLoading, Quiet, Resting, Alive
<1>9. CASE WriteCommand
  <2> SUFFICES ASSUME ~slipped' PROVE WhileAcking'
    BY <1>9 DEF WriteCommand, InStep
  <2>1. /\ ~slipped /\ want.hot \notin MultiLine /\ Alive /\ phase = "cmdwrite"
        /\ req' = req + 1
    BY <1>9 DEF WriteCommand
  <2>2. FirstLine[want.hot] = want.hot
    BY <1>0, <2>1 DEF MultiLine
  <2>3. Resting /\ stdin = <<>> /\ stdout = <<>>
    BY <2>1 DEF InStep, Quiet
  <2> DEFINE k == InLine("set", req + 1, want.hot)
  <2>4. /\ k \in InLines /\ stdin' = stdin \o <<k>> /\ UNCHANGED <<srv, stdout>>
    BY <1>9, <2>1, <2>2, CommandWritten
  <2>5. stdin' = <<k>>
    BY <2>3, <2>4
  <2> QED BY <1>0, <2>1, <2>3, <2>4, <2>5 DEF WhileAcking, Resting
<1>10. CASE ReadAck
  <2> SUFFICES ASSUME ~slipped PROVE Quiet'
    BY <1>10 DEF ReadAck, InStep
  <2>1. CASE AtEof /\ UNCHANGED serverVars
    BY <2>1 DEF AtEof, Quiet, Alive, serverVars
  <2>2. CASE ReadLine
    <3>1. OutLine("ack", req, 0) \in OutLines
      BY <1>0, OutLineType
    <3>2. WhileAcking /\ stdout # <<>> /\ srv' = srv /\ stdin' = stdin
      BY <1>10, <2>2 DEF ReadAck, ReadLine, InStep
    <3> QED BY <1>0, <2>2, <3>1, <3>2, LineTaken DEF WhileAcking, Quiet, Resting, Alive
  <2> QED BY <1>10, <2>1, <2>2 DEF ReadAck
<1>11. ASSUME NEW c \in Chunks, WriteChunk(c) PROVE InStep'
  <2> SUFFICES ASSUME ~slipped PROVE NotTaken'
    BY <1>11 DEF WriteChunk, InStep
  <2>1. /\ phase = "write" /\ Alive /\ stdin' = stdin \o <<InLine("chunk", req, c)>>
        /\ UNCHANGED <<srv, stdout, job, req, heard>>
    BY <1>11 DEF WriteChunk, Write
  <2>2. Resting /\ stdin = <<>> /\ stdout = <<>>
    BY <2>1 DEF InStep, Quiet
  <2>3. job.id < req /\ heard = 0
    BY <2>1 DEF Numbered, Owned
  <2>4. InLine("chunk", req, c) \in InLines
    BY <1>0, InLineType
  <2>5. stdin' = <<InLine("chunk", req, c)>>
    BY <2>1, <2>2, <2>4
  <2> QED BY <2>1, <2>2, <2>3, <2>5 DEF NotTaken, Resting
<1>12. CASE ReadEnd
  <2> SUFFICES ASSUME ~slipped PROVE Quiet'
    BY <1>12 DEF ReadEnd, Finish, InStep
  <2>1. phase = "read" /\ ReadLine /\ Head(stdout).kind = "end" /\ srv' = srv /\ stdin' = stdin
    BY <1>12 DEF ReadEnd, ReadLine
  <2>2. Answered
    BY <1>12, EndIsLast
  <2>3. stdout' = <<>>
    BY <2>1, <2>2, LastAnswer
  <2> QED BY <2>1, <2>2, <2>3 DEF Answered, Quiet, Resting, Alive
<1>13. CASE ReadError
  BY <1>13 DEF ReadError, InStep
<1>14. CASE ReadPiece
  <2> SUFFICES ASSUME ~slipped PROVE (BeingAnswered \/ Answered)'
    BY <1>14 DEF ReadPiece, InStep
  <2>1. BeingAnswered \/ Answered
    BY <1>14 DEF ReadPiece, ReadLine, InStep, NotTaken
  <2> QED BY <1>14, <2>1, PieceHeard
<1>15. CASE UNCHANGED vars
  BY <1>15 DEF vars, clientVars, serverVars, InStep, Quiet, WhileLoading, WhileAcking, NotTaken,
               BeingAnswered, Answered, Pieces, Resting, Alive
<1> QED BY <1>1, <1>2, <1>3, <1>4, <1>5, <1>6, <1>7, <1>8, <1>9, <1>10, <1>11, <1>12, <1>13,
           <1>14, <1>15 DEF Next, ClientStep, NewCall

LEMMA SyncInit == Init => Owned /\ Numbered /\ InStep
<1> SUFFICES ASSUME Init PROVE Owned /\ Numbered /\ InStep
  OBVIOUS
<1>1. Owned
  BY DEF Init, Owned, Alive, InCall
<1>2. Numbered
  <2>1. stdin = <<>> /\ job.id = 0 /\ req = 0 /\ phase = "idle"
    BY DEF Init, NoJob
  <2> QED BY <2>1 DEF Numbered
<1>3. InStep
  BY DEF Init, InStep, Quiet, Alive
<1> QED BY <1>1, <1>2, <1>3

LEMMA InStepIsInSync == TypeOK /\ InStep => InSync
<1> SUFFICES ASSUME TypeOK, InStep, ~slipped PROVE OwnReply /\ AckIsOwn
  BY DEF InSync
<1>0. /\ stdout \in Seq(OutLines) /\ Len(stdout) \in Nat /\ heard \in Nat /\ emitted \in Nat
      /\ req \in Nat
  BY StdoutTypes
<1>1. AckIsOwn
  <2> SUFFICES ASSUME phase = "acking", stdout # <<>> PROVE Head(stdout) = OutLine("ack", req, 0)
    BY DEF AckIsOwn
  <2>1. stdout = <<OutLine("ack", req, 0)>>
    BY DEF InStep, WhileAcking
  <2> QED BY <2>1
<1>2. OwnReply
  <2> SUFFICES ASSUME phase = "read", stdout # <<>> PROVE Head(stdout).id = req
    BY DEF OwnReply
  <2>1. Head(stdout) = stdout[1] /\ Len(stdout) \in Nat \ {0}
    BY <1>0
  <2>2. BeingAnswered \/ Answered
    BY DEF InStep, NotTaken
  <2>3. CASE BeingAnswered
    <3>1. stdout[1] = OutLine("tok", req, heard + 1)
      BY <2>1, <2>3 DEF BeingAnswered, Pieces
    <3> QED BY <2>1, <3>1 DEF OutLine
  <2>4. CASE stdout = <<OutLine("end", req, 0)>>
    BY <2>4 DEF OutLine
  <2>5. CASE /\ Len(stdout) = emitted - heard + 2 /\ Pieces(Len(stdout) - 2)
             /\ stdout[Len(stdout) - 1] \in {OutLine("blank", req, 0), OutLine("err", req, 0)}
    <3>1. CASE Len(stdout) = 2
      <4>0. Len(stdout) - 1 = 1
        BY <3>1
      <4>1. stdout[1] \in {OutLine("blank", req, 0), OutLine("err", req, 0)}
        BY <2>5, <4>0
      <4> QED BY <2>1, <4>1 DEF OutLine
    <3>2. CASE Len(stdout) # 2
      <4>1. 1 \in 1..(Len(stdout) - 2)
        BY <1>0, <2>5, <3>2 DEF Pieces
      <4>2. stdout[1] = OutLine("tok", req, heard + 1)
        BY <2>5, <4>1 DEF Pieces
      <4> QED BY <2>1, <4>2 DEF OutLine
    <3> QED BY <3>1, <3>2
  <2> QED BY <2>2, <2>3, <2>4, <2>5 DEF Answered
<1> QED BY <1>1, <1>2

(***************************************************************************)
(* Until the client takes an error line for a whole answer or sends a      *)
(* command of two lines, every line it reads as the answer to a chunk or   *)
(* to a command was printed for it, whatever dies, is killed or restarts   *)
(* (readline loops of gradio_asr_demo.py:87-157).                          *)
(***************************************************************************)
THEOREM AlwaysInSync == Spec => []InSync
<1>1. Init => TypeOK /\ Owned /\ Numbered /\ InStep
  BY TypeInit, SyncInit
<1>2. TypeOK /\ Owned /\ Numbered /\ InStep /\ [Next]_vars
        => TypeOK' /\ Owned' /\ Numbered' /\ InStep'
  BY TypeStep, OwnedStep, NumberedStep, InStepStep
<1>3. TypeOK /\ InStep => InSync
  BY InStepIsInSync
<1> QED BY <1>1, <1>2, <1>3, PTL DEF Spec

(***************************************************************************)
(* Commands reach the server in order, so the last one asked for counts.   *)
(***************************************************************************)
LEMMA ServerSetting ==
  ASSUME Steps
  PROVE  \/ stdin' = stdin /\ setting' = setting
         \/ Takes /\ Head(stdin).kind = "set" /\ setting' = Head(stdin).arg
         \/ Takes /\ Head(stdin).kind # "set" /\ setting' = setting
<1>1. CASE HandleSetting
  BY <1>1 DEF HandleSetting, Gets, Takes
<1>2. CASE SkipBlank \/ HandleExit \/ BeginChunk
  BY <1>2 DEF SkipBlank, HandleExit, BeginChunk, Gets, Takes
<1>3. CASE LoadModels \/ LoadFails \/ Crash \/ HandleEof \/ Shutdown \/ LogTiming
  BY <1>3 DEF LoadModels, LoadFails, Crash, HandleEof, Shutdown, LogTiming
<1>4. CASE FailChunk \/ BuildPrompt \/ StreamToken \/ EndChunk
  BY <1>4 DEF FailChunk, BuildPrompt, StreamToken, EndChunk
<1> QED BY <1>1, <1>2, <1>3, <1>4 DEF Steps, ServerStep

LEMMA LastCommandTaken ==
  ASSUME stdin \in Seq(InLines), NEW h, LastCommandIs(h), Takes,
         \/ Head(stdin).kind = "set" /\ setting' = Head(stdin).arg
         \/ Head(stdin).kind # "set" /\ setting' = setting
  PROVE  LastCommandIs(h)'
<1>1. /\ Len(stdin) \in Nat \ {0} /\ Len(stdin') = Len(stdin) - 1 /\ Head(stdin) = stdin[1]
      /\ \A i \in 1..Len(stdin') : stdin'[i] = stdin[i + 1]
      /\ DOMAIN stdin = 1..Len(stdin) /\ DOMAIN stdin' = 1..Len(stdin')
  BY TailShape
<1>2. ASSUME NEW i \in DOMAIN stdin', stdin'[i].kind = "set",
             \A k \in (i + 1)..Len(stdin') : stdin'[k].kind # "set"
      PROVE  stdin'[i].arg = h
  <2>1. i + 1 \in DOMAIN stdin /\ stdin'[i] = stdin[i + 1]
    BY <1>1, <1>2
  <2>2. \A k \in ((i + 1) + 1)..Len(stdin) : stdin[k].kind # "set"
    <3> TAKE k \in ((i + 1) + 1)..Len(stdin)
    <3>1. k - 1 \in (i + 1)..Len(stdin') /\ k - 1 \in 1..Len(stdin') /\ (k - 1) + 1 = k
      BY <1>1, <1>2
    <3> QED BY <1>1, <1>2, <3>1
  <2> QED BY <1>2, <2>1, <2>2 DEF LastCommandIs
<1>3. ASSUME NoCommand' PROVE setting' = h
  <2>1. \A k \in 2..Len(stdin) : stdin[k].kind # "set"
    <3> TAKE k \in 2..Len(stdin)
    <3>1. k - 1 \in 1..Len(stdin') /\ (k - 1) + 1 = k
      BY <1>1
    <3> QED BY <1>1, <1>3, <3>1 DEF NoCommand
  <2>2. CASE Head(stdin).kind = "set"
    <3>1. 1 \in DOMAIN stdin /\ \A k \in (1 + 1)..Len(stdin) : stdin[k].kind # "set"
      BY <1>1, <2>1
    <3> QED BY <1>1, <2>2, <3>1 DEF LastCommandIs
  <2>3. CASE Head(stdin).kind # "set"
    <3>1. \A k \in 1..Len(stdin) : k = 1 \/ k \in 2..Len(stdin)
      BY <1>1
    <3>2. NoCommand
      BY <1>1, <2>1, <2>3, <3>1 DEF NoCommand
    <3> QED BY <2>3, <3>2 DEF LastCommandIs
  <2> QED BY <2>2, <2>3
<1> QED BY <1>2, <1>3 DEF LastCommandIs

LEMMA LastCommandAdded ==
  ASSUME stdin \in Seq(InLines), NEW h, NEW l \in InLines, stdin' = stdin \o <<l>>,
         setting' = setting,
         (l.kind = "set" /\ l.arg = h) \/ (l.kind # "set" /\ LastCommandIs(h))
  PROVE  LastCommandIs(h)'
<1>1. /\ Len(stdin) \in Nat /\ Len(stdin') = Len(stdin) + 1
      /\ DOMAIN stdin = 1..Len(stdin) /\ DOMAIN stdin' = 1..(Len(stdin) + 1)
      /\ \A i \in 1..Len(stdin) : stdin'[i] = stdin[i]
      /\ stdin'[Len(stdin) + 1] = l
  BY WriteOne
<1>2. ASSUME NEW i \in DOMAIN stdin', stdin'[i].kind = "set",
             \A k \in (i + 1)..Len(stdin') : stdin'[k].kind # "set"
      PROVE  stdin'[i].arg = h
  <2>1. CASE i = Len(stdin) + 1
    BY <1>1, <1>2, <2>1
  <2>2. CASE i \in 1..Len(stdin)
    <3>1. Len(stdin) + 1 \in (i + 1)..Len(stdin')
      BY <1>1, <2>2
    <3>2. l.kind # "set"
      BY <1>1, <1>2, <3>1
    <3>3. \A k \in (i + 1)..Len(stdin) : stdin[k].kind # "set"
      <4> TAKE k \in (i + 1)..Len(stdin)
      <4>1. k \in (i + 1)..Len(stdin') /\ k \in 1..Len(stdin)
        BY <1>1, <2>2
      <4> QED BY <1>1, <1>2, <4>1
    <3> QED BY <1>1, <1>2, <2>2, <3>2, <3>3 DEF LastCommandIs
  <2> QED BY <1>1, <1>2, <2>1, <2>2
<1>3. ASSUME NoCommand' PROVE setting' = h
  <2>1. l.kind # "set"
    BY <1>1, <1>3 DEF NoCommand
  <2>2. NoCommand
    BY <1>1, <1>3 DEF NoCommand
  <2> QED BY <2>1, <2>2 DEF LastCommandIs
<1> QED BY <1>2, <1>3 DEF LastCommandIs

LEMMA HotwordsStep == TypeOK /\ Owned /\ HotwordsArrive /\ [Next]_vars => HotwordsArrive'
<1> SUFFICES ASSUME TypeOK, Owned, HotwordsArrive, [Next]_vars, Asked'
             PROVE  LastCommandIs(want.hot)'
  BY DEF HotwordsArrive
<1>0. /\ req \in Nat /\ stdin \in Seq(InLines) /\ want.hot \in Settings
  BY LineIds DEF TypeOK, ServerTypeOK
<1>00. PICK h : h = want.hot
  OBVIOUS
<1>01. ASSUME Asked, UNCHANGED <<stdin, setting, want>> PROVE LastCommandIs(want.hot)'
  BY <1>01 DEF HotwordsArrive, LastCommandIs, NoCommand
<1>1. CASE ServerRuns
  <2>1. UNCHANGED clientVars /\ Alive /\ Steps
    BY <1>1, ServerInput DEF ServerRuns, Steps
  <2>2. Asked /\ want' = want
    BY <2>1 DEF Asked, clientVars
  <2>3. LastCommandIs(h)
    BY <1>00, <2>2 DEF HotwordsArrive
  <2>4. CASE stdin' = stdin /\ setting' = setting
    BY <1>01, <2>2, <2>4
  <2>5. CASE /\ Takes
             /\ \/ Head(stdin).kind = "set" /\ setting' = Head(stdin).arg
                \/ Head(stdin).kind # "set" /\ setting' = setting
    <3>1. LastCommandIs(h)'
      BY <1>0, <2>3, <2>5, LastCommandTaken
    <3> QED BY <1>00, <2>2, <3>1 DEF LastCommandIs
  <2> QED BY <2>1, <2>4, <2>5, ServerSetting
<1>2. ASSUME NEW c \in Confs, NEW g \in Settings, StartReuse(c, g) PROVE LastCommandIs(want.hot)'
  BY <1>2 DEF StartReuse, Asked
<1>3. ASSUME NEW c \in Confs, NEW g \in Settings, StartFresh(c, g) PROVE LastCommandIs(want.hot)'
  BY <1>3 DEF StartFresh, Asked
<1>4. CASE StopWaited \/ StopKills
  BY <1>4 DEF StopWaited, StopKills, Asked
<1>5. CASE LaunchRefused
  BY <1>5 DEF LaunchRefused, Asked
<1>6. CASE ReadyEof \/ WriteRaises \/ ReadEof
  BY <1>6 DEF ReadyEof, WriteRaises, ReadEof, Finish, AtEof, Asked, Alive, serverVars
<1>7. CASE PollCommand
  <2>1. phase' \in {"idle", "cmdwrite"} /\ (phase' = "idle" => ~Alive') /\ UNCHANGED srv
    BY <1>7 DEF PollCommand, Running, Owned, Alive, serverVars
  <2> QED BY <2>1 DEF Asked
<1>8. CASE Popen
  BY <1>8 DEF Popen, Launch, LastCommandIs
<1>9. CASE ReadReady \/ ReadEnd \/ ReadError \/ ReadPiece
  <2>1. /\ Asked /\ UNCHANGED <<stdin, setting, want>>
    BY <1>9 DEF ReadReady, ReadEnd, ReadError, ReadPiece, Finish, ReadLine, Asked, Alive
  <2> QED BY <1>01, <2>1
<1>10. CASE ReadAck
  <2>1. /\ Asked /\ UNCHANGED <<stdin, setting, want>>
    BY <1>10 DEF ReadAck, ReadLine, Asked, Alive, serverVars
  <2> QED BY <1>01, <2>1
<1>11. CASE WriteCommand
  <2>1. want' = want /\ want.hot \notin MultiLine
    BY <1>11 DEF WriteCommand, Asked
  <2>2. FirstLine[want.hot] = want.hot
    BY <1>0, <2>1 DEF MultiLine
  <2>3. /\ InLine("set", req + 1, want.hot) \in InLines
        /\ stdin' = stdin \o <<InLine("set", req + 1, want.hot)>> /\ setting' = setting
    BY <1>11, <2>1, <2>2, CommandWritten
  <2>4. PICK l \in InLines : l = InLine("set", req + 1, want.hot)
    BY <2>3
  <2>5. l.kind = "set" /\ l.arg = h
    BY <1>00, <2>4 DEF InLine
  <2>6. LastCommandIs(h)'
    BY <1>0, <2>3, <2>4, <2>5, LastCommandAdded
  <2> QED BY <1>00, <2>1, <2>6 DEF LastCommandIs
<1>12. ASSUME NEW c \in Chunks, WriteChunk(c) PROVE LastCommandIs(want.hot)'
  <2>1. /\ Asked /\ want' = want /\ setting' = setting
        /\ stdin' = stdin \o <<InLine("chunk", req, c)>>
    BY <1>12 DEF WriteChunk, Write, Asked, Alive
  <2>2. InLine("chunk", req, c) \in InLines /\ InLine("chunk", req, c).kind # "set"
    <3>1. InLine("chunk", req, c) \in InLines
      BY <1>0, InLineType
    <3> QED BY <3>1 DEF InLine
  <2>3. PICK l \in InLines : l = InLine("chunk", req, c)
    BY <2>2
  <2>4. LastCommandIs(h)
    BY <1>00, <2>1 DEF HotwordsArrive
  <2>5. LastCommandIs(h)'
    BY <1>0, <2>1, <2>2, <2>3, <2>4, LastCommandAdded
  <2> QED BY <1>00, <2>1, <2>5 DEF LastCommandIs
<1>13. CASE ChunkRefused \/ ChunkCall \/ UNCHANGED vars
  <2>1. Asked /\ UNCHANGED <<stdin, setting, want>>
    BY <1>13 DEF ChunkRefused, ChunkCall, vars, clientVars, serverVars, Asked, Alive
  <2> QED BY <1>01, <2>1
<1> QED BY <1>1, <1>2, <1>3, <1>4, <1>5, <1>6, <1>7, <1>8, <1>9, <1>10, <1>11, <1>12, <1>13
        DEF Next, ClientStep, NewCall

LEMMA HotwordsInit == Init => HotwordsArrive
BY DEF Init, HotwordsArrive, Asked, Alive

LEMMA ArrivedInForce == TypeOK /\ Numbered /\ HotwordsArrive => OneLineHotwordsInForce
<1> SUFFICES ASSUME TypeOK, Numbered, HotwordsArrive, want.hot \notin MultiLine,
                    srv \in {"chunk", "stream"}, phase = "read", job.id = req,
                    want.hot # NoHotwords
             PROVE  setting = want.hot
  BY DEF OneLineHotwordsInForce, HotwordsInForce
<1>1. Asked
  BY DEF Asked, Alive
<1>2. stdin = <<>>
  BY LineIds DEF Numbered
<1>3. NoCommand
  BY <1>2 DEF NoCommand
<1> QED BY <1>1, <1>3 DEF HotwordsArrive, LastCommandIs

(***************************************************************************)
(* A chunk of a session with hotwords of one line is transcribed with      *)
(* them, by a process launched with other hotwords or with none and reused *)
(* as by one launched for the session (start and _send_command,            *)
(* gradio_asr_demo.py:47-120; the CONTEXT: command of asr_server.cpp).     *)
(***************************************************************************)
THEOREM HotwordsAlwaysArrive == Spec => []OneLineHotwordsInForce
<1>1. Init => TypeOK /\ Owned /\ Numbered /\ HotwordsArrive
  BY TypeInit, SyncInit, HotwordsInit
<1>2. TypeOK /\ Owned /\ Numbered /\ HotwordsArrive /\ [Next]_vars
        => TypeOK' /\ Owned' /\ Numbered' /\ HotwordsArrive'
  BY TypeStep, OwnedStep, NumberedStep, HotwordsStep
<1>3. TypeOK /\ Numbered /\ HotwordsArrive => OneLineHotwordsInForce
  BY ArrivedInForce
<1> QED BY <1>1, <1>2, <1>3, PTL DEF Spec

(***************************************************************************)
(* The client and the server as a ChunkService.                            *)
(***************************************************************************)
Counted == InCall => req # 0

Views ==
  /\ ~InCall => Call = 0 /\ Spoken = 0 /\ Closed = FALSE
  /\ phase = "write" => Call = req /\ Spoken = 0 /\ Closed = FALSE
  /\ phase = "read" => Call = req
  /\ phase = "read" /\ BeingAnswered => Spoken = emitted /\ Closed = FALSE
  /\ phase = "read" /\ Answered => Spoken = emitted /\ Closed = TRUE

LEMMA CountedStep == TypeOK /\ Counted /\ [Next]_vars => Counted'
<1> SUFFICES ASSUME TypeOK, Counted, [Next]_vars PROVE Counted'
  OBVIOUS
<1>0. req \in Nat
  BY DEF TypeOK
<1>1. CASE ServerRuns
  BY <1>1 DEF ServerRuns, clientVars, Counted, InCall
<1>2. ASSUME NEW c \in Confs, NEW h \in Settings, StartReuse(c, h) \/ StartFresh(c, h) PROVE Counted'
  BY <1>2 DEF StartReuse, StartFresh, Counted, InCall
<1>3. CASE StopWaited \/ StopKills \/ LaunchRefused \/ Popen \/ ReadReady \/ ReadyEof \/ PollCommand
  BY <1>3 DEF StopWaited, StopKills, LaunchRefused, Popen, ReadReady, ReadyEof, PollCommand,
              Counted, InCall
<1>4. CASE WriteCommand \/ ReadAck \/ WriteRaises \/ ReadEnd \/ ReadError \/ ReadEof
  BY <1>4 DEF WriteCommand, ReadAck, WriteRaises, ReadEnd, ReadError, ReadEof, Finish,
              Counted, InCall
<1>5. ASSUME NEW c \in Chunks, WriteChunk(c) PROVE Counted'
  BY <1>5 DEF WriteChunk, Counted, InCall
<1>6. CASE ReadPiece
  BY <1>6 DEF ReadPiece, Counted, InCall
<1>7. CASE ChunkCall
  BY <1>0, <1>7 DEF ChunkCall, Counted, InCall
<1>8. CASE ChunkRefused \/ UNCHANGED vars
  BY <1>8 DEF ChunkRefused, vars, clientVars, Counted, InCall
<1> QED BY <1>1, <1>2, <1>3, <1>4, <1>5, <1>6, <1>7, <1>8 DEF Next, ClientStep, NewCall

LEMMA ViewsHold == TypeOK => Views
<1> SUFFICES ASSUME TypeOK PROVE Views
  OBVIOUS
<1>0. /\ stdout \in Seq(OutLines) /\ Len(stdout) \in Nat /\ DOMAIN stdout = 1..Len(stdout)
      /\ heard \in Nat /\ emitted \in Nat /\ req \in Nat
  BY StdoutTypes
<1>1. ~InCall => Call = 0 /\ Spoken = 0 /\ Closed = FALSE
  BY DEF InCall, Answering, Call, Spoken, Closed
<1>2. phase = "write" => Call = req /\ Spoken = 0 /\ Closed = FALSE
  BY DEF InCall, Answering, Call, Spoken, Closed
<1>3. phase = "read" => Call = req
  BY DEF InCall, Call
<1>4. ASSUME phase = "read", BeingAnswered PROVE Spoken = emitted /\ Closed = FALSE
  <2>1. \A i \in DOMAIN stdout : stdout[i] = OutLine("tok", req, heard + i)
    BY <1>0, <1>4 DEF BeingAnswered, Pieces
  <2>2. ~ \E i \in DOMAIN stdout : stdout[i].id = req /\ stdout[i].kind = "end"
    BY <2>1 DEF OutLine
  <2>3. Answering
    BY <1>4 DEF BeingAnswered, Pieces, Answering
  <2> QED BY <2>2, <2>3 DEF Spoken, Closed
<1>5. ASSUME phase = "read", Answered PROVE Spoken = emitted /\ Closed = TRUE
  <2>1. Len(stdout) \in DOMAIN stdout /\ stdout[Len(stdout)] = OutLine("end", req, 0)
    <3>1. CASE stdout = <<OutLine("end", req, 0)>>
      BY <3>1
    <3>2. CASE /\ Len(stdout) = emitted - heard + 2 /\ Pieces(Len(stdout) - 2)
               /\ stdout[Len(stdout)] = OutLine("end", req, 0)
      BY <1>0, <3>2 DEF Pieces
    <3> QED BY <1>5, <3>1, <3>2 DEF Answered
  <2>2. stdout[Len(stdout)].id = req /\ stdout[Len(stdout)].kind = "end"
    BY <2>1 DEF OutLine
  <2>3. Answering
    BY <1>5 DEF Answered, Answering
  <2> QED BY <1>5, <2>1, <2>2, <2>3 DEF Spoken, Closed
<1> QED BY <1>1, <1>2, <1>3, <1>4, <1>5 DEF Views

\* What the caller sees.
Seen == <<Call, Spoken, Closed, heard, outcome>>

SyncInv == TypeOK /\ Owned /\ Numbered /\ InStep /\ Counted /\ Views

LEMMA ServiceServer ==
  ASSUME SyncInv, SyncInv', ~slipped, ServerRuns
  PROVE  UNCHANGED Seen \/ Service!Speak \/ Service!Close
<1> USE DEF SyncInv
<1>0. /\ UNCHANGED <<phase, req, heard, outcome, slipped>> /\ Alive /\ ~eof /\ Steps
      /\ emitted \in Nat /\ req \in Nat /\ job.id \in Nat
  BY ServerInput, StdoutTypes DEF clientVars, Owned, ServerRuns, Steps
<1>1. CASE phase # "read"
  <2>1. UNCHANGED <<Call, Spoken, Closed>>
    BY <1>0, <1>1 DEF Views, InCall
  <2> QED BY <1>0, <2>1 DEF Seen
<1>2. CASE phase = "read"
  <2>0. (NotTaken \/ BeingAnswered \/ Answered) /\ Call' = Call
    BY <1>0, <1>2 DEF InStep, Views
  <2>1. CASE NotTaken
    <3>0. /\ Resting /\ job.id < req /\ stdout = <<>>
          /\ \E c \in Chunks : stdin = <<InLine("chunk", req, c)>>
      BY <1>0, <2>1 DEF NotTaken, Alive
    <3>1. PICK c \in Chunks : stdin = <<InLine("chunk", req, c)>>
      BY <3>0
    <3>2. PICK l \in InLines : l = InLine("chunk", req, c)
      BY <1>0, InLineType
    <3>3. stdin = <<l>> /\ l.kind = "chunk"
      BY <3>1, <3>2 DEF InLine
    <3>4. stdout' = stdout /\ (job' = job \/ emitted' = 0)
      BY <1>0, <3>0, <3>3, AtRestWithLine
    <3>5. Closed = FALSE /\ Closed' = FALSE
      BY <3>0, <3>4 DEF Closed
    <3>6. Spoken = 0 /\ Spoken' = 0
      BY <1>0, <3>0, <3>4 DEF Spoken, Answering
    <3> QED BY <1>0, <2>0, <3>5, <3>6 DEF Seen
  <2>2. CASE BeingAnswered
    <3>0. /\ srv \in {"chunk", "stream", "exited"} /\ (BeingAnswered' \/ Answered')
          /\ Spoken = emitted /\ Closed = FALSE /\ Call # 0
      BY <1>0, <1>2, <2>2, AnsweringStep DEF BeingAnswered, Views, Counted, InCall
    <3>1. CASE srv' \in {"stream", "exited"} /\ UNCHANGED <<stdin, stdout, setting, job, emitted>>
      <4>1. BeingAnswered'
        BY <1>0, <2>2, <3>1 DEF BeingAnswered, Pieces
      <4>2. Spoken' = Spoken /\ Closed' = Closed
        BY <1>0, <1>2, <3>0, <3>1, <4>1 DEF Views
      <4> QED BY <1>0, <2>0, <4>2 DEF Seen
    <3>2. CASE /\ srv' = "stream" /\ emitted < MaxPieces /\ emitted' = emitted + 1
      <4>1. BeingAnswered'
        BY <3>0, <3>2 DEF Answered, Resting
      <4>2. Spoken' = Spoken + 1 /\ Closed' = Closed
        BY <1>0, <1>2, <3>0, <3>2, <4>1 DEF Views
      <4> QED BY <1>0, <2>0, <3>0, <3>2, <4>2 DEF Service!Speak
    <3>3. CASE srv' \in {"loop", "timing"} /\ emitted' = emitted
      <4>1. Answered'
        BY <3>0, <3>3 DEF BeingAnswered
      <4>2. Spoken' = Spoken /\ Closed' = TRUE
        BY <1>0, <1>2, <3>0, <3>3, <4>1 DEF Views
      <4> QED BY <1>0, <2>0, <3>0, <4>2 DEF Service!Close
    <3> QED BY <1>0, <3>0, <3>1, <3>2, <3>3, InChunk
  <2>3. CASE Answered
    <3>1. Resting /\ stdin = <<>>
      BY <1>0, <2>3 DEF Answered, Alive
    <3>2. srv' \in {"loop", "exited"} /\ UNCHANGED <<stdin, stdout, setting, job, emitted>>
      BY <1>0, <3>1, AtRest
    <3>3. Answered'
      BY <1>0, <2>3, <3>2 DEF Answered, Pieces, Resting
    <3>4. Spoken' = Spoken /\ Closed' = Closed
      BY <1>0, <1>2, <2>3, <3>2, <3>3 DEF Views
    <3> QED BY <1>0, <2>0, <3>4 DEF Seen
  <2> QED BY <2>0, <2>1, <2>2, <2>3
<1> QED BY <1>1, <1>2

LEMMA ServiceStep ==
  SyncInv /\ SyncInv' /\ ~slipped /\ ~slipped' /\ [Next]_vars => [Service!Next]_(Service!vars)
<1> SUFFICES ASSUME SyncInv, SyncInv', ~slipped, ~slipped', [Next]_vars
             PROVE  Service!Next \/ UNCHANGED Seen
  BY DEF Service!vars, Seen
<1> USE DEF SyncInv
<1>0. req \in Nat /\ job.id \in Nat /\ heard \in Nat /\ emitted \in Nat
  BY StdoutTypes
<1>1. CASE ServerRuns
  BY <1>1, ServiceServer DEF Service!Next
<1>2. ASSUME ~InCall, ~InCall', UNCHANGED <<heard, outcome>> PROVE UNCHANGED Seen
  BY <1>2 DEF Views, Seen
<1>3. ASSUME NEW c \in Confs, NEW h \in Settings, StartReuse(c, h) \/ StartFresh(c, h)
      PROVE  UNCHANGED Seen
  BY <1>2, <1>3 DEF StartReuse, StartFresh, InCall
<1>4. CASE StopWaited \/ StopKills \/ LaunchRefused \/ Popen \/ ReadReady \/ ReadyEof
  BY <1>2, <1>4 DEF StopWaited, StopKills, LaunchRefused, Popen, ReadReady, ReadyEof, InCall
<1>5. CASE PollCommand \/ WriteCommand \/ ReadAck
  BY <1>2, <1>5 DEF PollCommand, WriteCommand, ReadAck, InCall
<1>6. ASSUME NEW c \in Chunks, WriteChunk(c) PROVE UNCHANGED Seen
  <2>1. /\ phase = "write" /\ phase' = "read" /\ Alive
        /\ UNCHANGED <<stdout, job, emitted, req, heard, outcome>>
    BY <1>6 DEF WriteChunk, Write
  <2>2. stdout = <<>> /\ job.id < req
    BY <2>1 DEF InStep, Quiet, Numbered
  <2>3. Closed' = FALSE /\ Spoken' = 0
    BY <1>0, <2>1, <2>2 DEF Closed, Spoken, Answering
  <2> QED BY <2>1, <2>3 DEF Views, Seen
<1>7. CASE WriteRaises
  <2>1. CASE phase = "write"
    <3>1. Call = req /\ req # 0 /\ Call' = 0 /\ Spoken' = 0 /\ Closed' = FALSE
      BY <1>7, <2>1 DEF WriteRaises, Views, Counted, InCall
    <3>2. outcome' = "raised" /\ heard' = 0
      BY <1>7, <2>1 DEF WriteRaises
    <3> QED BY <3>1, <3>2 DEF Service!Next, Service!End
  <2>2. CASE phase = "cmdwrite"
    BY <1>2, <1>7, <2>2 DEF WriteRaises, InCall, Owned
  <2> QED BY <1>7, <2>1, <2>2 DEF WriteRaises
<1>8. CASE ReadEnd
  <2>1. Answered /\ heard = emitted
    BY <1>8, EndIsLast, LastAnswer DEF ReadEnd
  <2>2. /\ phase = "read" /\ phase' = "idle" /\ outcome' = "complete" /\ heard' = 0
    BY <1>8 DEF ReadEnd, Finish
  <2>3. Closed = TRUE /\ Spoken = heard /\ Call # 0
    BY <2>1, <2>2 DEF Views, Counted, InCall
  <2>4. Call' = 0 /\ Spoken' = 0 /\ Closed' = FALSE
    BY <2>2 DEF Views, InCall
  <2>5. Service!End("complete")
    BY <2>2, <2>3, <2>4 DEF Service!End
  <2> QED BY <2>5 DEF Service!Next
<1>9. CASE ReadError
  BY <1>9 DEF ReadError
<1>10. CASE ReadPiece
  <2>0. /\ phase = "read" /\ UNCHANGED <<phase, req, job, emitted, outcome, srv, stdin>>
        /\ heard' \in {heard, heard + 1}
    BY <1>10 DEF ReadPiece, ReadLine
  <2>1. BeingAnswered \/ Answered
    BY <1>10, <2>0 DEF ReadPiece, ReadLine, InStep, NotTaken
  <2>2. (BeingAnswered /\ BeingAnswered') \/ (Answered /\ Answered')
    BY <1>10, <2>1, PieceHeard
  <2>3. UNCHANGED <<Call, Spoken, Closed>> /\ Call # 0 /\ Spoken = emitted
    BY <2>0, <2>2 DEF Views, Counted, InCall
  <2>4. heard' <= emitted
    <3>1. BeingAnswered' => heard' <= emitted'
      BY DEF BeingAnswered, Pieces
    <3>2. Answered' => heard' <= emitted' \/ heard' = emitted'
      BY DEF Answered, Pieces
    <3> QED BY <1>0, <2>0, <2>2, <3>1, <3>2
  <2>5. CASE heard' = heard
    BY <2>0, <2>3, <2>5 DEF Seen
  <2>6. CASE heard' = heard + 1
    BY <1>0, <2>0, <2>3, <2>4, <2>6 DEF Service!Next, Service!Hear
  <2> QED BY <2>0, <2>5, <2>6
<1>11. CASE ReadEof
  <2>1. phase = "read" /\ phase' = "idle" /\ outcome' = "cut" /\ heard' = 0
    BY <1>11 DEF ReadEof, Finish
  <2>2. Call # 0 /\ Call' = 0 /\ Spoken' = 0 /\ Closed' = FALSE
    BY <2>1 DEF Views, Counted, InCall
  <2>3. Service!End("cut")
    BY <2>1, <2>2 DEF Service!End
  <2> QED BY <2>3 DEF Service!Next
<1>12. CASE ChunkRefused
  <2>1. ~InCall /\ ~InCall' /\ heard' = heard /\ outcome' = "down"
    BY <1>12 DEF ChunkRefused, InCall
  <2>2. Call = 0 /\ UNCHANGED <<Call, Spoken, Closed>>
    BY <2>1 DEF Views
  <2> QED BY <2>1, <2>2 DEF Service!Next, Service!Refuse
<1>13. CASE ChunkCall
  <2>1. ~InCall /\ phase' = "write" /\ req' = req + 1 /\ heard' = 0 /\ outcome' = "none"
    BY <1>13 DEF ChunkCall, InCall
  <2>2. Call = 0 /\ Spoken = 0 /\ Closed = FALSE /\ heard = 0
    BY <2>1 DEF Views, Owned
  <2>3. Call' = req + 1 /\ Spoken' = 0 /\ Closed' = FALSE
    BY <2>1 DEF Views
  <2>4. Call' \in Nat \ {0}
    BY <1>0, <2>3
  <2> QED BY <2>1, <2>2, <2>3, <2>4 DEF Service!Next, Service!Begin
<1>14. CASE UNCHANGED vars
  BY <1>14 DEF vars, clientVars, serverVars, Seen, Call, Spoken, Closed, InCall, Answering
<1> QED BY <1>1, <1>3, <1>4, <1>5, <1>6, <1>7, <1>8, <1>9, <1>10, <1>11, <1>12, <1>13, <1>14
        DEF Next, ClientStep, NewCall

LEMMA ServiceInit == Init => Service!Init /\ Counted
BY DEF Init, Service!Init, Call, Spoken, Closed, InCall, Answering, Counted

(***************************************************************************)
(* As long as nothing slips, the client and the server are a ChunkService: *)
(* a call hears every piece the server speaks about its chunk, once and in *)
(* order, and is complete only when all were heard.                        *)
(***************************************************************************)
THEOREM ServedUnlessSlipped == Spec /\ []~slipped => ServiceSpec
<1>1. Init => TypeOK /\ Owned /\ Numbered /\ InStep /\ Counted /\ Service!Init
  BY TypeInit, SyncInit, ServiceInit
<1>2. TypeOK /\ Owned /\ Numbered /\ InStep /\ Counted /\ [Next]_vars
        => TypeOK' /\ Owned' /\ Numbered' /\ InStep' /\ Counted'
  BY TypeStep, OwnedStep, NumberedStep, InStepStep, CountedStep
<1>3. TypeOK /\ Owned /\ Numbered /\ InStep /\ Counted => SyncInv
  BY ViewsHold DEF SyncInv
<1> QED BY <1>1, <1>2, <1>3, ServiceStep, PTL DEF Spec, ServiceSpec, Service!Spec
=============================================================================
