---------------------------- MODULE ChunkService ----------------------------
(***************************************************************************)
(* What a caller of ASRServerProcess.process_chunk_streaming               *)
(* (src/demo/gradio_asr_demo.py) is entitled to: one call at a time; a     *)
(* call hears the pieces the recogniser speaks about that very chunk, in   *)
(* order and without gaps; and it ends as complete only after the          *)
(* recogniser has finished the chunk and every piece was heard.            *)
(***************************************************************************)
EXTENDS Naturals

CONSTANT MaxPieces

VARIABLES
  call,     \* the request being answered, 0 for none
  spoken,   \* pieces the recogniser has produced for it
  closed,   \* the recogniser has finished it
  heard,    \* pieces delivered to the caller
  outcome   \* how the last call ended

vars == <<call, spoken, closed, heard, outcome>>

Init ==
  /\ call = 0 /\ spoken = 0 /\ closed = FALSE /\ heard = 0
  /\ outcome = "none"

Begin ==
  /\ call = 0
  /\ call' \in Nat \ {0}
  /\ outcome' = "none"
  /\ UNCHANGED <<spoken, closed, heard>>

\* The service is not there.
Refuse ==
  /\ call = 0 /\ outcome' = "down"
  /\ UNCHANGED <<call, spoken, closed, heard>>

Speak ==
  /\ call # 0 /\ ~closed /\ spoken < MaxPieces
  /\ spoken' = spoken + 1
  /\ UNCHANGED <<call, closed, heard, outcome>>

Close ==
  /\ call # 0 /\ ~closed /\ closed' = TRUE
  /\ UNCHANGED <<call, spoken, heard, outcome>>

Hear ==
  /\ call # 0 /\ heard < spoken
  /\ heard' = heard + 1
  /\ UNCHANGED <<call, spoken, closed, outcome>>

\* "cut" and "raised": the process behind the service died on the way.
End(how) ==
  /\ call # 0
  /\ how = "complete" => closed /\ heard = spoken
  /\ outcome' = how
  /\ call' = 0 /\ spoken' = 0 /\ closed' = FALSE /\ heard' = 0

Next ==
  \/ Begin \/ Refuse \/ Speak \/ Close \/ Hear
  \/ \E how \in {"complete", "error", "cut", "raised"} : End(how)

Spec == Init /\ [][Next]_vars
==============================================================================
