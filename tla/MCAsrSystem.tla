---------------------------- MODULE MCAsrSystem ----------------------------
(***************************************************************************)
(* Small instances of AsrSystem: two chunks, one of which may be unusable; *)
(* an empty, a one-line and (where the cfg allows it) a two-line hotword   *)
(* text; two configurations, so that a session reuses or replaces the      *)
(* process of the last one.                                                *)
(***************************************************************************)
EXTENDS AsrSystem
CONSTANTS good, bad, empty, word, list, small, large

TwoChunks == {good, bad}
OnlyBad   == {bad}
OneLine   == {empty, word}
WithList  == {empty, word, list}
IdentityLine == [h \in Settings |-> h]
ListFirstLine == [h \in Settings |-> IF h = list THEN word ELSE h]
TwoConfs == {small, large}
=============================================================================
