------------------------------ MODULE MCMp3Stream ------------------------------
(***************************************************************************)
(* load_mp3 on files with windows of 15 to 20 bytes and frames of 2 to 4,  *)
(* 3 samples in each.                                                      *)
(***************************************************************************)
EXTENDS Mp3Stream, TLC

Frame(bytes, main, begin, use) ==
  [kind |-> "frame", size |-> bytes, main |-> main, begin |-> begin, use |-> use, bad |-> FALSE]
Xing(bytes, delay, padding, count) ==
  [kind |-> "xing", delay |-> delay, padding |-> padding, count |-> count] @@ Frame(bytes, 1, 0, 0)
Other(kind, bytes) == [kind |-> kind, size |-> bytes]
Bad(f) == [f EXCEPT !.bad = TRUE]

\* Frames on their own; a reservoir that grows, shrinks and overflows.
Flat(n) == [i \in 1..n |-> Frame(3, 1, 0, 1)]
Vbr == <<Frame(4, 3, 0, 1), Frame(4, 3, 2, 2), Frame(3, 2, 3, 5), Frame(4, 2, 0, 1), Frame(2, 1, 1, 1),
         Frame(4, 3, 1, 0), Frame(4, 3, 3, 4), Frame(3, 2, 2, 2), Frame(4, 3, 2, 5), Frame(3, 1, 0, 1)>>
Audio ==
  {Flat(1), Flat(9), Vbr, Tail(Vbr), Tail(Tail(Vbr)), Flat(3) \o <<Other("junk", 3)>> \o Flat(4),
   Vbr \o <<Other("junk", 2)>>, <<Other("junk", 4)>> \o Vbr, <<Other("junk", 4)>>,
   Flat(2) \o <<Other("junk", 1)>> \o Flat(1) \o <<Other("junk", 1)>> \o Flat(6),
   [Vbr EXCEPT ![4] = Bad(@)], [Vbr EXCEPT ![9] = Bad(@)]}
EndTags == {<<>>, <<Other("id3v1", 6)>>, <<Other("ape", 5), Other("id3v1", 6)>>}
XingTags == {<<Xing(3, 1, 1, 9)>>, <<Xing(4, 4, 2, 10)>>, <<Xing(4, 0, 0, None)>>}

Laid(items) ==
  LET from[k \in 1..Len(items)] == IF k = 1 THEN 0 ELSE from[k - 1] + items[k - 1].size
  IN  [k \in DOMAIN items |-> [at |-> from[k]] @@ items[k]]
Mp3Files ==
  [items : {Laid(v2 \o audio \o tags) : v2 \in {<<>>, <<Other("id3v2", 5)>>}, audio \in Audio, tags \in EndTags}
             \cup {Laid(xing \o audio) : xing \in XingTags, audio \in Audio},
   channels : {1, 2}]
TaggedFiles ==
  [items : {Laid(xing \o Flat(n) \o tags) : xing \in XingTags, n \in {1, 9}, tags \in EndTags}, channels : {1}]

\* The files of the run server are those the proofs are about; those of
\* tags_read have a Xing tag and tags at the end.
ASSUME FilesAreAsMeant == Streams = Mp3Files => Mp3Assumption
================================================================================
