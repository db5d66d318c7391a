----------------------------- MODULE Server_proofs -----------------------------
(***************************************************************************)
(* Proofs about the server.  AsrPipeline: for any number of lines, chunks, *)
(* settings and any capacity of the log pipe, answers come in order and    *)
(* closed, and a chunk has the settings of the last command written before *)
(* it.  Frames and ChunkDecode: the features of a chunk of any length fit  *)
(* the buffer sized for them, for any seven strides, and the KV cache      *)
(* never holds anything of an earlier chunk.                               *)
(***************************************************************************)
EXTENDS AsrPipeline, ChunkDecode, FiniteSetTheorems, TLAPS

(***************************************************************************)
(* The output as a sequence of answers.                                    *)
(***************************************************************************)
Ordered(s) ==
  \A j \in DOMAIN s : \A i \in 1..(j - 1) :
    /\ s[i].id <= s[j].id
    /\ s[i].kind \in Terminators => s[i].id < s[j].id

\* Nothing was printed for a line after the k-th; the k-th is not closed yet.
UpTo(s, k) == \A j \in DOMAIN s : s[j].id <= k
Open(s, k) == \A j \in DOMAIN s : s[j].kind \in Terminators => s[j].id < k

LEMMA OneLineMore ==
  ASSUME NEW s \in Seq(OutLines), NEW k \in Nat, NEW e \in OutLines, e.id = k,
         Ordered(s), UpTo(s, k), Open(s, k)
  PROVE  /\ Append(s, e) \in Seq(OutLines)
         /\ Ordered(Append(s, e)) /\ UpTo(Append(s, e), k)
         /\ e.kind \notin Terminators => Open(Append(s, e), k)
<1>1. /\ Append(s, e) \in Seq(OutLines) /\ Len(Append(s, e)) = Len(s) + 1 /\ Len(s) \in Nat
      /\ \A j \in 1..Len(s) : Append(s, e)[j] = s[j]
      /\ Append(s, e)[Len(s) + 1] = e
      /\ DOMAIN s = 1..Len(s) /\ DOMAIN Append(s, e) = 1..(Len(s) + 1)
  OBVIOUS
<1>2. Ordered(Append(s, e))
  <2> SUFFICES ASSUME NEW j \in 1..(Len(s) + 1), NEW i \in 1..(j - 1)
               PROVE  /\ Append(s, e)[i].id <= Append(s, e)[j].id
                      /\ Append(s, e)[i].kind \in Terminators
                           => Append(s, e)[i].id < Append(s, e)[j].id
    BY <1>1 DEF Ordered
  <2>1. i \in 1..Len(s) /\ Append(s, e)[i] = s[i]
    BY <1>1
  <2>2. CASE j \in 1..Len(s)
    BY <1>1, <2>1, <2>2 DEF Ordered
  <2>3. CASE j = Len(s) + 1
    BY <1>1, <2>1, <2>3 DEF UpTo, Open
  <2> QED BY <1>1, <2>2, <2>3
<1>3. UpTo(Append(s, e), k)
  <2> SUFFICES ASSUME NEW j \in 1..(Len(s) + 1) PROVE Append(s, e)[j].id <= k
    BY <1>1 DEF UpTo
  <2>1. CASE j \in 1..Len(s)
    BY <1>1, <2>1 DEF UpTo
  <2>2. CASE j = Len(s) + 1
    BY <1>1, <2>2
  <2> QED BY <1>1, <2>1, <2>2
<1>4. ASSUME e.kind \notin Terminators PROVE Open(Append(s, e), k)
  <2> SUFFICES ASSUME NEW j \in 1..(Len(s) + 1), Append(s, e)[j].kind \in Terminators
               PROVE  Append(s, e)[j].id < k
    BY <1>1 DEF Open
  <2>1. j \in 1..Len(s)
    BY <1>1, <1>4
  <2> QED BY <1>1, <2>1 DEF Open
<1> QED BY <1>1, <1>2, <1>3, <1>4

LEMMA PutOne ==
  ASSUME stdout \in Seq(OutLines), NEW a \in OutLines, Put(<<a>>)
  PROVE  stdout' = Append(stdout, a)
BY DEF Put

LEMMA PutTwo ==
  ASSUME stdout \in Seq(OutLines), NEW a \in OutLines, NEW b \in OutLines, Put(<<a, b>>)
  PROVE  stdout' = Append(Append(stdout, a), b)
BY DEF Put

(***************************************************************************)
(* Where the settings come from, without a choice of the last command.     *)
(***************************************************************************)
Sets(k) == {j \in 1..(k - 1) : script[j].kind = "set"}

SetBefore(k, v) ==
  \/ Sets(k) = {} /\ v = FirstSetting
  \/ \E j \in Sets(k) : (\A i \in Sets(k) : i <= j) /\ v = script[j].arg

LEMMA SetBeforeIsLast ==
  ASSUME NEW k \in Nat, NEW v, SetBefore(k, v)
  PROVE  v = LastSetting(k)
<1>1. LastSetting(k) = IF Sets(k) = {} THEN FirstSetting
                       ELSE script[CHOOSE j \in Sets(k) : \A i \in Sets(k) : i <= j].arg
  BY DEF LastSetting, Sets
<1>2. CASE Sets(k) = {}
  BY <1>1, <1>2 DEF SetBefore
<1>3. CASE Sets(k) # {}
  <2>1. PICK j \in Sets(k) : (\A i \in Sets(k) : i <= j) /\ v = script[j].arg
    BY <1>3 DEF SetBefore
  <2>2. \A m \in Sets(k) : (\A i \in Sets(k) : i <= m) => m = j
    <3>1. Sets(k) \subseteq Int
      BY DEF Sets
    <3> QED BY <2>1, <3>1
  <2>3. (CHOOSE m \in Sets(k) : \A i \in Sets(k) : i <= m) = j
    BY <2>1, <2>2
  <2> QED BY <1>1, <1>3, <2>1, <2>3
<1> QED BY <1>2, <1>3

(***************************************************************************)
(* The invariant.  What waits in stdin is the end of the script; answers   *)
(* are of lines taken from it; the chunk being answered is the last line   *)
(* taken and its answer is open.                                           *)
(***************************************************************************)
Taken == Len(script) - Len(stdin)

Types ==
  /\ stdin \in Seq(InLines) /\ script \in Seq(InLines) /\ stdout \in Seq(OutLines)
  /\ emitted \in Nat

Waiting ==
  /\ Len(stdin) <= Len(script)
  /\ \A i \in 1..Len(stdin) : stdin[i] = script[Taken + i]
  /\ \A k \in 1..Len(script) : script[k].id = k

Answering ==
  /\ srv = "loading" => stdout = <<>>
  /\ srv \in {"chunk", "stream"} =>
       /\ Taken >= 1 /\ job = script[Taken] /\ job.kind = "chunk"
       /\ Open(stdout, Taken)

Settled == SetBefore(Taken + 1, setting)

PipeInv ==
  Types /\ Waiting /\ Ordered(stdout) /\ UpTo(stdout, Taken) /\ Answering /\ Settled

LEMMA TakenType == Types /\ Waiting => Taken \in Nat /\ Len(stdin) \in Nat /\ Len(script) \in Nat
BY DEF Types, Waiting, Taken

LEMMA OutLineType ==
  ASSUME NEW kind \in {"ready", "ack", "err", "tok", "blank", "end"}, NEW id \in Nat, NEW n \in Nat
  PROVE  /\ OutLine(kind, id, n) \in OutLines
         /\ OutLine(kind, id, n).id = id /\ OutLine(kind, id, n).kind = kind
BY DEF OutLine, OutLines

\* The line at the head of stdin is the next one of the script.
LEMMA NextLine ==
  ASSUME Types, Waiting, stdin # <<>>, stdin' = Tail(stdin), script' = script
  PROVE  /\ Taken' = Taken + 1 /\ Taken' <= Len(script) /\ Taken \in Nat
         /\ Head(stdin) = script[Taken + 1] /\ Head(stdin).id = Taken + 1
         /\ Head(stdin) \in InLines
         /\ Waiting' /\ stdin' \in Seq(InLines)
<1>1. Taken \in Nat /\ Len(stdin) \in Nat /\ Len(script) \in Nat
  BY TakenType
<1>2. /\ Len(stdin) >= 1 /\ Len(stdin') = Len(stdin) - 1 /\ stdin' \in Seq(InLines)
      /\ Head(stdin) = stdin[1] /\ Head(stdin) \in InLines
      /\ \A i \in 1..Len(stdin') : stdin'[i] = stdin[i + 1]
  BY <1>1 DEF Types
<1>3. Taken' = Taken + 1 /\ Taken' <= Len(script)
  BY <1>1, <1>2 DEF Taken
<1>4. Head(stdin) = script[Taken + 1] /\ Head(stdin).id = Taken + 1
  <2>1. Taken + 1 \in 1..Len(script)
    BY <1>1, <1>3
  <2>2. stdin[1] = script[Taken + 1]
    BY <1>1, <1>2 DEF Waiting
  <2> QED BY <1>2, <2>1, <2>2 DEF Waiting
<1>5. Waiting'
  <2>1. Len(stdin') <= Len(script')
    BY <1>1, <1>2 DEF Waiting
  <2>2. \A i \in 1..Len(stdin') : stdin'[i] = script'[Taken' + i]
    <3> TAKE i \in 1..Len(stdin')
    <3>1. i + 1 \in 1..Len(stdin) /\ stdin'[i] = stdin[i + 1] /\ Taken' + i = Taken + (i + 1)
      BY <1>1, <1>2, <1>3
    <3>2. stdin[i + 1] = script[Taken + (i + 1)]
      BY <3>1 DEF Waiting
    <3> QED BY <3>1, <3>2
  <2>3. \A k \in 1..Len(script') : script'[k].id = k
    BY DEF Waiting
  <2> QED BY <2>1, <2>2, <2>3 DEF Waiting
<1> QED BY <1>1, <1>2, <1>3, <1>4, <1>5

\* A line that is no command leaves the last command the last; a command becomes it.
LEMMA NextSetting ==
  ASSUME NEW k \in Nat \ {0}, NEW v, NEW w, SetBefore(k, v),
         IF script[k].kind = "set" THEN w = script[k].arg ELSE w = v
  PROVE  SetBefore(k + 1, w)
<1>1. CASE script[k].kind = "set"
  <2>1. k \in Sets(k + 1) /\ \A i \in Sets(k + 1) : i <= k
    BY <1>1 DEF Sets
  <2> QED BY <1>1, <2>1 DEF SetBefore
<1>2. CASE script[k].kind # "set"
  <2>1. Sets(k + 1) = Sets(k)
    BY <1>2 DEF Sets
  <2>2. w = v
    BY <1>2
  <2> QED BY <2>1, <2>2 DEF SetBefore
<1> QED BY <1>1, <1>2

\* Lines written later do not change what was the last command.
LEMMA LaterLines ==
  ASSUME NEW n \in Nat, \A j \in 1..n : script'[j] = script[j],
         SetBefore(n + 1, setting), setting' = setting
  PROVE  SetBefore(n + 1, setting)'
<1>1. \A j \in 1..((n + 1) - 1) : script'[j] = script[j]
  OBVIOUS
<1>2. Sets(n + 1)' = Sets(n + 1)
  BY <1>1 DEF Sets
<1>3. \A j \in Sets(n + 1) : script'[j] = script[j]
  BY <1>1 DEF Sets
<1> QED BY <1>2, <1>3 DEF SetBefore

LEMMA OpenLater ==
  ASSUME stdout \in Seq(OutLines), NEW k \in Nat, UpTo(stdout, k)
  PROVE  UpTo(stdout, k + 1) /\ Open(stdout, k + 1)
<1>1. \A j \in DOMAIN stdout : stdout[j] \in OutLines
  OBVIOUS
<1>2. \A j \in DOMAIN stdout : stdout[j].id \in Nat
  BY <1>1 DEF OutLines
<1> QED BY <1>2 DEF UpTo, Open

\* A step that touches neither lines nor settings.
LEMMA QuietStep ==
  ASSUME PipeInv, UNCHANGED <<stdin, stdout, setting, script, emitted>>,
         \/ srv' \notin {"loading", "chunk", "stream"}
         \/ srv' = srv /\ job' = job
         \/ srv = "chunk" /\ srv' = "stream" /\ job' = job
  PROVE  PipeInv'
<1>1. Taken' = Taken /\ Types' /\ Waiting'
  BY DEF PipeInv, Types, Waiting, Taken
<1>2. Ordered(stdout)' /\ UpTo(stdout, Taken)'
  BY <1>1 DEF PipeInv, Ordered, UpTo
<1>3. Answering'
  BY <1>1 DEF PipeInv, Answering, Open
<1>4. Settled'
  BY <1>1 DEF PipeInv, Settled, SetBefore, Sets
<1> QED BY <1>1, <1>2, <1>3, <1>4 DEF PipeInv

LEMMA FeedStep == PipeInv /\ Feed => PipeInv'
<1> SUFFICES ASSUME PipeInv, Feed PROVE PipeInv'
  OBVIOUS
<1>1. Taken \in Nat /\ Len(stdin) \in Nat /\ Len(script) \in Nat /\ Types /\ Waiting
  BY TakenType DEF PipeInv
<1>2. PICK l : /\ l \in InLines /\ l.id = Len(script) + 1
               /\ stdin' = Append(stdin, l) /\ script' = Append(script, l)
  <2>1. PICK l \in {InLine("chunk", Len(script) + 1, c) : c \in Chunks}
                     \cup {InLine("set", Len(script) + 1, s) : s \in Settings}
                     \cup {InLine(k, Len(script) + 1, "none") : k \in {"exit", "blank"}} :
              stdin' = Append(stdin, l) /\ script' = Append(script, l)
    BY DEF Feed
  <2>2. l \in InLines /\ l.id = Len(script) + 1
    BY <1>1, <2>1 DEF InLine, InLines
  <2> QED BY <2>1, <2>2
<1>3. UNCHANGED <<srv, stdout, setting, job, emitted>>
  BY DEF Feed
<1>4. /\ Len(stdin') = Len(stdin) + 1 /\ Len(script') = Len(script) + 1
      /\ \A i \in 1..Len(stdin) : stdin'[i] = stdin[i]
      /\ \A i \in 1..Len(script) : script'[i] = script[i]
      /\ stdin'[Len(stdin) + 1] = l /\ script'[Len(script) + 1] = l
  BY <1>1, <1>2 DEF Types
<1>5. Types'
  BY <1>1, <1>2, <1>3 DEF Types
<1>6. Taken' = Taken
  BY <1>1, <1>4 DEF Taken
<1>7. Waiting'
  <2>1. \A i \in 1..Len(stdin') : stdin'[i] = script'[Taken' + i]
    <3> TAKE i \in 1..Len(stdin')
    <3>1. CASE i \in 1..Len(stdin)
      <4>1. Taken + i \in 1..Len(script)
        BY <1>1, <3>1 DEF Taken
      <4> QED BY <1>1, <1>4, <1>6, <3>1, <4>1 DEF Waiting
    <3>2. CASE i = Len(stdin) + 1
      <4>1. Taken + i = Len(script) + 1
        BY <1>1, <3>2 DEF Taken
      <4> QED BY <1>4, <1>6, <3>2, <4>1
    <3> QED BY <1>1, <1>4, <3>1, <3>2
  <2>2. \A k \in 1..Len(script') : script'[k].id = k
    <3> TAKE k \in 1..Len(script')
    <3>1. CASE k \in 1..Len(script)
      BY <1>1, <1>4, <3>1 DEF Waiting
    <3>2. CASE k = Len(script) + 1
      BY <1>2, <1>4, <3>2
    <3> QED BY <1>1, <1>4, <3>1, <3>2
  <2>3. Len(stdin') <= Len(script')
    BY <1>1, <1>4 DEF Waiting
  <2> QED BY <2>1, <2>2, <2>3 DEF Waiting
<1>8. Ordered(stdout)' /\ UpTo(stdout, Taken)'
  BY <1>3, <1>6 DEF PipeInv, Ordered, UpTo
<1>9. Taken \in 1..Len(script) \/ Taken = 0
  BY <1>1 DEF Taken
<1>10. Answering'
  BY <1>1, <1>3, <1>4, <1>6, <1>9 DEF PipeInv, Answering, Open
<1>11. Settled'
  <2>1. PICK n \in Nat : n = Taken
    BY <1>1
  <2>2. SetBefore(n + 1, setting)
    BY <2>1 DEF PipeInv, Settled
  <2>3. \A j \in 1..n : script'[j] = script[j]
    BY <1>1, <1>4, <1>9, <2>1
  <2>4. SetBefore(n + 1, setting)'
    BY <1>3, <2>2, <2>3, LaterLines
  <2> QED BY <1>6, <2>1, <2>4 DEF Settled
<1> QED BY <1>5, <1>7, <1>8, <1>10, <1>11 DEF PipeInv

\* A line of the answer to the current chunk, after which it is still open.
LEMMA OutputStep ==
  ASSUME PipeInv, NEW a \in OutLines, a.id = Taken, Open(stdout, Taken),
         stdout' = Append(stdout, a), a.kind \notin Terminators,
         UNCHANGED <<stdin, setting, script>>
  PROVE  /\ Ordered(stdout') /\ UpTo(stdout', Taken') /\ Open(stdout', Taken')
         /\ stdout' \in Seq(OutLines) /\ Taken' = Taken /\ Waiting' /\ Settled'
<1>1. Taken \in Nat /\ stdout \in Seq(OutLines)
  BY TakenType DEF PipeInv, Types
<1>2. Taken' = Taken /\ Waiting' /\ Settled'
  BY DEF PipeInv, Taken, Waiting, Settled, SetBefore, Sets
<1> QED BY <1>1, <1>2, OneLineMore DEF PipeInv

\* The last two lines of an answer, printed together.
LEMMA CloseStep ==
  ASSUME PipeInv, srv \in {"chunk", "stream"}, NEW kind \in {"err", "blank"},
         Put(<<OutLine(kind, job.id, 0), OutLine("end", job.id, 0)>>),
         srv' \in {"loop", "timing"},
         UNCHANGED <<stdin, setting, script, emitted>>
  PROVE  PipeInv'
<1>1. /\ Taken \in Nat /\ stdout \in Seq(OutLines) /\ Open(stdout, Taken) /\ Taken \in 1..Len(script)
      /\ job = script[Taken]
  BY TakenType DEF PipeInv, Types, Answering, Taken
<1>2. job.id = Taken
  BY <1>1 DEF PipeInv, Waiting
<1> DEFINE a == OutLine(kind, Taken, 0)
           b == OutLine("end", Taken, 0)
<1>3. /\ a \in OutLines /\ a.id = Taken /\ a.kind \notin Terminators
      /\ b \in OutLines /\ b.id = Taken
  BY <1>1, OutLineType DEF Terminators
<1>4. stdout' = Append(Append(stdout, a), b)
  BY <1>1, <1>2, <1>3, PutTwo
<1>5. /\ Append(stdout, a) \in Seq(OutLines) /\ Ordered(Append(stdout, a))
      /\ UpTo(Append(stdout, a), Taken) /\ Open(Append(stdout, a), Taken)
  BY <1>1, <1>3, OneLineMore DEF PipeInv
<1>6. /\ stdout' \in Seq(OutLines) /\ Ordered(stdout') /\ UpTo(stdout', Taken)
  BY <1>1, <1>3, <1>4, <1>5, OneLineMore
<1>7. Taken' = Taken /\ Waiting' /\ Settled'
  BY DEF PipeInv, Taken, Waiting, Settled, SetBefore, Sets
<1>8. Types'
  BY <1>6 DEF PipeInv, Types
<1> QED BY <1>6, <1>7, <1>8 DEF PipeInv, Answering

\* A step that takes the next line and prints at most its acknowledgement.
LEMMA TakeStep ==
  ASSUME PipeInv, srv = "loop", stdin # <<>>, stdin' = Tail(stdin), script' = script,
         emitted' \in Nat,
         setting' = IF Head(stdin).kind = "set" THEN Head(stdin).arg ELSE setting,
         \/ stdout' = stdout
         \/ Put(<<OutLine("ack", Head(stdin).id, 0)>>) /\ srv' = "loop",
         \/ srv' \in {"loop", "closing"}
         \/ srv' = "chunk" /\ job' = Head(stdin) /\ Head(stdin).kind = "chunk"
  PROVE  PipeInv'
<1>1. Types /\ Waiting /\ Taken \in Nat /\ stdout \in Seq(OutLines)
  BY TakenType DEF PipeInv, Types
<1>2. /\ Taken' = Taken + 1 /\ Taken' <= Len(script) /\ Taken \in Nat
      /\ Head(stdin) = script[Taken + 1] /\ Head(stdin).id = Taken + 1
      /\ Waiting' /\ stdin' \in Seq(InLines)
  BY <1>1, NextLine
<1>3. Ordered(stdout) /\ UpTo(stdout, Taken + 1) /\ Open(stdout, Taken + 1)
  BY <1>1, OpenLater DEF PipeInv
<1>4. /\ stdout' \in Seq(OutLines) /\ Ordered(stdout') /\ UpTo(stdout', Taken')
      /\ srv' = "chunk" => Open(stdout', Taken')
  <2>1. CASE stdout' = stdout
    BY <1>1, <1>2, <1>3, <2>1
  <2>2. CASE Put(<<OutLine("ack", Head(stdin).id, 0)>>) /\ srv' = "loop"
    <3> DEFINE a == OutLine("ack", Taken + 1, 0)
    <3>1. Taken + 1 \in Nat /\ a \in OutLines /\ a.id = Taken + 1
      BY <1>1, OutLineType
    <3>2. stdout' = Append(stdout, a)
      BY <1>1, <1>2, <2>2, <3>1, PutOne
    <3> QED BY <1>1, <1>2, <1>3, <2>2, <3>1, <3>2, OneLineMore
  <2> QED BY <2>1, <2>2
<1>5. Settled'
  <2>1. Taken + 1 \in Nat \ {0} /\ SetBefore(Taken + 1, setting)
    BY <1>1 DEF PipeInv, Settled
  <2>2. IF script[Taken + 1].kind = "set" THEN setting' = script[Taken + 1].arg
                                          ELSE setting' = setting
    BY <1>2
  <2>3. SetBefore(Taken + 1 + 1, setting')
    BY <2>1, <2>2, NextSetting
  <2>4. Settled' <=> SetBefore(Taken' + 1, setting')
    BY DEF Settled, SetBefore, Sets
  <2> QED BY <1>2, <2>3, <2>4
<1>6. Types'
  BY <1>1, <1>2, <1>4 DEF Types
<1>7. Answering'
  BY <1>1, <1>2, <1>4 DEF Answering, Open
<1> QED BY <1>2, <1>4, <1>5, <1>6, <1>7 DEF PipeInv

LEMMA ServerStepKeeps ==
  ASSUME PipeInv, ServerStep \/ LoadFails \/ Crash, UNCHANGED script
  PROVE  PipeInv'
<1>1. CASE LoadModels
  <2> DEFINE a == OutLine("ready", 0, 0)
  <2>1. /\ srv = "loading" /\ srv' = "loop" /\ Put(<<a>>)
        /\ UNCHANGED <<stdin, setting, emitted>>
    BY <1>1 DEF LoadModels
  <2>2. /\ a \in OutLines /\ stdout = <<>> /\ stdout \in Seq(OutLines) /\ a.id = 0
        /\ Taken \in Nat
    BY <2>1, OutLineType, TakenType DEF PipeInv, Answering, Types
  <2>3. stdout' = <<a>>
    BY <2>1, <2>2 DEF Put
  <2>4. Ordered(stdout') /\ UpTo(stdout', Taken) /\ stdout' \in Seq(OutLines)
    BY <2>2, <2>3 DEF Ordered, UpTo
  <2>5. Taken' = Taken /\ Waiting' /\ Settled'
    BY <2>1 DEF PipeInv, Taken, Waiting, Settled, SetBefore, Sets
  <2> QED BY <2>1, <2>4, <2>5 DEF PipeInv, Types, Answering
<1>2. CASE SkipBlank
  <2>1. /\ srv = "loop" /\ stdin # <<>> /\ stdin' = Tail(stdin) /\ Head(stdin).kind # "set"
        /\ srv' = srv /\ stdout' = stdout /\ setting' = setting /\ emitted' = emitted
    BY <1>2 DEF SkipBlank, Gets
  <2> QED BY <2>1, TakeStep DEF PipeInv, Types
<1>3. CASE HandleSetting
  <2>1. /\ srv = "loop" /\ stdin # <<>> /\ stdin' = Tail(stdin) /\ Head(stdin).kind = "set"
        /\ srv' = srv /\ Put(<<OutLine("ack", Head(stdin).id, 0)>>)
        /\ setting' = Head(stdin).arg /\ emitted' = emitted
    BY <1>3 DEF HandleSetting, Gets
  <2> QED BY <2>1, TakeStep DEF PipeInv, Types
<1>4. CASE HandleExit
  <2>1. /\ srv = "loop" /\ stdin # <<>> /\ stdin' = Tail(stdin) /\ Head(stdin).kind # "set"
        /\ srv' = "closing" /\ stdout' = stdout /\ setting' = setting /\ emitted' = emitted
    BY <1>4 DEF HandleExit, Gets
  <2> QED BY <2>1, TakeStep DEF PipeInv, Types
<1>5. CASE BeginChunk
  <2>1. /\ srv = "loop" /\ stdin # <<>> /\ stdin' = Tail(stdin) /\ Head(stdin).kind = "chunk"
        /\ srv' = "chunk" /\ job' = Head(stdin)
        /\ stdout' = stdout /\ setting' = setting /\ emitted' \in Nat
    BY <1>5 DEF BeginChunk, Gets
  <2> QED BY <2>1, TakeStep
<1>6. CASE FailChunk
  <2>1. /\ srv \in {"chunk", "stream"} /\ srv' = "loop"
        /\ Put(<<OutLine("err", job.id, 0), OutLine("end", job.id, 0)>>)
        /\ UNCHANGED <<stdin, setting, emitted>>
    BY <1>6 DEF FailChunk
  <2> QED BY <2>1, CloseStep
<1>7. CASE EndChunk
  <2>1. /\ srv \in {"chunk", "stream"} /\ srv' = "timing"
        /\ Put(<<OutLine("blank", job.id, 0), OutLine("end", job.id, 0)>>)
        /\ UNCHANGED <<stdin, setting, emitted>>
    BY <1>7 DEF EndChunk
  <2> QED BY <2>1, CloseStep
<1>8. CASE StreamToken
  <2>1. /\ srv = "stream" /\ emitted' = emitted + 1 /\ emitted \in Nat
        /\ Put(<<OutLine("tok", job.id, emitted + 1)>>)
        /\ UNCHANGED <<srv, stdin, setting, job>>
    BY <1>8 DEF StreamToken, PipeInv, Types
  <2>2. /\ Taken \in Nat /\ Taken \in 1..Len(script) /\ job = script[Taken]
        /\ Open(stdout, Taken) /\ job.kind = "chunk" /\ stdout \in Seq(OutLines)
    BY <2>1, TakenType DEF PipeInv, Types, Answering, Taken
  <2>3. job.id = Taken
    BY <2>2 DEF PipeInv, Waiting
  <2> DEFINE a == OutLine("tok", Taken, emitted + 1)
  <2>4. a \in OutLines /\ a.id = Taken /\ a.kind \notin Terminators
    <3>1. emitted + 1 \in Nat
      BY <2>1
    <3>2. a = [kind |-> "tok", id |-> Taken, n |-> emitted + 1]
      BY DEF OutLine
    <3>3. a \in OutLines
      BY <2>2, <3>1, <3>2 DEF OutLines
    <3>4. a.id = Taken /\ a.kind = "tok"
      BY <3>2
    <3> QED BY <3>3, <3>4 DEF Terminators
  <2>5. stdout' = Append(stdout, a)
    BY <2>1, <2>2, <2>3, <2>4, PutOne
  <2>6. /\ Ordered(stdout') /\ UpTo(stdout', Taken') /\ Open(stdout', Taken')
        /\ stdout' \in Seq(OutLines) /\ Taken' = Taken /\ Waiting' /\ Settled'
    BY <2>1, <2>2, <2>4, <2>5, OutputStep
  <2>7. Types'
    BY <2>1, <2>6 DEF PipeInv, Types
  <2>8. Answering'
    BY <2>1, <2>2, <2>6 DEF Answering, Open
  <2> QED BY <2>6, <2>7, <2>8 DEF PipeInv
<1>9. CASE HandleEof \/ LogTiming \/ Shutdown \/ LoadFails \/ Crash \/ BuildPrompt
  <2>1. /\ UNCHANGED <<stdin, stdout, setting, script, emitted>>
        /\ \/ srv' \notin {"loading", "chunk", "stream"}
           \/ srv = "chunk" /\ srv' = "stream" /\ job' = job
    BY <1>9 DEF HandleEof, LogTiming, Shutdown, LoadFails, Crash, BuildPrompt
  <2> QED BY <2>1, QuietStep
<1> QED BY <1>1, <1>2, <1>3, <1>4, <1>5, <1>6, <1>7, <1>8, <1>9 DEF ServerStep

LEMMA PipeStep == PipeInv /\ [PipelineNext]_pipelineVars => PipeInv'
<1> SUFFICES ASSUME PipeInv, [PipelineNext]_pipelineVars PROVE PipeInv'
  OBVIOUS
<1>1. CASE (ServerStep \/ LoadFails \/ Crash) /\ UNCHANGED script
  BY <1>1, ServerStepKeeps
<1>2. CASE Feed
  BY <1>2, FeedStep
<1>3. CASE CloseStdin \/ DrainStderr \/ UNCHANGED pipelineVars
  <2>1. UNCHANGED <<srv, stdin, stdout, setting, job, emitted, script>>
    BY <1>3 DEF CloseStdin, DrainStderr, pipelineVars, serverVars
  <2> QED BY <2>1, QuietStep
<1> QED BY <1>1, <1>2, <1>3 DEF PipelineNext

LEMMA PipeInit == PipelineInit => PipeInv
<1> SUFFICES ASSUME PipelineInit PROVE PipeInv
  OBVIOUS
<1>1. /\ srv = "loading" /\ stdin = <<>> /\ stdout = <<>> /\ script = <<>>
      /\ setting = FirstSetting /\ emitted = 0
  BY DEF PipelineInit
<1>2. Types /\ Waiting /\ Taken = 0
  BY <1>1 DEF Types, Waiting, Taken
<1>3. Ordered(stdout) /\ UpTo(stdout, Taken) /\ Answering
  BY <1>1 DEF Ordered, UpTo, Answering
<1>4. Settled
  <2>1. Sets(Taken + 1) = {}
    BY <1>2 DEF Sets
  <2> QED BY <1>1, <2>1 DEF Settled, SetBefore
<1> QED BY <1>2, <1>3, <1>4 DEF PipeInv

(***************************************************************************)
(* However the driver writes ahead and wherever the process fails or dies, *)
(* the answers printed follow the lines, and none goes on after its        *)
(* terminator (main loop and every return of process_chunk).               *)
(***************************************************************************)
THEOREM AnswersAlwaysInOrder == PipelineSpec => []AnswersInOrder
<1>1. PipeInv => AnswersInOrder
  BY DEF PipeInv, Ordered, AnswersInOrder
<1> QED BY <1>1, PipeInit, PipeStep, PTL DEF PipelineSpec

(***************************************************************************)
(* A chunk being transcribed has the settings of the last command written  *)
(* before it, whatever was written after it.                               *)
(***************************************************************************)
THEOREM SettingAlwaysOfItsTime == PipelineSpec => []SettingOfItsTime
<1>1. PipeInv => SettingOfItsTime
  <2> SUFFICES ASSUME PipeInv, srv \in {"chunk", "stream"}
               PROVE  setting = LastSetting(job.id)
    BY DEF SettingOfItsTime
  <2>1. /\ Taken \in Nat /\ Taken \in 1..Len(script) /\ job = script[Taken]
        /\ job.kind = "chunk"
    BY TakenType DEF PipeInv, Answering, Taken
  <2>2. job.id = Taken
    BY <2>1 DEF PipeInv, Waiting
  <2>3. Sets(Taken + 1) = Sets(Taken)
    BY <2>1 DEF Sets
  <2>4. SetBefore(Taken, setting)
    BY <2>3 DEF PipeInv, Settled, SetBefore
  <2> QED BY <2>1, <2>2, <2>4, SetBeforeIsLast
<1> QED BY <1>1, PipeInit, PipeStep, PTL DEF PipelineSpec
--------------------------------------------------------------------------------
(***************************************************************************)
(* Integer arithmetic.                                                     *)
(***************************************************************************)
LEMMA DivisionBounds ==
  ASSUME NEW a \in Nat, NEW b \in Nat \ {0}
  PROVE  /\ a \div b \in Nat
         /\ b * (a \div b) <= a
         /\ a < b * (a \div b) + b
OBVIOUS

LEMMA ProductMonotone ==
  ASSUME NEW p \in Nat, NEW a \in Nat, NEW b \in Nat, a <= b
  PROVE  p * a <= p * b
OBVIOUS

\* A causal convolution rounds down, but never to zero frames.
LEMMA ConvOutIsFloor ==
  ASSUME NEW t \in Nat \ {0}, NEW s \in Nat \ {0}
  PROVE  /\ ConvOut(t, s) \in Nat \ {0}
         /\ ConvOut(t, s) = 1 \/ s * ConvOut(t, s) <= t
         /\ t < s * (ConvOut(t, s) + 1)
<1>1. CASE t < s
  <2>1. -(t - s) \in Nat /\ -(t - s) < s /\ ~(t - s >= 0)
    BY <1>1
  <2>2. (-(t - s)) \div s = 0
    BY <2>1
  <2>3. ConvOut(t, s) = 1
    BY <2>1, <2>2 DEF ConvOut, CDiv
  <2> QED BY <1>1, <2>3
<1>2. CASE s <= t
  <2> DEFINE q == (t - s) \div s
  <2>1. t - s \in Nat /\ t - s >= 0
    BY <1>2
  <2>2. q \in Nat /\ s * q <= t - s /\ t - s < s * q + s
    BY <2>1, DivisionBounds
  <2>3. ConvOut(t, s) = q + 1
    BY <2>1 DEF ConvOut, CDiv
  <2> HIDE DEF q
  <2>4. s * (q + 1) = s * q + s /\ s * (q + 2) = s * q + s + s
    BY <2>2
  <2> QED BY <2>2, <2>3, <2>4
<1> QED BY <1>1, <1>2

(***************************************************************************)
(* v frames of p samples each are what is left of n samples.               *)
(***************************************************************************)
Left(v, p, n) ==
  /\ v \in Nat \ {0}
  /\ v = 1 \/ p * v <= n
  /\ n < p * (v + 1)

LEMMA StageLeaves ==
  ASSUME NEW n \in Nat, NEW p \in Nat \ {0}, NEW s \in Nat \ {0}, NEW v, Left(v, p, n)
  PROVE  p * s \in Nat \ {0} /\ Left(ConvOut(v, s), p * s, n)
<1> DEFINE w == ConvOut(v, s)
<1>1. v \in Nat \ {0} /\ (v = 1 \/ p * v <= n) /\ n < p * (v + 1)
  BY DEF Left
<1>2. w \in Nat \ {0} /\ (w = 1 \/ s * w <= v) /\ v < s * (w + 1)
  BY <1>1, ConvOutIsFloor
<1> HIDE DEF w
<1>3. p * s \in Nat \ {0} /\ s * w \in Nat /\ s * (w + 1) \in Nat
  BY <1>2
<1>4. (p * s) * w = p * (s * w) /\ (p * s) * (w + 1) = p * (s * (w + 1))
  BY <1>2
<1>5. n < (p * s) * (w + 1)
  <2>1. v + 1 <= s * (w + 1)
    BY <1>1, <1>2, <1>3
  <2>2. p * (v + 1) <= p * (s * (w + 1))
    BY <1>1, <1>3, <2>1, ProductMonotone
  <2>3. p * (v + 1) \in Nat /\ p * (s * (w + 1)) \in Nat
    BY <1>1, <1>3
  <2> QED BY <1>1, <1>4, <2>2, <2>3
<1>6. w = 1 \/ (p * s) * w <= n
  <2> SUFFICES ASSUME w # 1 PROVE (p * s) * w <= n
    OBVIOUS
  <2>1. s * w <= v /\ v # 1
    BY <1>1, <1>2, <1>3
  <2>2. p * (s * w) <= p * v /\ p * v <= n
    BY <1>1, <1>3, <2>1, ProductMonotone
  <2>3. p * (s * w) \in Nat /\ p * v \in Nat
    BY <1>1, <1>3
  <2> QED BY <1>4, <2>2, <2>3
<1> QED BY <1>2, <1>3, <1>5, <1>6 DEF Left, w

LEMMA EncoderLeaves == \A n \in Nat \ {0} : Left(EncoderFrames(n), Ratio, n)
<1> SUFFICES ASSUME NEW n \in Nat \ {0} PROVE Left(EncoderFrames(n), Ratio, n)
  OBVIOUS
<1> DEFINE T1 == ConvOut(n, Strides[1])
           T2 == ConvOut(T1, Strides[2])
           T3 == ConvOut(T2, Strides[3])
           T4 == ConvOut(T3, Strides[4])
           T5 == ConvOut(T4, Strides[5])
           T6 == ConvOut(T5, Strides[6])
           T7 == ConvOut(T6, Strides[7])
           P0 == 1
           P1 == P0 * Strides[1]
           P2 == P1 * Strides[2]
           P3 == P2 * Strides[3]
           P4 == P3 * Strides[4]
           P5 == P4 * Strides[5]
           P6 == P5 * Strides[6]
           P7 == P6 * Strides[7]
<1>0. \A i \in 1..7 : Strides[i] \in Nat \ {0}
  BY FramesAssumption
<1>s. /\ Strides[1] \in Nat \ {0} /\ Strides[2] \in Nat \ {0} /\ Strides[3] \in Nat \ {0}
      /\ Strides[4] \in Nat \ {0} /\ Strides[5] \in Nat \ {0} /\ Strides[6] \in Nat \ {0}
      /\ Strides[7] \in Nat \ {0}
  BY <1>0
<1>e. EncoderFrames(n) = T7
  BY DEF EncoderFrames
<1>p. Ratio = P7
  BY <1>s, FramesAssumption
<1>i. P0 \in Nat \ {0} /\ Left(n, P0, n)
  BY DEF Left
<1> HIDE DEF P0
<1>1. P1 \in Nat \ {0} /\ Left(T1, P1, n)
  BY <1>s, <1>i, StageLeaves
<1> HIDE DEF T1, P1
<1>2. P2 \in Nat \ {0} /\ Left(T2, P2, n)
  BY <1>s, <1>1, StageLeaves
<1> HIDE DEF T2, P2
<1>3. P3 \in Nat \ {0} /\ Left(T3, P3, n)
  BY <1>s, <1>2, StageLeaves
<1> HIDE DEF T3, P3
<1>4. P4 \in Nat \ {0} /\ Left(T4, P4, n)
  BY <1>s, <1>3, StageLeaves
<1> HIDE DEF T4, P4
<1>5. P5 \in Nat \ {0} /\ Left(T5, P5, n)
  BY <1>s, <1>4, StageLeaves
<1> HIDE DEF T5, P5
<1>6. P6 \in Nat \ {0} /\ Left(T6, P6, n)
  BY <1>s, <1>5, StageLeaves
<1> HIDE DEF T6, P6
<1>7. Left(T7, P7, n)
  BY <1>s, <1>6, StageLeaves
<1> QED BY <1>7, <1>e, <1>p

LEMMA RatioPositive == Ratio \in Nat \ {0}
<1>0. \A i \in 1..7 : Strides[i] \in Nat \ {0}
  BY FramesAssumption
<1>1. /\ Strides[1] \in Nat \ {0} /\ Strides[2] \in Nat \ {0} /\ Strides[3] \in Nat \ {0}
      /\ Strides[4] \in Nat \ {0} /\ Strides[5] \in Nat \ {0} /\ Strides[6] \in Nat \ {0}
      /\ Strides[7] \in Nat \ {0}
  BY <1>0
<1>2. \A a, b \in Nat \ {0} : a * b \in Nat \ {0}
  OBVIOUS
<1>3. Strides[1] * Strides[2] * Strides[3] \in Nat \ {0}
  BY <1>1, <1>2
<1>4. Strides[1] * Strides[2] * Strides[3] * Strides[4] * Strides[5] \in Nat \ {0}
  BY <1>1, <1>2, <1>3
<1> QED BY <1>1, <1>2, <1>4, FramesAssumption

LEMMA EncoderFitsBuffer ==
  \A n \in Nat \ {0} :
    /\ EncoderFrames(n) \in Nat /\ ExpectedFrames(n) \in Nat
    /\ EncoderFrames(n) <= ExpectedFrames(n)
    /\ ExpectedFrames(n) <= EncoderFrames(n) + 1
<1> SUFFICES ASSUME NEW n \in Nat \ {0}
             PROVE  /\ EncoderFrames(n) \in Nat /\ ExpectedFrames(n) \in Nat
                    /\ EncoderFrames(n) <= ExpectedFrames(n)
                    /\ ExpectedFrames(n) <= EncoderFrames(n) + 1
  OBVIOUS
<1> DEFINE v == EncoderFrames(n)
           e == ExpectedFrames(n)
<1>1. Ratio \in Nat \ {0}
  BY RatioPositive
<1>2. v \in Nat \ {0} /\ (v = 1 \/ Ratio * v <= n) /\ n < Ratio * (v + 1)
  BY EncoderLeaves DEF Left
<1>3. e \in Nat /\ Ratio * e <= n + Ratio - 1 /\ n + Ratio - 1 < Ratio * e + Ratio
  <2>1. n + Ratio - 1 \in Nat
    BY <1>1
  <2> QED BY <1>1, <2>1, DivisionBounds DEF ExpectedFrames
<1> HIDE DEF v, e
<1>4. v <= e
  <2> SUFFICES ASSUME e + 1 <= v PROVE FALSE
    BY <1>2, <1>3
  <2>1. Ratio * (e + 1) <= Ratio * v /\ Ratio * (e + 1) = Ratio * e + Ratio
    BY <1>1, <1>2, <1>3, ProductMonotone
  <2>2. n < Ratio * v /\ Ratio * v \in Nat /\ Ratio * e \in Nat
    BY <1>1, <1>2, <1>3, <2>1
  <2>3. v = 1 /\ e = 0
    BY <1>2, <1>3, <2>2
  <2> QED BY <1>1, <1>3, <2>3
<1>5. e <= v + 1
  <2> SUFFICES ASSUME v + 2 <= e PROVE FALSE
    BY <1>2, <1>3
  <2>1. Ratio * (v + 2) <= Ratio * e
    BY <1>1, <1>2, <1>3, ProductMonotone
  <2>2. Ratio * (v + 2) = Ratio * (v + 1) + Ratio /\ Ratio * (v + 1) \in Nat /\ Ratio * e \in Nat
    BY <1>1, <1>2, <1>3
  <2> QED BY <1>1, <1>2, <1>3, <2>1, <2>2
<1> QED BY <1>2, <1>3, <1>4, <1>5 DEF v, e

------------------------------------------------------------------------------
FramesInv == frames \in Nat /\ pads \in Nat /\ FramesFit

(***************************************************************************)
(* For every sequence of chunk lengths and any seven strides, the encoders *)
(* fit the buffer their callers allocate (expected_frames, rounded up) and *)
(* leave at most its last frame unused.                                    *)
(***************************************************************************)
THEOREM FramesAlwaysFit == Spec => []FramesFit
<1>1. Init => FramesInv
  BY DEF Init, FramesInv, FramesFit
<1>2. FramesInv /\ [Next]_vars => FramesInv'
  <2> SUFFICES ASSUME FramesInv, [Next]_vars PROVE FramesInv'
    OBVIOUS
  <2>1. ASSUME NEW n \in Samples, EncodeChunk(n) PROVE FramesInv'
    <3>1. n \in Nat \ {0}
      BY <2>1, DecodeAssumption DEF EncodeChunk
    <3> QED BY <2>1, <3>1, EncoderFitsBuffer DEF EncodeChunk, FramesInv, FramesFit
  <2>2. CASE EncodeFails \/ Working \/ UNCHANGED vars
    BY <2>2 DEF EncodeFails, Working, PrefillBatch, NextSegment, PrefillFails, FirstToken,
                DecodeToken, EndDecode, Return, vars, prefillVars, FramesInv, FramesFit
  <2> QED BY <2>1, <2>2 DEF Next
<1>3. FramesInv => FramesFit
  BY DEF FramesInv
<1> QED BY <1>1, <1>2, <1>3, PTL DEF Spec

(***************************************************************************)
(* Type correctness.                                                       *)
(***************************************************************************)
LEMMA SegLenType == TypeOK => SegLen(seg) \in Nat
BY DecodeAssumption DEF TypeOK, SegLen, Lesser

LEMMA AppendType ==
  ASSUME NEW S, NEW s \in Seq(S), NEW e \in S
  PROVE  Append(s, e) \in Seq(S)
OBVIOUS

LEMMA NoCells == DOMAIN <<>> = {}
OBVIOUS

\* The items of a batch, as PrefillBatch lays them out.
BatchLen == Lesser(NBatch, SegLen(seg) - done)
Batch    == [i \in 1..BatchLen |-> SegItem(seg, done + i - 1)]

LEMMA BatchShape ==
  ASSUME TypeOK, PrefillBatch
  PROVE  /\ BatchLen \in Nat \ {0}
         /\ Len(Batch) = BatchLen /\ DOMAIN Batch = 1..BatchLen
         /\ Place(pos, Batch)
         /\ done' = done + BatchLen /\ pos' = pos + BatchLen
         /\ logits' \in BOOLEAN
<1>1. SegLen(seg) \in Nat /\ done \in Nat /\ done < SegLen(seg) /\ NBatch \in Nat \ {0}
  BY SegLenType, DecodeAssumption DEF PrefillBatch, TypeOK
<1>2. BatchLen \in Nat \ {0}
  BY <1>1 DEF BatchLen, Lesser
<1>3. Len(Batch) = BatchLen /\ DOMAIN Batch = 1..BatchLen
  BY <1>2 DEF Batch
<1>4. /\ Place(pos, Batch)
      /\ done' = done + BatchLen /\ pos' = pos + BatchLen
      /\ logits' \in BOOLEAN
  BY DEF PrefillBatch, Batch, BatchLen
<1> QED BY <1>2, <1>3, <1>4

\* Every cell after a Place is an old one or one of the items.
LEMMA PlacedCells ==
  ASSUME NEW p \in Nat, NEW items, Len(items) \in Nat, Place(p, items)
  PROVE  \A q \in DOMAIN kv' :
           \/ q \in DOMAIN kv /\ kv'[q] = kv[q]
           \/ q \in Nat /\ \E i \in 1..Len(items) : kv'[q] = items[i]
<1> SUFFICES ASSUME NEW q \in DOMAIN kv'
             PROVE  \/ q \in DOMAIN kv /\ kv'[q] = kv[q]
                    \/ q \in Nat /\ \E i \in 1..Len(items) : kv'[q] = items[i]
  OBVIOUS
<1>1. CASE q \in p..(p + Len(items) - 1)
  <2>1. kv'[q] = items[q - p + 1] /\ q - p + 1 \in 1..Len(items) /\ q \in Nat
    BY <1>1 DEF Place
  <2> QED BY <2>1
<1>2. CASE q \notin p..(p + Len(items) - 1)
  BY <1>2 DEF Place
<1> QED BY <1>1, <1>2

LEMMA SegItemShape ==
  ASSUME NEW s \in 1..3, NEW k
  PROVE  SegItem(s, k).chunk = chunk /\ SegItem(s, k).kind \in {"text", "frame"}
BY DEF SegItem, Item

KvOK == \A p \in DOMAIN kv : p \in Nat /\ kv[p].kind \in {"text", "frame", "generated"}

LEMMA TypeStep == TypeOK /\ [Next]_vars => TypeOK'
<1> SUFFICES ASSUME TypeOK, [Next]_vars PROVE TypeOK'
  OBVIOUS
<1> USE DEF TypeOK
<1>1. CASE EncodeFails
  BY <1>1, DecodeAssumption DEF EncodeFails, prefillVars
<1>2. ASSUME NEW n \in Samples, EncodeChunk(n) PROVE TypeOK'
  <2>1. EncoderFrames(n) \in Nat /\ ExpectedFrames(n) \in Nat
    <3>1. n \in Nat \ {0}
      BY <1>2, DecodeAssumption DEF EncodeChunk
    <3> QED BY <3>1, EncoderFitsBuffer
  <2>2. KvOK'
    BY <1>2, NoCells DEF EncodeChunk, KvOK
  <2>3. pc' = "prefill" /\ frames' \in Nat /\ pads' \in Nat
    BY <1>2, <2>1 DEF EncodeChunk
  <2>4. chunk' \in 0..MaxChunks
    BY <1>2, DecodeAssumption DEF EncodeChunk
  <2>5. /\ seg' \in 1..3 /\ done' \in Nat /\ pos' \in Nat
        /\ UNCHANGED <<cur, gen, skip, shown>>
    BY <1>2 DEF EncodeChunk
  <2>6. logits' \in BOOLEAN
    BY <1>2 DEF EncodeChunk
  <2> QED BY <2>2, <2>3, <2>4, <2>5, <2>6 DEF KvOK
<1>3. CASE PrefillBatch
  <2>1. /\ BatchLen \in Nat /\ Len(Batch) = BatchLen /\ DOMAIN Batch = 1..BatchLen
        /\ Place(pos, Batch) /\ done' \in Nat /\ pos' \in Nat /\ logits' \in BOOLEAN
    BY <1>3, BatchShape
  <2>2. KvOK'
    <3>1. \A i \in 1..Len(Batch) : Batch[i].kind \in {"text", "frame"}
      BY <2>1, SegItemShape DEF Batch
    <3> QED BY <2>1, <3>1, PlacedCells DEF KvOK
  <2> QED BY <1>3, <2>1, <2>2 DEF PrefillBatch, KvOK
<1>4. CASE NextSegment
  BY <1>4 DEF NextSegment
<1>5. CASE PrefillFails
  BY <1>5 DEF PrefillFails, prefillVars
<1>6. ASSUME NEW t \in Tokens, FirstToken(t) PROVE TypeOK'
  <2>1. gen' \in Seq(Tokens) /\ Len(gen') = 1
    BY <1>6 DEF FirstToken
  <2>2. skip' \in 0..2 /\ cur' \in Nat /\ 1 <= MaxTokens /\ shown' \in Seq(1..MaxTokens)
    BY <1>6, DecodeAssumption DEF FirstToken
  <2> QED BY <1>6, <2>1, <2>2 DEF FirstToken, prefillVars
<1>7. ASSUME NEW t \in Tokens, DecodeToken(t) PROVE TypeOK'
  <2>1. Len(gen) < MaxTokens /\ Len(gen) \in Nat /\ MaxTokens \in Nat
    BY <1>7, DecodeAssumption DEF DecodeToken, Continues
  <2>2. gen' \in Seq(Tokens) /\ Len(gen') = Len(gen) + 1 /\ Len(gen') <= MaxTokens
    BY <1>7, <2>1 DEF DecodeToken
  <2>3. shown' \in Seq(1..MaxTokens)
    <3>1. Len(gen) + 1 \in 1..MaxTokens
      BY <2>1
    <3>2. shown' = shown \/ shown' = Append(shown, Len(gen) + 1)
      BY <1>7 DEF DecodeToken
    <3> QED BY <3>1, <3>2, AppendType
  <2>4. skip' \in 0..2 /\ cur' \in Nat
    BY <1>7 DEF DecodeToken
  <2>5. KvOK'
    <3>1. Place(cur, <<Item("generated", Len(gen))>>)
      BY <1>7 DEF DecodeToken
    <3>2. /\ Len(<<Item("generated", Len(gen))>>) = 1
          /\ <<Item("generated", Len(gen))>>[1].kind = "generated"
      BY DEF Item
    <3> QED BY <3>1, <3>2, PlacedCells DEF KvOK
  <2> QED BY <1>7, <2>2, <2>3, <2>4, <2>5 DEF DecodeToken, prefillVars, KvOK
<1>8. CASE EndDecode
  BY <1>8 DEF EndDecode, prefillVars
<1>9. CASE Return
  BY <1>9, DecodeAssumption DEF Return, prefillVars
<1>10. CASE UNCHANGED vars
  BY <1>10 DEF vars
<1> QED BY <1>1, <1>2, <1>3, <1>4, <1>5, <1>6, <1>7, <1>8, <1>9, <1>10 DEF Next, Working

LEMMA TypeInit == Init => TypeOK
<1> SUFFICES ASSUME Init PROVE TypeOK
  OBVIOUS
<1>1. KvOK
  BY NoCells DEF Init, KvOK
<1>2. gen \in Seq(Tokens) /\ Len(gen) = 0 /\ shown \in Seq(1..MaxTokens)
  BY DEF Init
<1>3. /\ pc = "idle" /\ chunk \in 0..MaxChunks /\ frames \in Nat /\ pads \in Nat
      /\ seg \in 1..3 /\ done \in Nat /\ pos \in Nat /\ cur \in Nat /\ skip \in 0..2
  BY DecodeAssumption DEF Init
<1>5. logits \in BOOLEAN
  BY DEF Init
<1>4. Len(gen) <= MaxTokens
  BY <1>2, DecodeAssumption
<1> QED BY <1>1, <1>2, <1>3, <1>4, <1>5 DEF TypeOK, KvOK

(***************************************************************************)
(* Type correctness: positions, counters and the list of streamed tokens   *)
(* stay in range for any prompt, batch and context size; in particular     *)
(* never more than max_tokens tokens are generated.                        *)
(***************************************************************************)
THEOREM TypeCorrect == Spec => []TypeOK
BY TypeInit, TypeStep, PTL DEF Spec

LEMMA OwnStep == TypeOK /\ OnlyThisChunk /\ [Next]_vars => OnlyThisChunk'
<1> SUFFICES ASSUME TypeOK, OnlyThisChunk, [Next]_vars PROVE OnlyThisChunk'
  OBVIOUS
<1>1. CASE EncodeFails \/ NextSegment \/ PrefillFails \/ EndDecode \/ Return \/ UNCHANGED vars
  BY <1>1 DEF EncodeFails, NextSegment, PrefillFails, EndDecode, Return, vars, OnlyThisChunk
<1>2. ASSUME NEW n, EncodeChunk(n) PROVE OnlyThisChunk'
  BY <1>2 DEF EncodeChunk, OnlyThisChunk
<1>3. CASE PrefillBatch
  <2>1. /\ Len(Batch) \in Nat /\ DOMAIN Batch = 1..Len(Batch)
        /\ Place(pos, Batch) /\ pos \in Nat
    BY <1>3, BatchShape DEF TypeOK
  <2>2. \A i \in 1..Len(Batch) : Batch[i].chunk = chunk
    BY <2>1, SegItemShape DEF Batch, TypeOK
  <2>3. pc # "idle" /\ chunk' = chunk
    BY <1>3 DEF PrefillBatch
  <2> QED BY <2>1, <2>2, <2>3, PlacedCells DEF OnlyThisChunk
<1>4. ASSUME NEW t, FirstToken(t) PROVE OnlyThisChunk'
  BY <1>4 DEF FirstToken, OnlyThisChunk
<1>5. ASSUME NEW t, DecodeToken(t) PROVE OnlyThisChunk'
  <2>1. Place(cur, <<Item("generated", Len(gen))>>) /\ cur \in Nat
    BY <1>5 DEF DecodeToken, TypeOK
  <2>2. /\ Len(<<Item("generated", Len(gen))>>) = 1
        /\ <<Item("generated", Len(gen))>>[1].chunk = chunk
    BY DEF Item
  <2>3. pc # "idle" /\ chunk' = chunk
    BY <1>5 DEF DecodeToken
  <2> QED BY <2>1, <2>2, <2>3, PlacedCells DEF OnlyThisChunk
<1> QED BY <1>1, <1>2, <1>3, <1>4, <1>5 DEF Next, Working

(***************************************************************************)
(* Whatever fails and whenever, the cells of the cache belong to the chunk *)
(* being prefilled or decoded: nothing of an earlier chunk is attended to. *)
(***************************************************************************)
THEOREM CacheHoldsOneChunk == Spec => []OnlyThisChunk
<1>1. Init => OnlyThisChunk
  BY DEF Init, OnlyThisChunk
<1> QED BY <1>1, TypeInit, TypeStep, OwnStep, PTL DEF Spec

(***************************************************************************)
(* The prompt in the cache.  While it is prefilled, the cells are the      *)
(* first pos items of Prompt, and pos is counted by segments; afterwards   *)
(* the prompt stays and the generated tokens lie after the last pad.       *)
(***************************************************************************)
SegStart(s) == CASE s = 1 -> 0 [] s = 2 -> Pre [] s = 3 -> Pre + frames

PromptPrefix == \A p \in 0..(pos - 1) : kv[p] = Prompt[p]

Prefilling ==
  pc = "prefill" =>
    /\ done <= SegLen(seg) /\ pos = SegStart(seg) + done
    /\ DOMAIN kv = 0..(pos - 1)
    /\ PromptPrefix
    /\ (seg = 3 /\ done = SegLen(3) => logits)

Decoding ==
  pc \in {"sampled", "done"} =>
    /\ pos = Pre + frames + Post
    /\ cur >= Pre + pads + Post
    /\ DOMAIN kv = 0..(pos - 1) \cup (Pre + pads + Post)..(cur - 1)
    /\ PromptPrefix
    /\ (pc = "sampled" => logits)

CacheInv == Prefilling /\ Decoding

LEMMA SegLengths ==
  ASSUME TypeOK, FramesFit
  PROVE  /\ SegLen(1) = Pre /\ SegLen(2) = frames /\ SegLen(3) = Post
         /\ SegStart(1) = 0 /\ SegStart(2) = Pre /\ SegStart(3) = Pre + frames
BY DEF SegLen, SegStart, Lesser, TypeOK, FramesFit

\* The k-th item of a segment is where Prompt has it.
LEMMA ItemInPrompt ==
  ASSUME TypeOK, FramesFit, NEW k \in Nat, k < SegLen(seg)
  PROVE  /\ SegStart(seg) + k \in 0..(Pre + frames + Post - 1)
         /\ Prompt[SegStart(seg) + k] = SegItem(seg, k)
<1>1. /\ Pre \in Nat \ {0} /\ Post \in Nat \ {0} /\ frames \in Nat /\ pads \in Nat /\ seg \in 1..3
  BY DecodeAssumption DEF TypeOK
<1>2. CASE seg = 1
  BY <1>1, <1>2, SegLengths DEF Prompt, SegItem
<1>3. CASE seg = 2
  <2>1. k < frames /\ SegStart(seg) + k = Pre + k
    BY <1>3, SegLengths
  <2>2. /\ Pre + k \in 0..(Pre + frames + Post - 1) /\ ~ (Pre + k < Pre)
        /\ Pre + k < Pre + frames /\ (Pre + k) - Pre = k
    BY <1>1, <2>1
  <2> QED BY <1>3, <2>1, <2>2 DEF Prompt, SegItem
<1>4. CASE seg = 3
  <2>1. k < Post /\ SegStart(seg) + k = Pre + frames + k
    BY <1>4, SegLengths
  <2>2. /\ Pre + frames + k \in 0..(Pre + frames + Post - 1)
        /\ ~ (Pre + frames + k < Pre) /\ ~ (Pre + frames + k < Pre + frames)
        /\ (Pre + frames + k) + pads - frames = Pre + pads + k
    BY <1>1, <2>1
  <2> QED BY <1>4, <2>1, <2>2 DEF Prompt, SegItem
<1> QED BY <1>1, <1>2, <1>3, <1>4

LEMMA PromptStays ==
  ASSUME UNCHANGED <<chunk, frames, pads>>
  PROVE  /\ Prompt' = Prompt
         /\ \A s \in 1..3 : SegLen(s)' = SegLen(s) /\ SegStart(s)' = SegStart(s)
BY DEF Prompt, Item, SegLen, SegStart

LEMMA PlaceEffect ==
  ASSUME NEW p \in Nat, NEW items, NEW n \in Nat, Len(items) = n, Place(p, items)
  PROVE  /\ DOMAIN kv' = DOMAIN kv \cup p..(p + n - 1)
         /\ \A q \in p..(p + n - 1) : kv'[q] = items[q - p + 1]
         /\ \A q \in DOMAIN kv \ p..(p + n - 1) : kv'[q] = kv[q]
BY DEF Place

LEMMA BatchKeepsPrompt ==
  ASSUME TypeOK, FramesFit, CacheInv, PrefillBatch
  PROVE  CacheInv'
<1>1. /\ BatchLen \in Nat \ {0}
      /\ Len(Batch) = BatchLen /\ Place(pos, Batch)
      /\ done' = done + BatchLen /\ pos' = pos + BatchLen
  BY BatchShape
<1>2. /\ pc = "prefill" /\ pc' = pc
      /\ UNCHANGED <<chunk, frames, pads, seg>>
      /\ logits' = (seg = 3 /\ done + BatchLen = SegLen(3))
  BY DEF PrefillBatch, BatchLen
<1>3. /\ done < SegLen(seg) /\ pos = SegStart(seg) + done
      /\ DOMAIN kv = 0..(pos - 1) /\ PromptPrefix
  BY <1>2 DEF CacheInv, Prefilling, PrefillBatch
<1>4. /\ SegLen(seg) \in Nat /\ done \in Nat /\ pos \in Nat /\ SegStart(seg) \in Nat /\ seg \in 1..3
  BY SegLenType, SegLengths, DecodeAssumption DEF TypeOK
<1>5. BatchLen <= SegLen(seg) - done
  BY <1>4, DecodeAssumption DEF BatchLen, Lesser
<1>6. /\ DOMAIN kv' = 0..(pos - 1) \cup pos..(pos + BatchLen - 1)
      /\ \A q \in pos..(pos + BatchLen - 1) : kv'[q] = Batch[q - pos + 1]
      /\ \A q \in 0..(pos - 1) : kv'[q] = kv[q]
  <2>1. BatchLen \in Nat /\ Len(Batch) = BatchLen /\ Place(pos, Batch) /\ pos \in Nat
    BY <1>1, <1>4
  <2>2. /\ DOMAIN kv' = DOMAIN kv \cup pos..(pos + BatchLen - 1)
        /\ \A q \in pos..(pos + BatchLen - 1) : kv'[q] = Batch[q - pos + 1]
        /\ \A q \in DOMAIN kv \ pos..(pos + BatchLen - 1) : kv'[q] = kv[q]
    BY <2>1, PlaceEffect, ZenonT(40)
  <2>3. \A q \in 0..(pos - 1) : q \notin pos..(pos + BatchLen - 1)
    BY <2>1
  <2> QED BY <1>3, <2>2, <2>3
<1>7. \A q \in pos..(pos + BatchLen - 1) : kv'[q] = Prompt[q]
  <2> TAKE q \in pos..(pos + BatchLen - 1)
  <2>1. q - pos + 1 \in 1..BatchLen /\ done + (q - pos + 1) - 1 = done + (q - pos)
    BY <1>1, <1>4
  <2>2. kv'[q] = SegItem(seg, done + (q - pos))
    BY <1>6, <2>1 DEF Batch
  <2>3. /\ done + (q - pos) \in Nat /\ done + (q - pos) < SegLen(seg)
        /\ SegStart(seg) + (done + (q - pos)) = q
    <3>1. q \in Int /\ pos <= q /\ q <= pos + BatchLen - 1
      BY <1>1, <1>4
    <3>2. BatchLen \in Nat /\ pos = SegStart(seg) + done
      BY <1>1, <1>3
    <3> QED BY <1>4, <1>5, <3>1, <3>2
  <2> QED BY <2>2, <2>3, ItemInPrompt
<1>8. DOMAIN kv' = 0..(pos' - 1)
  BY <1>1, <1>4, <1>6
<1>9. PromptPrefix'
  <2>1. \A q \in 0..(pos' - 1) : kv'[q] = Prompt[q]
    <3> TAKE q \in 0..(pos' - 1)
    <3>1. q \in 0..(pos - 1) \/ q \in pos..(pos + BatchLen - 1)
      BY <1>1, <1>4
    <3>2. CASE q \in 0..(pos - 1)
      BY <1>3, <1>6, <3>2 DEF PromptPrefix
    <3>3. CASE q \in pos..(pos + BatchLen - 1)
      BY <1>7, <3>3
    <3> QED BY <3>1, <3>2, <3>3
  <2> QED BY <1>2, <2>1, PromptStays DEF PromptPrefix
<1>10. done' <= SegLen(seg)' /\ pos' = SegStart(seg)' + done'
  <2>1. SegLen(seg)' = SegLen(seg) /\ SegStart(seg)' = SegStart(seg)
    BY <1>2 DEF SegLen, SegStart
  <2> QED BY <1>1, <1>3, <1>4, <1>5, <2>1
<1>11. seg' = 3 /\ done' = SegLen(3)' => logits'
  <2>1. SegLen(3)' = SegLen(3)
    BY <1>2 DEF SegLen
  <2> QED BY <1>1, <1>2, <2>1
<1>12. Prefilling'
  BY <1>8, <1>9, <1>10, <1>11 DEF Prefilling
<1>13. Decoding'
  BY <1>2 DEF Decoding
<1> QED BY <1>12, <1>13 DEF CacheInv

LEMMA TokenKeepsPrompt ==
  ASSUME TypeOK, FramesFit, CacheInv, NEW t, DecodeToken(t)
  PROVE  CacheInv'
<1>1. /\ pc = "sampled" /\ pc' = pc /\ cur' = cur + 1 /\ logits' = TRUE
      /\ UNCHANGED <<chunk, frames, pads, seg, done, pos>>
      /\ Place(cur, <<Item("generated", Len(gen))>>)
  BY DEF DecodeToken, prefillVars
<1>2. /\ pos = Pre + frames + Post /\ cur >= Pre + pads + Post
      /\ DOMAIN kv = 0..(pos - 1) \cup (Pre + pads + Post)..(cur - 1)
      /\ PromptPrefix
  BY <1>1 DEF CacheInv, Decoding
<1>3. /\ Pre \in Nat /\ Post \in Nat /\ frames \in Nat /\ pads \in Nat
      /\ cur \in Nat /\ pos \in Nat /\ frames <= pads
  BY DecodeAssumption DEF TypeOK, FramesFit
<1>4. /\ DOMAIN kv' = DOMAIN kv \cup cur..(cur + 1 - 1)
      /\ \A q \in DOMAIN kv \ cur..(cur + 1 - 1) : kv'[q] = kv[q]
  <2>1. Len(<<Item("generated", Len(gen))>>) = 1
    OBVIOUS
  <2> QED BY <1>1, <1>3, <2>1, PlaceEffect
<1>5. DOMAIN kv' = 0..(pos - 1) \cup (Pre + pads + Post)..(cur' - 1)
  <2>1. (Pre + pads + Post)..(cur - 1) \cup cur..(cur + 1 - 1) = (Pre + pads + Post)..(cur' - 1)
    BY <1>1, <1>2, <1>3
  <2> QED BY <1>2, <1>4, <2>1
<1>6. \A q \in 0..(pos - 1) : q \in DOMAIN kv \ cur..(cur + 1 - 1)
  BY <1>2, <1>3
<1>7. PromptPrefix'
  <2>1. \A q \in 0..(pos - 1) : kv'[q] = Prompt[q]
    BY <1>2, <1>4, <1>6 DEF PromptPrefix
  <2> QED BY <1>1, <2>1, PromptStays DEF PromptPrefix
<1>8. Decoding'
  <2>1. cur' >= Pre + pads + Post
    BY <1>1, <1>2, <1>3
  <2> QED BY <1>1, <1>2, <1>5, <1>7, <2>1 DEF Decoding
<1>9. Prefilling'
  BY <1>1 DEF Prefilling
<1> QED BY <1>8, <1>9 DEF CacheInv

LEMMA CacheStep ==
  TypeOK /\ FramesFit /\ CacheInv /\ [Next]_vars => CacheInv'
<1> SUFFICES ASSUME TypeOK, FramesFit, CacheInv, [Next]_vars PROVE CacheInv'
  OBVIOUS
<1>1. CASE EncodeFails
  BY <1>1 DEF EncodeFails, CacheInv, Prefilling, Decoding
<1>2. ASSUME NEW n \in Samples, EncodeChunk(n) PROVE CacheInv'
  <2>1. /\ pc' = "prefill" /\ seg' = 1 /\ done' = 0 /\ pos' = 0 /\ kv' = <<>>
    BY <1>2 DEF EncodeChunk
  <2>2. SegLen(seg)' = Pre /\ SegStart(seg)' = 0 /\ Pre \in Nat
    BY <2>1, DecodeAssumption DEF SegLen, SegStart
  <2>3. DOMAIN kv' = 0..(pos' - 1) /\ PromptPrefix'
    BY <2>1, NoCells DEF PromptPrefix
  <2>4. Prefilling'
    BY <2>1, <2>2, <2>3 DEF Prefilling
  <2> QED BY <2>1, <2>4 DEF CacheInv, Decoding
<1>3. CASE PrefillBatch
  BY <1>3, BatchKeepsPrompt
<1>4. CASE NextSegment
  <2>1. /\ pc = "prefill" /\ pc' = pc /\ done = SegLen(seg) /\ seg < 3
        /\ seg' = seg + 1 /\ done' = 0
        /\ UNCHANGED <<chunk, frames, pads, pos, kv, logits>>
    BY <1>4 DEF NextSegment
  <2>2. /\ pos = SegStart(seg) + done /\ DOMAIN kv = 0..(pos - 1) /\ PromptPrefix
    BY <2>1 DEF CacheInv, Prefilling
  <2>3. /\ Pre \in Nat /\ Post \in Nat \ {0} /\ frames \in Nat /\ seg \in 1..3
    BY DecodeAssumption DEF TypeOK
  <2>4. SegStart(seg') = SegStart(seg) + SegLen(seg) /\ SegLen(seg') \in Nat /\ SegLen(3) # 0
    BY <2>1, <2>3, SegLengths
  <2>5. SegStart(seg)' = SegStart(seg') /\ SegLen(seg)' = SegLen(seg') /\ SegLen(3)' = SegLen(3)
    BY <2>1 DEF SegStart, SegLen
  <2>6. PromptPrefix'
    BY <2>1, <2>2, PromptStays DEF PromptPrefix
  <2>7. done' <= SegLen(seg)' /\ pos' = SegStart(seg)' + done'
    <3>1. pos \in Nat /\ SegStart(seg') = pos
      BY <2>1, <2>2, <2>4 DEF TypeOK
    <3> QED BY <2>1, <2>4, <2>5, <3>1
  <2>8. ~ (seg' = 3 /\ done' = SegLen(3)')
    BY <2>1, <2>4, <2>5
  <2>9. Prefilling'
    BY <2>1, <2>2, <2>6, <2>7, <2>8 DEF Prefilling
  <2> QED BY <2>1, <2>9 DEF CacheInv, Decoding
<1>5. CASE PrefillFails
  BY <1>5 DEF PrefillFails, CacheInv, Prefilling, Decoding
<1>6. ASSUME NEW t, FirstToken(t) PROVE CacheInv'
  <2>1. /\ pc = "prefill" /\ seg = 3 /\ done = SegLen(3)
        /\ cur' = Pre + pads + Post /\ pc' = "sampled"
        /\ UNCHANGED <<chunk, frames, pads, seg, done, pos, kv, logits>>
    BY <1>6 DEF FirstToken, prefillVars
  <2>2. /\ pos = SegStart(3) + SegLen(3) /\ DOMAIN kv = 0..(pos - 1) /\ PromptPrefix /\ logits
    BY <2>1 DEF CacheInv, Prefilling
  <2>3. /\ Pre \in Nat /\ Post \in Nat /\ pads \in Nat /\ frames \in Nat
    BY DecodeAssumption DEF TypeOK
  <2>4. pos' = Pre + frames + Post
    BY <2>1, <2>2, SegLengths
  <2>5. (Pre + pads + Post)..(cur' - 1) = {} /\ cur' >= Pre + pads + Post
    BY <2>1, <2>3
  <2>6. PromptPrefix'
    BY <2>1, <2>2, PromptStays DEF PromptPrefix
  <2>7. Decoding'
    BY <2>1, <2>2, <2>4, <2>5, <2>6 DEF Decoding
  <2> QED BY <2>1, <2>7 DEF CacheInv, Prefilling
<1>7. ASSUME NEW t, DecodeToken(t) PROVE CacheInv'
  BY <1>7, TokenKeepsPrompt
<1>8. CASE EndDecode
  <2>1. /\ pc = "sampled" /\ pc' = "done"
        /\ UNCHANGED <<chunk, frames, pads, pos, kv, cur>>
    BY <1>8 DEF EndDecode, prefillVars
  <2>2. PromptPrefix => PromptPrefix'
    BY <2>1, PromptStays DEF PromptPrefix
  <2> QED BY <2>1, <2>2 DEF CacheInv, Prefilling, Decoding
<1>9. CASE Return
  BY <1>9 DEF Return, CacheInv, Prefilling, Decoding
<1>10. CASE UNCHANGED vars
  <2>1. UNCHANGED <<pc, chunk, frames, pads, seg, done, pos, kv, logits, cur>>
    BY <1>10 DEF vars
  <2>2. PromptPrefix' = PromptPrefix
    BY <2>1, PromptStays DEF PromptPrefix
  <2>3. /\ SegLen(seg)' = SegLen(seg) /\ SegLen(3)' = SegLen(3)
        /\ SegStart(seg)' = SegStart(seg)
    BY <2>1 DEF SegLen, SegStart
  <2> QED BY <2>1, <2>2, <2>3 DEF CacheInv, Prefilling, Decoding
<1> QED BY <1>1, <1>2, <1>3, <1>4, <1>5, <1>6, <1>7, <1>8, <1>9, <1>10 DEF Next, Working

\* At most one position below cur has no cell: the pad of an incomplete last frame.
LEMMA CellsBelowCur ==
  ASSUME TypeOK, FramesFit, CacheInv, pc = "sampled"
  PROVE  DecodeAfterContext
<1>1. /\ pos = Pre + frames + Post /\ cur >= Pre + pads + Post
      /\ DOMAIN kv = 0..(pos - 1) \cup (Pre + pads + Post)..(cur - 1)
  BY DEF CacheInv, Decoding
<1>2. /\ Pre \in Nat /\ Post \in Nat /\ pads \in Nat /\ frames \in Nat /\ cur \in Nat
      /\ frames <= pads /\ pads <= frames + 1
  BY DecodeAssumption DEF TypeOK, FramesFit
<1>3. DOMAIN kv \subseteq 0..(cur - 1)
  BY <1>1, <1>2
<1>4. 0..(cur - 1) \subseteq DOMAIN kv \cup {Pre + frames + Post}
  BY <1>1, <1>2
<1>5. IsFiniteSet(0..(cur - 1)) /\ Cardinality(0..(cur - 1)) = cur
  <2>1. 0 \in Int /\ cur - 1 \in Int /\ (cur - 1) - 0 + 1 = cur /\ (0 > cur - 1 => cur = 0)
    BY <1>2
  <2> QED BY <2>1, FS_Interval
<1>6. IsFiniteSet(DOMAIN kv)
  BY <1>3, <1>5, FS_Subset
<1>7. Cardinality(DOMAIN kv) \in Nat
  BY <1>6, FS_CardinalityType
<1>8. /\ IsFiniteSet(DOMAIN kv \cup {Pre + frames + Post})
      /\ Cardinality(DOMAIN kv \cup {Pre + frames + Post}) <= Cardinality(DOMAIN kv) + 1
  BY <1>6, <1>7, FS_AddElement
<1>9. cur <= Cardinality(DOMAIN kv \cup {Pre + frames + Post})
  BY <1>4, <1>5, <1>8, FS_Subset, ZenonT(40)
<1>10. Cardinality(DOMAIN kv \cup {Pre + frames + Post}) \in Nat
  BY <1>8, FS_CardinalityType
<1>11. cur <= Cardinality(DOMAIN kv) + 1
  BY <1>2, <1>7, <1>8, <1>9, <1>10
<1>12. \A p \in DOMAIN kv : p < cur
  BY <1>2, <1>3
<1> QED BY <1>11, <1>12 DEF DecodeAfterContext

(***************************************************************************)
(* For any prompt, batch size, context size and length of audio: sampling  *)
(* starts with the whole prompt in the cells in order, every sample has    *)
(* logits, and generated tokens lie after the context, with at most the    *)
(* pad of an incomplete last frame left free (prefill_segmented and the    *)
(* decode loop of process_chunk).                                          *)
(***************************************************************************)
THEOREM PrefillIsSound == Spec => []PrefillSound
<1>1. Init => CacheInv
  BY DEF Init, CacheInv, Prefilling, Decoding
<1>2. TypeOK /\ FramesFit /\ CacheInv => PrefillSound
  <2> SUFFICES ASSUME TypeOK, FramesFit, CacheInv PROVE PrefillSound
    OBVIOUS
  <2>1. PromptInOrder
    <3> SUFFICES ASSUME pc \in {"sampled", "done"}
                 PROVE  [p \in 0..(pos - 1) |-> kv[p]] = Prompt
      BY DEF PromptInOrder
    <3>1. pos = Pre + frames + Post /\ \A p \in 0..(pos - 1) : kv[p] = Prompt[p]
      BY DEF CacheInv, Decoding, PromptPrefix
    <3>2. Prompt = [p \in 0..(pos - 1) |-> Prompt[p]]
      <4>1. DOMAIN Prompt = 0..(pos - 1)
        <5>1. DOMAIN Prompt = 0..(Pre + frames + Post - 1)
          BY Zenon DEF Prompt
        <5>2. Pre \in Nat /\ frames \in Nat /\ Post \in Nat
          BY DecodeAssumption DEF TypeOK
        <5> QED BY <3>1, <5>1, <5>2
      <4>2. Prompt = [p \in DOMAIN Prompt |-> Prompt[p]]
        BY Zenon DEF Prompt
      <4> QED BY <4>1, <4>2, Zenon
    <3> QED BY <3>1, <3>2, Zenon
  <2>2. LogitsReady
    BY DEF CacheInv, Prefilling, Decoding, LogitsReady
  <2>3. DecodeAfterContext
    BY CellsBelowCur DEF DecodeAfterContext
  <2> QED BY <2>1, <2>2, <2>3 DEF PrefillSound
<1> QED BY <1>1, <1>2, CacheStep, TypeCorrect, FramesAlwaysFit, PTL DEF Spec

(***************************************************************************)
(* Streaming.  What is left to skip is decided by the first token and the  *)
(* number of tokens; what is streamed are the visible ones after them.     *)
(***************************************************************************)
Streamed(upto) ==
  /\ {shown[k] : k \in DOMAIN shown} = {i \in 4..upto : Visible(gen[i])}
  /\ \A j, k \in DOMAIN shown : j < k => shown[j] < shown[k]

Streaming ==
  pc \in {"sampled", "done"} =>
    /\ gen # <<>>
    /\ gen[1] = "im_start" =>
         /\ skip = IF Len(gen) <= 3 THEN 3 - Len(gen) ELSE 0
         /\ Streamed(Len(gen))

\* What DecodeToken does to the tokens and to what is shown of them.
LEMMA TokenShown ==
  ASSUME TypeOK, Streaming, NEW t \in Tokens, DecodeToken(t), gen[1] = "im_start"
  PROVE  /\ skip' = IF Len(gen) + 1 <= 3 THEN 3 - (Len(gen) + 1) ELSE 0
         /\ Streamed(Len(gen))'
<1> DEFINE n == Len(gen)
<1>1. /\ pc = "sampled" /\ gen' = Append(gen, t)
      /\ \/ skip > 0 /\ skip' = skip - 1 /\ shown' = shown
         \/ /\ skip = 0 /\ skip' = skip
            /\ shown' = IF Visible(t) THEN Append(shown, n + 1) ELSE shown
  BY DEF DecodeToken
<1>2. gen \in Seq(Tokens) /\ n \in Nat /\ shown \in Seq(1..MaxTokens) /\ MaxTokens \in Nat
  BY DecodeAssumption DEF TypeOK
<1>3. Len(gen') = n + 1 /\ gen'[n + 1] = t /\ \A i \in 1..n : gen'[i] = gen[i]
  BY <1>1, <1>2
<1>4. n >= 1 /\ skip = (IF n <= 3 THEN 3 - n ELSE 0) /\ Streamed(n)
  BY <1>1, <1>2 DEF Streaming
<1> DEFINE Sel(m) == {i \in 4..m : Visible(gen[i])}
           SelNext == {i \in 4..(n + 1) : Visible(gen'[i])}
<1>5. SelNext = Sel(n) \cup (IF n >= 3 /\ Visible(t) THEN {n + 1} ELSE {})
  BY <1>2, <1>3
<1> HIDE DEF Sel, SelNext
<1>6. /\ {shown[k] : k \in DOMAIN shown} = Sel(n)
      /\ \A j, k \in DOMAIN shown : j < k => shown[j] < shown[k]
  BY <1>4 DEF Streamed, Sel
<1>7. CASE skip > 0
  <2>1. shown' = shown /\ skip' = skip - 1 /\ n < 3
    BY <1>1, <1>2, <1>4, <1>7
  <2>2. SelNext = Sel(n)
    BY <1>5, <2>1
  <2> QED BY <1>2, <1>3, <1>4, <1>6, <1>7, <2>1, <2>2 DEF Streamed, SelNext
<1>8. CASE skip = 0 /\ ~Visible(t)
  <2>1. shown' = shown /\ skip' = 0 /\ n >= 3
    BY <1>1, <1>2, <1>4, <1>8
  <2>2. SelNext = Sel(n)
    BY <1>5, <1>8
  <2> QED BY <1>2, <1>3, <1>6, <2>1, <2>2 DEF Streamed, SelNext
<1>9. CASE skip = 0 /\ Visible(t)
  <2>1. shown' = Append(shown, n + 1) /\ skip' = 0 /\ n >= 3
    BY <1>1, <1>2, <1>4, <1>9
  <2>2. SelNext = Sel(n) \cup {n + 1}
    BY <1>5, <1>9, <2>1
  <2>3. /\ DOMAIN shown = 1..Len(shown) /\ Len(shown) \in Nat
        /\ DOMAIN shown' = 1..(Len(shown) + 1) /\ shown'[Len(shown) + 1] = n + 1
        /\ \A k \in 1..Len(shown) : shown'[k] = shown[k]
    BY <1>2, <2>1
  <2>4. {shown'[k] : k \in DOMAIN shown'} = SelNext
    BY <1>6, <2>2, <2>3
  <2>5. \A k \in DOMAIN shown : shown[k] \in 4..n
    BY <1>6 DEF Sel
  <2>6. ASSUME NEW j \in DOMAIN shown', NEW k \in DOMAIN shown', j < k
        PROVE  shown'[j] < shown'[k]
    <3>1. j \in 1..Len(shown) /\ shown'[j] = shown[j] /\ shown[j] \in 4..n
      BY <2>3, <2>5, <2>6
    <3>2. CASE k = Len(shown) + 1
      BY <1>2, <2>3, <3>1, <3>2
    <3>3. CASE k # Len(shown) + 1
      <4>1. k \in 1..Len(shown) /\ shown'[k] = shown[k]
        BY <2>3, <3>3
      <4> QED BY <1>6, <2>3, <2>6, <3>1, <4>1
    <3> QED BY <3>2, <3>3
  <2> QED BY <1>2, <1>3, <2>1, <2>4, <2>6, SMTT(30) DEF Streamed, SelNext
<1> QED BY <1>1, <1>7, <1>8, <1>9

LEMMA StreamStep == TypeOK /\ Streaming /\ [Next]_vars => Streaming'
<1> SUFFICES ASSUME TypeOK, Streaming, [Next]_vars PROVE Streaming'
  OBVIOUS
<1>1. ASSUME NEW t \in Tokens, FirstToken(t) PROVE Streaming'
  <2>1. /\ gen' = <<t>> /\ skip' = (IF t = "im_start" THEN 2 ELSE 0) /\ shown' = <<>>
    BY <1>1 DEF FirstToken
  <2>2. Len(gen') = 1 /\ gen'[1] = t /\ gen' # <<>> /\ DOMAIN shown' = {}
    BY <2>1
  <2> QED BY <2>1, <2>2 DEF Streaming, Streamed
<1>2. ASSUME NEW t \in Tokens, DecodeToken(t) PROVE Streaming'
  <2>1. pc = "sampled" /\ gen' = Append(gen, t) /\ gen \in Seq(Tokens)
    BY <1>2 DEF DecodeToken, TypeOK
  <2>2. gen # <<>>
    BY <2>1 DEF Streaming
  <2>3. Len(gen') = Len(gen) + 1 /\ gen'[1] = gen[1] /\ gen' # <<>>
    BY <2>1, <2>2
  <2> QED BY <1>2, <2>3, TokenShown DEF Streaming
<1>3. CASE EndDecode \/ UNCHANGED vars
  BY <1>3 DEF EndDecode, vars, Streaming, Streamed
<1>4. CASE EncodeFails \/ (\E n \in Samples : EncodeChunk(n)) \/ PrefillBatch \/ NextSegment
           \/ PrefillFails \/ Return
  BY <1>4 DEF EncodeFails, EncodeChunk, PrefillBatch, NextSegment, PrefillFails, Return, Streaming
<1> QED BY <1>1, <1>2, <1>3, <1>4 DEF Next, Working

(***************************************************************************)
(* For any number of tokens, drawn in any order: an answer that starts     *)
(* with the header is streamed as exactly the text the non-streaming mode  *)
(* prints for it, in order (process_chunk, asr_infer's step 9).            *)
(***************************************************************************)
THEOREM StreamIsContentAfterHeader == Spec => []StreamedIsContentAfterHeader
<1>1. Init => Streaming
  BY DEF Init, Streaming
<1>2. TypeOK /\ Streaming => StreamedIsContentAfterHeader
  <2> SUFFICES ASSUME TypeOK, Streaming, HasHeader, pc = "done"
               PROVE  /\ {shown[k] : k \in DOMAIN shown} = Content
                      /\ \A j, k \in DOMAIN shown : j < k => shown[j] < shown[k]
    BY DEF StreamedIsContentAfterHeader, StreamedIsContent
  <2>1. gen \in Seq(Tokens) /\ Len(gen) \in Nat /\ Len(gen) >= 3
    BY DEF TypeOK, HasHeader
  <2>2. gen[1] = "im_start" /\ gen[2] = "assistant" /\ gen[3] = "newline"
    <3>1. SubSeq(gen, 1, 3) = <<"im_start", "assistant", "newline">>
      BY DEF HasHeader
    <3>2. \A i \in 1..3 : SubSeq(gen, 1, 3)[i] = gen[1 + i - 1]
      BY <2>1
    <3>3. SubSeq(gen, 1, 3)[1] = gen[1] /\ SubSeq(gen, 1, 3)[2] = gen[2] /\ SubSeq(gen, 1, 3)[3] = gen[3]
      BY <3>2
    <3> DEFINE header == <<"im_start", "assistant", "newline">>
    <3>4. header[1] = "im_start" /\ header[2] = "assistant" /\ header[3] = "newline"
      OBVIOUS
    <3>5. SubSeq(gen, 1, 3) = header
      BY <3>1
    <3> HIDE DEF header
    <3> QED BY <3>3, <3>4, <3>5
  <2>3. ContentStart = 4
    BY <2>1, <2>2 DEF ContentStart
  <2>4. Content = {i \in 4..Len(gen) : Visible(gen[i])}
    BY <2>1, <2>3 DEF Content, ContentEnd, LastToken, Visible
  <2> QED BY <2>2, <2>4 DEF Streaming, Streamed
<1> QED BY <1>1, <1>2, StreamStep, TypeCorrect, PTL DEF Spec
================================================================================
