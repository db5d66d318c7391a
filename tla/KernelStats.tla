------------------------------ MODULE KernelStats ------------------------------
(***************************************************************************)
(* The choice of the instruction set and the accounting of the kernels     *)
(* (ggml-lm-mad.cpp, vibeasr-kernel-stats.h), as the threads of a pool     *)
(* meet them: every kernel asks vibeasr_isa(), whose answer is cached      *)
(* without a lock, and its probe adds to counters that are not atomic.     *)
(***************************************************************************)
EXTENDS Integers, FiniteSets

CONSTANTS
  Workers,   \* threads that run kernels
  Slots,     \* VIBEASR_STAT_SLOTS
  Runs,      \* kernels a thread runs that runs any
  Cpus,      \* records: leaf, osxsave, avx, fma, ymm, zmm, avx2, avx512, vnni, amx, grant, tiles
  Overrides  \* levels VIBEASR_ISA can name, and -1

Scalar == 0
Avx2 == 1
Avx512 == 2
Vnni == 3
Amx == 4

Flags == {"osxsave", "avx", "fma", "ymm", "zmm", "avx2", "avx512", "vnni", "amx", "grant", "tiles"}

\* A processor that has XSAVE describes it, in leaf 13: its leaves do not end before 7.
ASSUME StatsAssumption ==
  /\ IsFiniteSet(Workers)
  /\ Slots \in Nat \ {0} /\ Runs \in Nat
  /\ Overrides \subseteq -1..Amx
  /\ \A c \in Cpus :
       /\ c.leaf \in Nat
       /\ \A f \in Flags : c[f] \in BOOLEAN
       /\ c.osxsave => c.leaf >= 7

VARIABLES
  cpu, forced,  \* the machine, and what the environment asks for
  statsOn,      \* vibeasr_kernel_stats_on
  cached,       \* vibeasr_isa_cached
  pc,           \* worker |-> "idle", "detect", "kernel", "claim", "write"
  answer,       \* worker |-> what vibeasr_isa last returned, -1
  next,         \* vibeasr_stat_next
  slot,         \* worker |-> vibeasr_stat_slot_id
  read,         \* worker |-> the counter it has read
  calls,        \* slot |-> its counter
  left,         \* worker |-> kernels to run
  dumped        \* calls the dump reported, -1 before

statsVars == <<cpu, forced, statsOn, cached, pc, answer, next, slot, read, calls, left, dumped>>
------------------------------------------------------------------------------
\* Variant: a request that is granted is taken for tiles that can be used.
AmxTilesGranted(c) == c.amx /\ c.grant
\* vibeasr_request_amx_tiles, and XCR0 read once more.
AmxTiles(c) == c.amx /\ c.grant /\ c.tiles

Detect(c) ==
  IF c.leaf < 1 \/ ~c.osxsave \/ ~c.avx \/ ~c.ymm THEN Scalar
  ELSE IF c.leaf < 7 THEN Avx2
  ELSE IF ~c.avx2 \/ ~c.fma THEN Scalar
  ELSE IF ~c.zmm \/ ~c.avx512 THEN Avx2
  ELSE IF ~c.vnni THEN Avx512
  ELSE IF AmxTiles(c) THEN Amx ELSE Vnni

Lowered(detected) == IF forced >= 0 THEN (IF forced < detected THEN forced ELSE detected) ELSE detected

StatsInit ==
  /\ cpu \in Cpus /\ forced \in Overrides /\ statsOn \in BOOLEAN
  /\ cached = -1 /\ next = 0 /\ dumped = -1
  /\ pc = [w \in Workers |-> "idle"] /\ answer = [w \in Workers |-> -1]
  /\ slot = [w \in Workers |-> -1] /\ read = [w \in Workers |-> 0]
  /\ calls = [s \in 0..(Slots - 1) |-> 0]
  /\ left \in [Workers -> {0, Runs}]

Goto(w, at) == pc' = [pc EXCEPT ![w] = at]

\* vibeasr_isa: the cache, or an answer of one's own.
AskIsa(w) ==
  /\ pc[w] = "idle" /\ left[w] > 0
  /\ IF cached < 0 THEN Goto(w, "detect") /\ UNCHANGED answer
     ELSE Goto(w, "kernel") /\ answer' = [answer EXCEPT ![w] = cached]
  /\ UNCHANGED <<cpu, forced, statsOn, cached, next, slot, read, calls, left, dumped>>

DetectIsa(w) ==
  /\ pc[w] = "detect"
  /\ answer' = [answer EXCEPT ![w] = Lowered(Detect(cpu))]
  /\ cached' = answer'[w]
  /\ Goto(w, "kernel")
  /\ UNCHANGED <<cpu, forced, statsOn, next, slot, read, calls, left, dumped>>

\* The kernel returns and its probe is destroyed.
EndKernel(w) ==
  /\ pc[w] = "kernel"
  /\ left' = [left EXCEPT ![w] = @ - 1]
  /\ Goto(w, IF statsOn THEN "claim" ELSE "idle")
  /\ UNCHANGED <<cpu, forced, statsOn, cached, answer, next, slot, read, calls, dumped>>

\* Variant: the number is stored back by whoever read it, whatever happened in between.
FetchSlotPlain(w) ==
  \E seen \in 0..next :
    /\ next' = IF slot[w] < 0 THEN seen + 1 ELSE next
    /\ slot' = IF slot[w] < 0 THEN [slot EXCEPT ![w] = seen % Slots] ELSE slot

\* The number for a new thread is fetched and incremented in one step.
FetchSlot(w) ==
  /\ next' = IF slot[w] < 0 THEN next + 1 ELSE next
  /\ slot' = IF slot[w] < 0 THEN [slot EXCEPT ![w] = next % Slots] ELSE slot

ClaimSlot(w) ==
  /\ pc[w] = "claim"
  /\ FetchSlot(w)
  /\ read' = [read EXCEPT ![w] = calls[slot'[w]]]
  /\ Goto(w, "write")
  /\ UNCHANGED <<cpu, forced, statsOn, cached, answer, calls, left, dumped>>

WriteSlot(w) ==
  /\ pc[w] = "write"
  /\ calls' = [calls EXCEPT ![slot[w]] = read[w] + 1]
  /\ Goto(w, "idle")
  /\ UNCHANGED <<cpu, forced, statsOn, cached, answer, next, slot, read, left, dumped>>

\* Summed[n]: the calls of the first n slots.
Summed[n \in 0..Slots] == IF n = 0 THEN 0 ELSE Summed[n - 1] + calls[n - 1]

\* vibeasr_kernel_stats_dump, at exit, when the pools are idle.
Dump ==
  /\ dumped = -1 /\ statsOn
  /\ \A w \in Workers : pc[w] = "idle" /\ left[w] = 0
  /\ dumped' = Summed[Slots]
  /\ UNCHANGED <<cpu, forced, statsOn, cached, pc, answer, next, slot, read, calls, left>>

StatsNext ==
  \/ \E w \in Workers : AskIsa(w) \/ DetectIsa(w) \/ EndKernel(w) \/ ClaimSlot(w) \/ WriteSlot(w)
  \/ Dump
StatsSpec == StatsInit /\ [][StatsNext]_statsVars
------------------------------------------------------------------------------
\* What a level needs of a machine whose system saves the registers it uses.
Executes(c, level) ==
  /\ level >= Avx2 => c.avx2 /\ c.fma /\ c.ymm
  /\ level >= Avx512 => c.avx512 /\ c.zmm
  /\ level >= Vnni => c.vnni
  /\ level >= Amx => c.amx /\ c.tiles

(***************************************************************************)
(* "Never let the override select something the CPU cannot execute"        *)
(* (vibeasr_isa): every thread is told the same level, one the processor   *)
(* and the system both support, and never above the one asked for.         *)
(***************************************************************************)
LevelRunnable ==
  \A w \in Workers : answer[w] >= 0 =>
    /\ Executes(cpu, answer[w])
    /\ forced >= 0 => answer[w] <= forced
    /\ \A v \in Workers : answer[v] \in {-1, answer[w]}

(***************************************************************************)
(* The counters are not atomic, but as long as no more threads than slots  *)
(* ever ran a kernel the dump misses none of their calls, although slots   *)
(* are handed out while others count.                                      *)
(***************************************************************************)
NoCallLost ==
  LET counted == Cardinality({w \in Workers : slot[w] >= 0})
  IN  dumped >= 0 /\ counted <= Slots => dumped = Runs * counted
==============================================================================
