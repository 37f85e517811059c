------------------------------- MODULE MCCore --------------------------------
(* The queues, the joins and another layout of the stream engine in one    *)
(* run: they share no state, and `part' is the one that is explored.       *)
EXTENDS PerCoreQueue, SpscQueue, WhenAny, WhenAll

VARIABLES part,
  \* ConcurrentStream
  s_pc, push_count, poll_next_flag, pending_status, counter, s_result, loaded,
  freed

\* All completions on one scheduler (the documented share-nothing layout).
Shared == INSTANCE ConcurrentStream WITH
  N <- 5, MaxPending <- 2, Inline <- {}, Skipped <- {}, Threads <- 0 .. 1,
  Home <- [p \in 0 .. 5 |-> IF p = 0 THEN 0 ELSE 1], pc <- s_pc, result <- s_result

perCore == <<queues_, local_q_, active_mask_, posting, calls, pc, op, word,
             mask, core, aborted>>
spsc    == <<tail_, head_, head_cache_, tail_cache_, buffer_, ppc, cpc, value, got>>
any     == <<at, submitted, flags, refs, result, pushes, left, deleted, parent_done>>
stream  == <<s_pc, push_count, poll_next_flag, pending_status, counter,
             s_result, loaded, freed>>
coreVars == <<part, perCore, spsc, any, allVars, stream>>

CoreInit ==
  /\ part \in {"per_core", "spsc", "when_any", "when_all", "shared"}
  /\ Init /\ SpscInit /\ RaceInit /\ AllInit /\ Shared!Init

PerCorePart == part = "per_core" /\ Next /\ UNCHANGED <<part, spsc, any, allVars, stream>>
SpscPart    == part = "spsc" /\ SpscNext /\ UNCHANGED <<part, perCore, any, allVars, stream>>
AnyPart     == part = "when_any" /\ RaceNext /\ UNCHANGED <<part, perCore, spsc, allVars, stream>>
AllPart     == part = "when_all" /\ AllNext /\ UNCHANGED <<part, perCore, spsc, any, stream>>
SharedPart  == part = "shared" /\ Shared!Next /\ UNCHANGED <<part, perCore, spsc, any, allVars>>

CoreNext == PerCorePart \/ SpscPart \/ AnyPart \/ AllPart \/ SharedPart

\* The fairness of each part, while it is the one explored.
CoreFairness ==
  /\ WF_coreVars(part = "per_core" /\ (Poll \/ Scan) /\ PerCorePart)
  /\ \A s \in Sources : WF_coreVars(part = "per_core" /\ Mark(s) /\ PerCorePart)
  /\ WF_coreVars(part = "spsc" /\ Consumer /\ SpscPart)
  /\ \A p \in Procs : WF_coreVars(part = "when_any" /\ Step(p) /\ AnyPart)
  /\ \A p \in Procs : WF_coreVars(part = "when_all" /\ AllStep(p) /\ AllPart)

CoreSpec == CoreInit /\ [][CoreNext]_coreVars /\ CoreFairness
-----------------------------------------------------------------------------
\* The properties of two parts at once, and of the one that is an instance.
ResultExact == part = "shared" => Shared!ResultExact
JoinsDeliver ==
  /\ part = "when_any" => Delivers
  /\ part = "when_all" => AllDeliver
=============================================================================
