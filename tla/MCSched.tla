------------------------------- MODULE MCSched -------------------------------
(* The runtime, the pipelines and coroutines it runs, and the schedulers   *)
(* of the devices, in one run: as in MCNet, `part' is the one explored.    *)
EXTENDS TaskRuntime, CoroutineBridge, NvmePages, CudaRuns, Pipeline, TLC

VARIABLE part

\* Two cores post tasks and timers to each other, and to the shared queue.
TwoCores == {"c1", "c2"}
SharedQueue == "shared"
SevenPosts ==
  [t1 |-> [kind |-> "task", to |-> "c1"], t2 |-> [kind |-> "task", to |-> "c2"],
   t3 |-> [kind |-> "task", to |-> "shared"], t4 |-> [kind |-> "task", to |-> "c1"],
   d1 |-> [kind |-> "timer", to |-> "c1"], d2 |-> [kind |-> "timer", to |-> "c1"],
   d3 |-> [kind |-> "timer", to |-> "shared"]]
Follows ==
  [t1 |-> <<"t3">>, t2 |-> <<"t4", "d2">>, t3 |-> <<"d3">>,
   t4 |-> <<>>, d1 |-> <<"t2">>, d2 |-> <<>>, d3 |-> <<>>]
OneEach   == [c1 |-> <<"t1">>, c2 |-> <<"d1">>]
InARow    == [d1 |-> 1, d2 |-> 2, d3 |-> 3]
FirstLast == [d1 |-> 2, d2 |-> 1, d3 |-> 1]

\* The coroutine.
ThreeAwaits == <<"await", "yield", "await", "await", "yield">>

\* Ops that nothing surrounds, and two that nest scopes and contexts.
Bare == <<"then", "maybe", "when_skipped", "any_exception">>
NestedOps ==
  <<"then", "flat", "push_context", "then", "flat", "push_context", "get_context",
    "any_exception", "pop_context", "then", "pop_context", "maybe", "when_skipped", "visit">>
ThreeLines ==
  {NestedOps, Bare,
   <<"push_context", "any_exception", "when_skipped", "maybe",
     "pop_context", "flat", "any_exception">>}
SkippedThrows == {<<Bare, "when_skipped">>}

\* Three reads and a write of one page; a second page with the same slot;
\* and a trim and a flush, which come with one read and the write only.
NvmeRequests ==
  [g1 |-> [op |-> "get", pos |-> 1], g2 |-> [op |-> "get", pos |-> 1],
   g3 |-> [op |-> "get", pos |-> 1], g4 |-> [op |-> "get", pos |-> 2],
   p1 |-> [op |-> "put", pos |-> 1], t1 |-> [op |-> "trim", pos |-> 1],
   f1 |-> [op |-> "flush", pos |-> 1]]
NvmeIndex == <<0, 0>>
ReadsAndWrite == {"g1", "g2", "g3", "g4", "p1"}
OneOfEach == {"g1", "p1", "t1", "f1"}

\* The works of three runs.
TwoOneTwo == [a |-> 2, b |-> 1, c |-> 2]

SchedInit ==
  /\ part \in {"runtime", "coroutine", "pipeline", "nvme", "trims", "gpu"}
  /\ RtInit /\ CoInit /\ PipelineInit /\ GpuInit
  /\ NvmeInit
  /\ part # "pipeline" => line = Bare

RtPart   == part = "runtime" /\ RtNext /\ UNCHANGED <<part, cvars, lvars, nvmevars, gvars>>
CoPart   == part = "coroutine" /\ CoNext /\ UNCHANGED <<part, rtvars, lvars, nvmevars, gvars>>
PlPart   == part = "pipeline" /\ PipelineNext /\ UNCHANGED <<part, rtvars, cvars, nvmevars, gvars>>
NvmePart == part = "nvme" /\ NvmeNext /\ begun' \subseteq ReadsAndWrite
              /\ UNCHANGED <<part, rtvars, cvars, lvars, gvars>>
TrimPart == part = "trims" /\ NvmeNext /\ begun' \subseteq OneOfEach
              /\ UNCHANGED <<part, rtvars, cvars, lvars, gvars>>
GpuPart  == part = "gpu" /\ GpuNext /\ UNCHANGED <<part, rtvars, cvars, lvars, nvmevars>>

SchedNext == RtPart \/ CoPart \/ PlPart \/ NvmePart \/ TrimPart \/ GpuPart

SchedSpec == SchedInit /\ [][SchedNext]_<<part, rtvars, cvars, lvars, nvmevars, gvars>>
-----------------------------------------------------------------------------
\* The properties of the parts, stated in their modules.
EveryRequestEnds ==
  CASE part = "runtime" -> RequestsRun /\ RunOnce
    [] part = "coroutine" -> CanGoOnIsEnabled
    [] part = "pipeline" -> SignalArrives
    [] part \in {"nvme", "trims"} -> NvmeAnswered
    [] part = "gpu" -> RunsAnswered
    [] OTHER            -> TRUE
=============================================================================
