------------------------------ MODULE SchedProofs ------------------------------
(***************************************************************************)
(* Three places where a caller waits for what somebody else started, and   *)
(* the pipelines that they are part of.                                    *)
(*                                                                         *)
(* CoroutineBridge: on the core that awaits, the plain fields completed,   *)
(* in_await_suspend and continuation are enough for one of complete() and  *)
(* await_suspend() to let the coroutine go on, and for only one of them    *)
(* (AwaitedOnce for every coroutine body).                                 *)
(*                                                                         *)
(* NvmePages: a read that rides on another gets what its page held since   *)
(* that one was submitted, for any requests, device and size of the table  *)
(* (PagesTrue); once the queues are empty nobody waits (AnsweredOnce).     *)
(*                                                                         *)
(* CudaRuns: an event that the scheduler reuses stands for the work it was *)
(* recorded behind, and a block that it reuses holds the data of the work  *)
(* that the stream has come to, for any runs and any works (RunsTrue); no  *)
(* run is left when the queues and the stream are empty (NoneWaits).       *)
(*                                                                         *)
(* Pipeline: one signal reaches the receiver of a pipeline of any length,  *)
(* whatever is nested in it, after all it allocated has been freed         *)
(* (SignalledOnce), and when no op can take a signal it has got there      *)
(* (ReceiverCalled).                                                       *)
(*                                                                         *)
(* TaskRuntime: what is posted to a core or to all of them runs on one     *)
(* core, once, for any cores and requests (RunOnce), and none is forgotten *)
(* when the cores find nothing more (AcceptedRun).                         *)
(***************************************************************************)
EXTENDS TaskRuntime, CoroutineBridge, NvmePages, CudaRuns, Pipeline, FiniteSetTheorems,
        WellFoundedInduction, SequenceTheorems, TLAPS

-----------------------------------------------------------------------------
(* The coroutine.                                                          *)

Outcomes == {"none", "value", "exception", "skip", "done"}

CoType ==
  /\ pc \in 1 .. Len(Body) + 1
  /\ frame \in {"suspended", "running", "awaiting", "done"}
  /\ suspend \in [Awaits -> {"no", "starting", "returning"}]
  /\ state \in [Awaits -> [completed : BOOLEAN, in_await_suspend : BOOLEAN,
                           continuation : BOOLEAN, outcome : Outcomes]]
  /\ sender \in [Awaits -> {"idle", "started", "finished"}]
  /\ took \in [Awaits -> Seq(Outcomes)]

\* One await at a time, the one the body has come to.
OneInUse == \A i \in Awaits : InUse(i) => frame = "awaiting" /\ pc = i

\* The awaits to come are untouched.
FutureIdle ==
  \A i \in Awaits : (i > pc \/ (i = pc /\ frame # "awaiting")) => sender[i] = "idle"

\* Of complete() and await_suspend(), the one that comes second goes on.
SecondGoesOn ==
  \A i \in Awaits :
    /\ sender[i] = "idle" => suspend[i] = "no" /\ ~state[i].completed
    /\ suspend[i] = "starting" <=> state[i].in_await_suspend
    /\ ~state[i].completed \/ suspend[i] # "no" => took[i] = <<>>
    /\ took[i] \in {<<>>, <<state[i].outcome>>}

\* An await that the coroutine is suspended in is in use, its scope is kept
\* alive as long, and its sender finds the coroutine to go on with.
HeldInUse ==
  /\ frame = "suspended" => caller = "nobody"
  /\ frame = "awaiting" => pc \in Awaits /\ InUse(pc)
  /\ scope_held = IF frame = "awaiting" THEN {pc} ELSE {}
  /\ \A i \in Awaits : /\ sender[i] = "started" => state[i].continuation
                       /\ sender[i] = "finished" <=> state[i].completed

CoInv == CoType /\ OneInUse /\ FutureIdle /\ SecondGoesOn /\ HeldInUse

LEMMA AwaitsFacts ==
  ASSUME NEW i \in Awaits
  PROVE  i \in Nat /\ i >= 1 /\ i <= Len(Body) /\ i + 1 \in 1 .. Len(Body) + 1
  BY BodyAssumption DEF Awaits

LEMMA InitCoInv == CoInit => CoInv
<1> SUFFICES ASSUME CoInit PROVE CoInv
  OBVIOUS
<1>1. CoType
  BY BodyAssumption DEF CoInit, CoType, Outcomes
<1>2. OneInUse /\ FutureIdle /\ SecondGoesOn /\ HeldInUse
  BY DEF CoInit, OneInUse, InUse, FutureIdle, SecondGoesOn, HeldInUse
<1> QED BY <1>1, <1>2 DEF CoInv

LEMMA NextCoInv ==
  ASSUME OwnCore, CoInv, [CoNext]_cvars
  PROVE  CoInv'
<1>0. CoType /\ OneInUse /\ FutureIdle /\ SecondGoesOn /\ HeldInUse
  BY DEF CoInv
<1>1. CASE UNCHANGED cvars
  BY <1>0, <1>1 DEF cvars, CoInv, CoType, OneInUse, InUse, FutureIdle, SecondGoesOn, HeldInUse
<1>2. CASE OwnerResumes
  BY <1>0, <1>2 DEF OwnerResumes, CoInv, CoType, OneInUse, InUse, FutureIdle, SecondGoesOn, HeldInUse
<1>3. CASE Yield
  <2>1. pc' = pc + 1 /\ pc' \in 1 .. Len(Body) + 1 /\ pc \notin Awaits
    BY <1>0, <1>3, BodyAssumption DEF Yield, CoType, Awaits
  <2>2. FutureIdle'
    BY <1>0, <1>3, <2>1, AwaitsFacts DEF Yield, FutureIdle, CoType
  <2> QED BY <1>0, <1>3, <2>1, <2>2 DEF Yield, CoInv, CoType, OneInUse, InUse, SecondGoesOn, HeldInUse
<1>4. CASE Return
  BY <1>0, <1>4 DEF Return, CoInv, CoType, OneInUse, InUse, FutureIdle, SecondGoesOn, HeldInUse
<1>5. CASE AwaitSuspend
  <2>1. pc \in Awaits /\ frame = "running" /\ sender[pc] = "idle"
    BY <1>0, <1>5 DEF AwaitSuspend, FutureIdle
  <2>2. CoType'
    <3>1. /\ pc' \in 1 .. Len(Body) + 1 /\ frame' \in {"suspended", "running", "awaiting", "done"}
          /\ took' \in [Awaits -> Seq(Outcomes)]
      BY <1>0, <1>5 DEF AwaitSuspend, CoType
    <3>2. suspend' \in [Awaits -> {"no", "starting", "returning"}]
      BY <1>0, <1>5 DEF AwaitSuspend, CoType
    <3>3. sender' \in [Awaits -> {"idle", "started", "finished"}]
      BY <1>0, <1>5 DEF AwaitSuspend, CoType
    <3>4. state' \in [Awaits -> [completed : BOOLEAN, in_await_suspend : BOOLEAN,
                                 continuation : BOOLEAN, outcome : Outcomes]]
      <4>1. PICK R : R = [completed : BOOLEAN, in_await_suspend : BOOLEAN,
                          continuation : BOOLEAN, outcome : Outcomes]
        OBVIOUS
      <4>2. state \in [Awaits -> R]
        BY <1>0, <4>1 DEF CoType
      <4>3. PICK s : s = [state[pc] EXCEPT !.continuation = TRUE, !.in_await_suspend = TRUE]
        OBVIOUS
      <4>4. s \in R
        BY <2>1, <4>1, <4>2, <4>3
      <4>5. state' = [state EXCEPT ![pc] = s]
        BY <1>5, <2>1, <4>2, <4>3 DEF AwaitSuspend
      <4> QED BY <2>1, <4>1, <4>2, <4>4, <4>5
    <3> QED BY <3>1, <3>2, <3>3, <3>4 DEF CoType
  <2>3. OneInUse'
    BY <1>0, <1>5, <2>1 DEF AwaitSuspend, OneInUse, InUse, CoType
  <2>4. FutureIdle'
    BY <1>0, <1>5, <2>1, AwaitsFacts DEF AwaitSuspend, FutureIdle, CoType
  <2>5. SecondGoesOn'
    BY <1>0, <1>5, <2>1 DEF AwaitSuspend, SecondGoesOn, CoType
  <2>6. HeldInUse'
    <3>1. ~state[pc].completed
      BY <1>0, <2>1 DEF SecondGoesOn
    <3>2. InUse(pc)' /\ pc' = pc /\ frame' = "awaiting" /\ scope_held' = {pc}
      BY <1>0, <1>5, <2>1 DEF AwaitSuspend, InUse, HeldInUse, CoType
    <3>3. \A i \in Awaits : /\ (sender[i] = "started" => state[i].continuation)'
                            /\ (sender[i] = "finished" <=> state[i].completed)'
      BY <1>0, <1>5, <2>1, <3>1 DEF AwaitSuspend, HeldInUse, CoType
    <3> QED BY <2>1, <3>2, <3>3 DEF HeldInUse
  <2> QED BY <2>2, <2>3, <2>4, <2>5, <2>6 DEF CoInv
<1>6. ASSUME NEW i \in Awaits, Complete(i)
      PROVE  CoInv'
  <2>1. sender[i] = "started" /\ ~state[i].completed /\ suspend[i] # "returning"
    BY <1>6 DEF Complete
  <2>2. frame = "awaiting" /\ pc = i /\ took[i] = <<>>
    BY <1>0, <2>1 DEF OneInUse, InUse, SecondGoesOn
  <2>3. PICK how \in {"value", "exception", "skip", "done"} :
          /\ state' = [state EXCEPT ![i].completed = TRUE,
                                    ![i].outcome = how,
                                    ![i].continuation = @ /\ ~Resumes(i)]
          /\ IF Resumes(i)
             THEN AwaitResume(i, how) /\ caller' = "sender"
             ELSE UNCHANGED <<caller, frame, pc, took, scope_held, thrown>>
    BY <1>6 DEF Complete
  <2>4. sender' = [sender EXCEPT ![i] = "finished"] /\ UNCHANGED suspend
    BY <1>6 DEF Complete
  <2>5. /\ state' \in [Awaits -> [completed : BOOLEAN, in_await_suspend : BOOLEAN,
                                  continuation : BOOLEAN, outcome : Outcomes]]
        /\ state'[i].completed /\ state'[i].outcome = how
        /\ state'[i].in_await_suspend = state[i].in_await_suspend
        /\ \A j \in Awaits : j # i => state'[j] = state[j]
    <3> DEFINE goes == state[i].continuation /\ ~Resumes(i)
               Told == [completed : BOOLEAN, in_await_suspend : BOOLEAN,
                        continuation : BOOLEAN, outcome : Outcomes]
               told == [state[i] EXCEPT !.completed = TRUE, !.outcome = how, !.continuation = goes]
    <3>1. goes \in BOOLEAN /\ how \in Outcomes
      BY DEF Outcomes
    <3>2. state \in [Awaits -> Told] /\ state[i] \in Told
      BY <1>0 DEF CoType
    <3>3. state' = [state EXCEPT ![i] = told]
      BY <2>3, <3>2
    <3> HIDE DEF goes
    <3>4. told \in Told /\ told.completed /\ told.outcome = how
          /\ told.in_await_suspend = state[i].in_await_suspend
      BY <3>1, <3>2
    <3> HIDE DEF told, Told
    <3>5. /\ state' \in [Awaits -> Told] /\ state'[i] = told
          /\ \A j \in Awaits : j # i => state'[j] = state[j]
      BY <3>2, <3>3, <3>4
    <3> QED BY <3>4, <3>5 DEF Told
  <2>6. CASE Resumes(i)
    <3>1. suspend[i] = "no"
      BY <1>0, <2>1, <2>6 DEF Resumes, SecondGoesOn, CoType
    <3>2. took' = [took EXCEPT ![i] = Append(@, how)]
      BY <2>3, <2>6 DEF AwaitResume
    <3>3. took' = [took EXCEPT ![i] = <<how>>]
      BY <1>0, <2>2, <3>2 DEF CoType
    <3>4. /\ frame' \in {"running", "done"} /\ pc' \in {i + 1, Len(Body) + 1}
          /\ pc' \in 1 .. Len(Body) + 1 /\ pc' > i
      BY <2>3, <2>6, AwaitsFacts, BodyAssumption DEF AwaitResume
    <3>5. CoType'
      BY <1>0, <2>4, <2>5, <3>3, <3>4 DEF CoType, Outcomes
    <3>6. \A j \in Awaits : ~InUse(j)'
      BY <1>0, <2>2, <2>4, <2>5, <3>1 DEF OneInUse, InUse, CoType
    <3>7. FutureIdle'
      BY <1>0, <2>2, <2>4, <3>4, AwaitsFacts DEF FutureIdle, CoType
    <3>8. SecondGoesOn'
      BY <1>0, <2>1, <2>4, <2>5, <3>1, <3>3 DEF SecondGoesOn, CoType
    <3>9. HeldInUse'
      <4>1. frame' \in {"running", "done"} /\ scope_held' = {}
        BY <1>0, <2>2, <2>3, <2>6 DEF AwaitResume, HeldInUse
      <4>2. \A j \in Awaits : /\ (sender[j] = "started" => state[j].continuation)'
                              /\ (sender[j] = "finished" <=> state[j].completed)'
        BY <1>0, <2>4, <2>5 DEF HeldInUse, CoType
      <4> QED BY <4>1, <4>2 DEF HeldInUse
    <3> QED BY <3>5, <3>6, <3>7, <3>8, <3>9 DEF CoInv, OneInUse
  <2>7. CASE ~Resumes(i)
    <3>1. UNCHANGED <<frame, pc, took>>
      BY <2>3, <2>7
    <3>2. CoType'
      BY <1>0, <2>4, <2>5, <3>1 DEF CoType
    <3>3. OneInUse' /\ FutureIdle'
      BY <1>0, <2>2, <2>4, <2>5, <3>1, AwaitsFacts DEF OneInUse, InUse, FutureIdle, CoType
    <3>4. SecondGoesOn'
      BY <1>0, <2>1, <2>2, <2>4, <2>5, <3>1 DEF SecondGoesOn, CoType
    <3>5. HeldInUse'
      <4>1. state[i].continuation
        BY <1>0, <2>1 DEF HeldInUse
      <4>2. suspend[i] = "starting"
        BY <1>0, <2>7, <4>1 DEF Resumes, SecondGoesOn
      <4>3. UNCHANGED <<frame, pc, scope_held>> /\ InUse(pc)'
        BY <2>2, <2>3, <2>4, <2>7, <4>2 DEF InUse
      <4>4. \A j \in Awaits : /\ (sender[j] = "started" => state[j].continuation)'
                              /\ (sender[j] = "finished" <=> state[j].completed)'
        BY <1>0, <2>4, <2>5 DEF HeldInUse, CoType
      <4> QED BY <1>0, <2>2, <4>3, <4>4 DEF HeldInUse
    <3> QED BY <3>2, <3>3, <3>4, <3>5 DEF CoInv
  <2> QED BY <2>6, <2>7
<1>7. ASSUME NEW i \in Awaits, StartReturns(i)
      PROVE  CoInv'
  <2>1. CoType'
    BY <1>0, <1>7 DEF StartReturns, CoType
  <2>2. OneInUse' /\ FutureIdle'
    BY <1>0, <1>7 DEF StartReturns, OneInUse, InUse, FutureIdle, CoType
  <2>3. SecondGoesOn'
    BY <1>0, <1>7 DEF StartReturns, SecondGoesOn, CoType
  <2>4. HeldInUse'
    BY <1>0, <1>7 DEF StartReturns, HeldInUse, InUse, CoType
  <2> QED BY <2>1, <2>2, <2>3, <2>4 DEF CoInv
<1>8. ASSUME NEW i \in Awaits, AwaitReturns(i)
      PROVE  CoInv'
  <2>1. /\ suspend[i] = "returning" /\ suspend' = [suspend EXCEPT ![i] = "no"]
        /\ UNCHANGED <<state, sender>>
    BY <1>8 DEF AwaitReturns
  <2>2. frame = "awaiting" /\ pc = i /\ took[i] = <<>>
    BY <1>0, <2>1 DEF OneInUse, InUse, SecondGoesOn
  <2>3. CASE StaysSuspended(i)
    <3>1. UNCHANGED <<pc, frame, took>>
      BY <1>8, <2>3 DEF AwaitReturns
    <3>2. CoType' /\ OneInUse' /\ FutureIdle'
      BY <1>0, <2>1, <2>2, <3>1 DEF CoType, OneInUse, InUse, FutureIdle
    <3>3. SecondGoesOn'
      BY <1>0, <2>1, <2>2, <2>3, <3>1 DEF SecondGoesOn, StaysSuspended, CoType
    <3>4. HeldInUse'
      <4>1. sender[i] = "started" /\ ~state[i].completed
        BY <1>0, <2>1, <2>3 DEF StaysSuspended, SecondGoesOn, HeldInUse, CoType
      <4>2. UNCHANGED scope_held
        BY <1>8, <2>3 DEF AwaitReturns
      <4> QED BY <1>0, <2>1, <2>2, <3>1, <4>1, <4>2 DEF HeldInUse, InUse, CoType
    <3> QED BY <3>2, <3>3, <3>4 DEF CoInv
  <2>4. CASE ~StaysSuspended(i)
    <3>1. state[i].completed /\ AwaitResume(i, state[i].outcome)
      BY <1>8, <2>4 DEF AwaitReturns, StaysSuspended
    <3>2. took' = [took EXCEPT ![i] = <<state[i].outcome>>]
      BY <1>0, <2>2, <3>1 DEF AwaitResume, CoType
    <3>3. /\ frame' \in {"running", "done"} /\ pc' \in {i + 1, Len(Body) + 1}
          /\ pc' \in 1 .. Len(Body) + 1 /\ pc' > i
      BY <3>1, AwaitsFacts, BodyAssumption DEF AwaitResume
    <3>4. CoType'
      BY <1>0, <2>1, <3>2, <3>3 DEF CoType
    <3>5. \A j \in Awaits : ~InUse(j)'
      BY <1>0, <2>1, <2>2, <3>1 DEF OneInUse, InUse, CoType
    <3>6. FutureIdle'
      BY <1>0, <2>1, <2>2, <3>3, AwaitsFacts DEF FutureIdle, CoType
    <3>7. SecondGoesOn'
      BY <1>0, <2>1, <3>1, <3>2 DEF SecondGoesOn, CoType
    <3>8. HeldInUse'
      <4>1. frame' \in {"running", "done"} /\ scope_held' = {}
        BY <1>0, <2>2, <3>1 DEF AwaitResume, HeldInUse
      <4> QED BY <1>0, <2>1, <4>1 DEF HeldInUse
    <3> QED BY <3>4, <3>5, <3>6, <3>7, <3>8 DEF CoInv, OneInUse
  <2> QED BY <2>3, <2>4
<1> QED BY <1>1, <1>2, <1>3, <1>4, <1>5, <1>6, <1>7, <1>8 DEF CoNext

(* A coroutine goes on at most once after each co_await, with the signal of *)
(* its sender, and when nobody is left to go on it has run to its end and  *)
(* every awaitable has freed its scope: whatever its body awaits and       *)
(* yields, as long as senders complete on its core.                        *)
THEOREM CoroutineGoesOnOnce == OwnCore => (CoSpec => []AwaitedOnce)
<1> SUFFICES ASSUME OwnCore PROVE CoSpec => []AwaitedOnce
  OBVIOUS
<1>1. CoInit => CoInv
  BY InitCoInv
<1>2. CoInv /\ [CoNext]_cvars => CoInv'
  BY NextCoInv
<1>3. CoInv => AwaitedOnce
  <2> SUFFICES ASSUME CoInv PROVE AwaitedOnce
    OBVIOUS
  <2>1. TookOnce
    BY DEF CoInv, SecondGoesOn, TookOnce
  <2>2. ~CanGoOn => frame = "done"
    BY DEF CoInv, CoType, HeldInUse, CanGoOn
  <2>3. frame = "done" => scope_held = {}
    BY DEF CoInv, HeldInUse
  <2> QED BY <2>1, <2>2, <2>3 DEF AwaitedOnce
<1> QED BY <1>1, <1>2, <1>3, PTL DEF CoSpec

-----------------------------------------------------------------------------
(* The pages.                                                              *)

\* What is left of a queue when its head is taken.
LEMMA TailIs ==
  ASSUME NEW S, NEW s \in Seq(S), s # <<>>
  PROVE  /\ Head(s) \in Range(s) /\ Head(s) \in S
         /\ Tail(s) \in Seq(S) /\ Range(Tail(s)) \subseteq Range(s)
         /\ IsInjective(s) => IsInjective(Tail(s)) /\ Head(s) \notin Range(Tail(s))
<1>1. /\ Head(s) = s[1] /\ Tail(s) \in Seq(S) /\ Len(s) \in Nat \ {0}
      /\ Len(Tail(s)) = Len(s) - 1 /\ \A i \in 1 .. Len(s) - 1 : Tail(s)[i] = s[i + 1]
  OBVIOUS
<1>2. DOMAIN s = 1 .. Len(s) /\ DOMAIN Tail(s) = 1 .. Len(s) - 1
  BY <1>1
<1>3. \A i \in DOMAIN Tail(s) : i + 1 \in DOMAIN s /\ i + 1 # 1 /\ Tail(s)[i] = s[i + 1]
  BY <1>1, <1>2
<1>4. 1 \in DOMAIN s /\ \A i \in DOMAIN s : s[i] \in S
  BY <1>1, <1>2
<1>5. IsInjective(s) => Head(s) \notin Range(Tail(s))
  BY <1>1, <1>3, <1>4 DEF IsInjective, Range
<1>6. IsInjective(s) => IsInjective(Tail(s))
  <2> SUFFICES ASSUME IsInjective(s), NEW i \in DOMAIN Tail(s), NEW j \in DOMAIN Tail(s),
                      Tail(s)[i] = Tail(s)[j]
               PROVE  i = j
    BY DEF IsInjective
  <2>1. i + 1 = j + 1
    BY <1>3 DEF IsInjective
  <2> QED BY <1>1, <1>2, <2>1
<1> QED BY <1>1, <1>3, <1>4, <1>5, <1>6 DEF Range

\* What a queue holds when x has joined it.
LEMMA AppendIs ==
  ASSUME NEW S, NEW s \in Seq(S), NEW x \in S
  PROVE  /\ Append(s, x) \in Seq(S) /\ Range(Append(s, x)) = Range(s) \cup {x}
         /\ IsInjective(s) /\ x \notin Range(s) => IsInjective(Append(s, x))
<1>1. /\ Append(s, x) \in Seq(S) /\ Len(s) \in Nat /\ DOMAIN s = 1 .. Len(s)
      /\ DOMAIN Append(s, x) = 1 .. Len(s) + 1
      /\ Append(s, x)[Len(s) + 1] = x /\ \A i \in 1 .. Len(s) : Append(s, x)[i] = s[i]
  OBVIOUS
<1>2. \A i \in 1 .. Len(s) + 1 : i \in 1 .. Len(s) \/ i = Len(s) + 1
  BY <1>1
<1>3. Range(Append(s, x)) = Range(s) \cup {x}
  <2>1. Range(Append(s, x)) \subseteq Range(s) \cup {x}
    BY <1>1, <1>2 DEF Range
  <2>2. \A i \in 1 .. Len(s) : i \in 1 .. Len(s) + 1
    BY <1>1
  <2>3. Len(s) + 1 \in 1 .. Len(s) + 1
    BY <1>1
  <2>4. Range(s) \cup {x} \subseteq Range(Append(s, x))
    BY <1>1, <2>2, <2>3 DEF Range
  <2> QED BY <2>1, <2>4
<1>4. IsInjective(s) /\ x \notin Range(s) => IsInjective(Append(s, x))
  BY <1>1, <1>2 DEF IsInjective, Range
<1> QED BY <1>1, <1>3, <1>4

\* A set of numbers has a least one.
LEMMA LeastIs ==
  ASSUME NEW S \in SUBSET Nat, S # {}
  PROVE  Min(S) \in S /\ \A y \in S : Min(S) <= y
<1> DEFINE Below == {pair \in Nat \X Nat : pair[1] < pair[2]}
<1>1. IsWellFoundedOn(Below, Nat)
  BY NatLessThanWellFounded DEF OpToRel
<1>2. PICK x \in S : \A y \in S : <<y, x>> \notin Below
  BY <1>1, WFMin
<1>3. ASSUME NEW y \in S PROVE x <= y
  <2>1. x \in Nat /\ y \in Nat /\ ~(<<y, x>>[1] < <<y, x>>[2])
    BY <1>2
  <2> QED BY <2>1
<1> QED BY <1>3 DEF Min

-----------------------------------------------------------------------------
(* The table.                                                              *)

\* Probing stays in the table.
LEMMA ProbeIs == ASSUME NEW p \in Positions, NEW i \in Probes PROVE Probe(p, i) \in SlotIds
<1>1. Index[p] + i \in Nat /\ TableSize \in Nat \ {0}
  BY NvmeAssumption DEF Probes, Positions
<1> QED BY <1>1 DEF Probe, SlotIds

\* find() returns a slot of the page, if there is one.
LEMMA FindIs ==
  ASSUME NvmeTypeOK, NEW p \in Positions
  PROVE  /\ Find(p) = None \/ Find(p) \in Slots(p)
         /\ ChainInv /\ Find(p) = None => Slots(p) = {}
<1> DEFINE hits == {i \in Probes : /\ slots[Probe(p, i)].state = "OCCUPIED"
                                  /\ slots[Probe(p, i)].pos = p
                                  /\ \A j \in 0 .. i - 1 : slots[Probe(p, j)].state # "EMPTY"}
<1>1. Find(p) = IF hits = {} THEN None ELSE Probe(p, Min(hits))
  BY DEF Find
<1>2. hits \in SUBSET Nat
  BY NvmeAssumption DEF Probes
<1>3. \A i \in hits : Probe(p, i) \in Slots(p)
  BY ProbeIs DEF Slots
<1>4. ChainInv /\ hits = {} => Slots(p) = {}
  BY DEF ChainInv, Slots
<1>5. \A s \in SlotIds : s # None
  BY DEF SlotIds, None
<1> HIDE DEF hits
<1>6. hits # {} => Probe(p, Min(hits)) \in Slots(p)
  BY <1>2, <1>3, LeastIs
<1> QED BY <1>1, <1>4, <1>5, <1>6 DEF Slots

\* insert() takes a slot that nothing occupies and that is reached.
LEMMA InsertedIs ==
  ASSUME NEW p \in Positions
  PROVE  \/ Inserted(p) = slots
         \/ \E s \in SlotIds :
              /\ slots[s].state # "OCCUPIED"
              /\ Inserted(p) = [slots EXCEPT ![s] = [state |-> "OCCUPIED", pos |-> p, waiters |-> <<>>]]
              /\ \E i \in Probes : /\ s = Probe(p, i)
                                   /\ \A j \in 0 .. i - 1 : slots[Probe(p, j)].state = "OCCUPIED"
<1> DEFINE free == {i \in Probes : slots[Probe(p, i)].state # "OCCUPIED"}
           i == Min(free)
<1>1. CASE free = {}
  BY <1>1 DEF Inserted
<1>2. CASE free # {}
  <2>1. free \in SUBSET Nat
    BY NvmeAssumption DEF Probes
  <2>2. i \in free /\ \A j \in free : i <= j
    <3> HIDE DEF free
    <3> QED BY <1>2, <2>1, LeastIs
  <2>3. Inserted(p) = [slots EXCEPT ![Probe(p, i)] = [state |-> "OCCUPIED", pos |-> p, waiters |-> <<>>]]
    BY <1>2 DEF Inserted
  <2> HIDE DEF i
  <2>4. i \in Probes /\ slots[Probe(p, i)].state # "OCCUPIED" /\ Probe(p, i) \in SlotIds
    BY <2>2, ProbeIs
  <2>5. ASSUME NEW j \in 0 .. i - 1 PROVE slots[Probe(p, j)].state = "OCCUPIED"
    <3>1. j \in Probes /\ j < i /\ i \in Nat /\ j \in Nat
      BY <2>4, NvmeAssumption DEF Probes
    <3>2. j \notin free
      <4> HIDE DEF free
      <4> QED BY <2>2, <3>1
    <3> QED BY <3>1, <3>2
  <2> QED BY <2>3, <2>4, <2>5
<1> QED BY <1>1, <1>2

\* No slot becomes empty, and a page that comes into a slot is found there.
LEMMA ChainKept ==
  ASSUME ChainInv, \A s \in SlotIds : slots[s].state # "EMPTY" => slots'[s].state # "EMPTY",
         \A s \in SlotIds : slots'[s].state = "OCCUPIED" =>
            \/ slots[s].state = "OCCUPIED" /\ slots'[s].pos = slots[s].pos
            \/ /\ slots'[s].pos \in Positions
               /\ \E i \in Probes : /\ s = Probe(slots'[s].pos, i)
                                    /\ \A j \in 0 .. i - 1 : slots[Probe(slots'[s].pos, j)].state # "EMPTY"
  PROVE  ChainInv'
<1> SUFFICES ASSUME NEW s \in SlotIds, slots'[s].state = "OCCUPIED"
             PROVE  /\ slots'[s].pos \in Positions
                    /\ \E i \in Probes : /\ s = Probe(slots'[s].pos, i)
                                         /\ \A j \in 0 .. i - 1 : slots'[Probe(slots'[s].pos, j)].state # "EMPTY"
  BY DEF ChainInv
<1>1. /\ slots'[s].pos \in Positions
      /\ \E i \in Probes : /\ s = Probe(slots'[s].pos, i)
                           /\ \A j \in 0 .. i - 1 : slots[Probe(slots'[s].pos, j)].state # "EMPTY"
  BY DEF ChainInv
<1>2. \A i \in Probes : \A j \in 0 .. i - 1 : j \in Probes
  BY NvmeAssumption DEF Probes
<1> QED BY <1>1, <1>2, ProbeIs

\* A slot more and a read more.
LEMMA OneMore ==
  ASSUME NEW A, NEW B, IsFiniteSet(A), IsFiniteSet(B), Cardinality(A) <= Cardinality(B),
         NEW x, NEW y, y \notin B, NEW C, C \subseteq A \cup {x}
  PROVE  Cardinality(C) <= Cardinality(B \cup {y})
<1>1. /\ IsFiniteSet(A \cup {x}) /\ Cardinality(A \cup {x}) <= Cardinality(A) + 1
      /\ Cardinality(B \cup {y}) = Cardinality(B) + 1
      /\ Cardinality(A) \in Nat /\ Cardinality(B) \in Nat /\ Cardinality(A \cup {x}) \in Nat
  <2>1. /\ IsFiniteSet(A \cup {x}) /\ Cardinality(B \cup {y}) = Cardinality(B) + 1
        /\ Cardinality(A \cup {x}) = IF x \in A THEN Cardinality(A) ELSE Cardinality(A) + 1
    BY FS_AddElement
  <2>2. Cardinality(A) \in Nat /\ Cardinality(B) \in Nat /\ Cardinality(A \cup {x}) \in Nat
    BY <2>1, FS_CardinalityType
  <2> QED BY <2>1, <2>2
<1>2. Cardinality(C) <= Cardinality(A \cup {x}) /\ Cardinality(C) \in Nat
  BY <1>1, FS_Subset, FS_CardinalityType
<1> QED BY <1>1, <1>2

\* One less of each.
LEMMA OneLess ==
  ASSUME NEW A, NEW B, IsFiniteSet(A), IsFiniteSet(B), Cardinality(A) <= Cardinality(B),
         NEW x, NEW y, x \in A \/ A = {}, NEW C, C \subseteq A \ {x}
  PROVE  Cardinality(C) <= Cardinality(B \ {y})
<1>1. /\ Cardinality(B \ {y}) \in Nat /\ Cardinality(B \ {y}) >= Cardinality(B) - 1
      /\ Cardinality(A) \in Nat /\ Cardinality(B) \in Nat
  <2>1. /\ IsFiniteSet(B \ {y})
        /\ Cardinality(B \ {y}) = IF y \in B THEN Cardinality(B) - 1 ELSE Cardinality(B)
    BY FS_RemoveElement
  <2>2. Cardinality(A) \in Nat /\ Cardinality(B) \in Nat /\ Cardinality(B \ {y}) \in Nat
    BY <2>1, FS_CardinalityType
  <2> QED BY <2>1, <2>2
<1>2. CASE x \in A
  <2>1. IsFiniteSet(A \ {x}) /\ Cardinality(A \ {x}) = Cardinality(A) - 1
    BY <1>2, FS_RemoveElement
  <2>2. Cardinality(C) <= Cardinality(A \ {x}) /\ Cardinality(C) \in Nat
    BY <2>1, FS_Subset, FS_CardinalityType
  <2> QED BY <1>1, <2>1, <2>2
<1>3. CASE A = {}
  <2>1. C = {}
    BY <1>3
  <2> QED BY <1>1, <2>1, FS_EmptySet
<1> QED BY <1>2, <1>3

\* One that goes makes room for one that comes.
LEMMA OneForOne ==
  ASSUME NEW A, IsFiniteSet(A), NEW x, NEW y \in A, NEW C, C \subseteq (A \cup {x}) \ {y}
  PROVE  Cardinality(C) <= Cardinality(A)
<1>1. /\ IsFiniteSet(A \cup {x}) /\ Cardinality(A \cup {x}) <= Cardinality(A) + 1
      /\ Cardinality(A) \in Nat /\ Cardinality(A \cup {x}) \in Nat
  <2>1. /\ IsFiniteSet(A \cup {x})
        /\ Cardinality(A \cup {x}) = IF x \in A THEN Cardinality(A) ELSE Cardinality(A) + 1
    BY FS_AddElement
  <2>2. Cardinality(A) \in Nat /\ Cardinality(A \cup {x}) \in Nat
    BY <2>1, FS_CardinalityType
  <2> QED BY <2>1, <2>2
<1>2. IsFiniteSet((A \cup {x}) \ {y}) /\ Cardinality((A \cup {x}) \ {y}) = Cardinality(A \cup {x}) - 1
  BY <1>1, FS_RemoveElement
<1>3. Cardinality(C) <= Cardinality((A \cup {x}) \ {y}) /\ Cardinality(C) \in Nat
  BY <1>2, FS_Subset, FS_CardinalityType
<1> QED BY <1>1, <1>2, <1>3

\* What is counted is finite.
LEMMA TableFinite ==
  ASSUME NvmeTypeOK, NEW p
  PROVE  IsFiniteSet(SlotIds) /\ IsFiniteSet(Slots(p)) /\ IsFiniteSet(Reads(p))
<1>1. IsFiniteSet(SlotIds)
  <2>1. 0 \in Int /\ TableSize - 1 \in Int
    BY NvmeAssumption
  <2> QED BY <2>1, FS_Interval DEF SlotIds
<1>2. Slots(p) \subseteq SlotIds /\ Reads(p) \subseteq flying
  BY DEF Slots, Reads
<1> QED BY <1>1, <1>2, FS_Subset DEF NvmeTypeOK

-----------------------------------------------------------------------------
(* Requests.                                                               *)

\* What waits are requests.
LEMMA QueueTypes ==
  ASSUME NvmeTypeOK, NEW o \in Ops
  PROVE  /\ req_queue[o] \in Seq(Requests) /\ local_q[o] \in Seq(Requests)
         /\ Range(req_queue[o]) \subseteq Requests /\ Range(local_q[o]) \subseteq Requests
<1>1. req_queue[o] \in Seq(Requests) /\ local_q[o] \in Seq(Requests)
  BY DEF NvmeTypeOK
<1>2. \A q \in Seq(Requests) : Range(q) \subseteq Requests
  BY DEF Range
<1> QED BY <1>1, <1>2

\* The queues are left alone, and what comes out of the device is not queued.
LEMMA QueuesKept ==
  ASSUME NvmeTypeOK, QueueInv, UNCHANGED <<req_queue, local_q, begun>>,
         \A x \in Requests : Unanswered(x) /\ ~Out(x) => outcome'[x] = outcome[x] /\ ~Out(x)'
  PROVE  QueueInv'
<1>1. \A o \in Ops : Queued(o) \subseteq Requests
  BY QueueTypes DEF Queued
<1> QED BY <1>1 DEF QueueInv, Queued, Unanswered

\* The head of a ring is taken.
LEMMA TakenIs ==
  ASSUME NvmeTypeOK, QueueInv, NEW o \in Ops, local_q[o] # <<>>
  PROVE  LET r == Head(local_q[o]) IN
         /\ r \in Requests /\ Request[r].op = o /\ Request[r].pos \in Positions
         /\ Unanswered(r) /\ ~Out(r)
<1>1. Head(local_q[o]) \in Range(local_q[o]) /\ Head(local_q[o]) \in Requests
  BY QueueTypes, TailIs
<1> QED BY <1>1, NvmeAssumption DEF QueueInv, Queued, Requests, Positions

\* The others wait on.
LEMMA TakenKeeps ==
  ASSUME NvmeTypeOK, QueueInv, NEW o \in Ops, local_q[o] # <<>>,
         local_q' = [local_q EXCEPT ![o] = Tail(@)], UNCHANGED <<req_queue, begun>>,
         \A x \in Requests : x # Head(local_q[o]) /\ Unanswered(x) /\ ~Out(x) =>
            outcome'[x] = outcome[x] /\ ~Out(x)'
  PROVE  QueueInv' /\ local_q' \in [Ops -> Seq(Requests)]
<1> DEFINE r == Head(local_q[o])
           q == Tail(local_q[o])
<1>1. /\ q \in Seq(Requests) /\ Range(q) \subseteq Range(local_q[o]) /\ r \in Range(local_q[o])
      /\ IsInjective(local_q[o]) => IsInjective(q) /\ r \notin Range(q)
  BY QueueTypes, TailIs
<1>2. local_q' = [local_q EXCEPT ![o] = q]
  OBVIOUS
<1> HIDE DEF r, q
<1>3. /\ local_q' \in [Ops -> Seq(Requests)] /\ local_q'[o] = q
      /\ \A g \in Ops : g # o => local_q'[g] = local_q[g]
  BY <1>1, <1>2 DEF NvmeTypeOK
<1>4. \A x \in Requests : x # r /\ Unanswered(x) /\ ~Out(x) => Unanswered(x)' /\ ~Out(x)'
  BY DEF r, Unanswered
<1>5. ASSUME NEW g \in Ops
      PROVE  /\ IsInjective(req_queue'[g]) /\ IsInjective(local_q'[g])
             /\ Range(req_queue'[g]) \cap Range(local_q'[g]) = {}
             /\ \A x \in Queued(g)' : Request[x].op = g /\ Unanswered(x)' /\ ~Out(x)'
  <2>1. /\ IsInjective(req_queue[g]) /\ IsInjective(local_q[g])
        /\ Range(req_queue[g]) \cap Range(local_q[g]) = {}
        /\ \A x \in Queued(g) : x \in Requests /\ Request[x].op = g /\ Unanswered(x) /\ ~Out(x)
    BY QueueTypes DEF QueueInv, Queued
  <2>2. Queued(g)' \subseteq Queued(g) /\ r \notin Queued(g)'
    <3>1. CASE g = o
      <4>1. Queued(g)' = Range(req_queue[o]) \cup Range(q)
        BY <1>3, <3>1 DEF Queued
      <4> QED BY <1>1, <2>1, <3>1, <4>1 DEF Queued
    <3>2. CASE g # o
      <4>1. Queued(g)' = Queued(g)
        BY <1>3, <3>2 DEF Queued
      <4>2. Request[r].op = o
        BY <1>1 DEF QueueInv, Queued
      <4> QED BY <2>1, <3>2, <4>1, <4>2
    <3> QED BY <3>1, <3>2
  <2>3. Range(req_queue'[g]) \cap Range(local_q'[g]) = {} /\ IsInjective(local_q'[g])
    BY <1>1, <1>3, <2>1
  <2> QED BY <1>4, <2>1, <2>2, <2>3
<1> QED BY <1>3, <1>5 DEF QueueInv

\* Requests of A get their answers and leave.
LEMMA AnsweredKeeps ==
  ASSUME NvmeTypeOK, OutInv, NEW A \in SUBSET Requests, UNCHANGED <<content, begun>>,
         \A x \in A : /\ Unanswered(x) /\ \E v \in Pages : outcome'[x] = <<v>>
                      /\ Request[x].op = "get" =>
                           \/ outcome'[x] = <<Error>>
                           \/ /\ outcome'[x][1] \in held'[x]
                              /\ outcome'[x][1].page = Request[x].pos,
         outcome' = [x \in Requests |-> outcome'[x]],
         \A x \in Requests \ A : outcome'[x] = outcome[x] /\ held'[x] = held[x],
         flying' \subseteq flying, \A c \in flying' : c.req \notin A,
         \A x \in Requests : \A s \in SlotIds :
            Rides(x, s)' => Rides(x, s) /\ x \notin A /\ slots'[s].pos = slots[s].pos
  PROVE  /\ OutInv' /\ outcome' \in [Requests -> Seq(Pages)]
         /\ \A x \in Requests \ A : Unanswered(x) /\ ~Out(x) => outcome'[x] = outcome[x] /\ ~Out(x)'
<1>0. \A c \in flying : c.req \in Requests
  BY DEF NvmeTypeOK
<1>1. outcome' \in [Requests -> Seq(Pages)]
  <2>1. \A x \in Requests \ A : outcome'[x] \in Seq(Pages)
    BY DEF NvmeTypeOK
  <2>2. \A v \in Pages : <<v>> \in Seq(Pages)
    OBVIOUS
  <2>3. \A x \in A : outcome'[x] \in Seq(Pages)
    BY <2>2
  <2>4. \A x \in Requests : outcome'[x] \in Seq(Pages)
    BY <2>1, <2>3
  <2> QED BY <2>4
<1>2. \A x \in Requests \ A : (Unanswered(x) => Unanswered(x)') /\ (Out(x)' => Out(x))
  BY DEF Unanswered, Out
<1>3. FlyInv'
  BY <1>0, <1>2 DEF OutInv, FlyInv
<1>4. RideInv'
  BY <1>2 DEF OutInv, RideInv
<1>5. ReadInv'
  BY <1>0 DEF OutInv, ReadInv
<1>6. ReadsTrue'
  <2> SUFFICES ASSUME NEW x \in Requests, Request[x].op = "get", outcome'[x] # <<>>
               PROVE  \/ outcome'[x] = <<Error>>
                      \/ /\ outcome'[x][1] \in held'[x]
                         /\ outcome'[x][1].page = Request[x].pos
    BY DEF ReadsTrue
  <2>1. CASE x \in A
    BY <2>1
  <2>2. CASE x \notin A
    BY <2>2 DEF OutInv, ReadsTrue
  <2> QED BY <2>1, <2>2
<1>7. \A x \in Requests : outcome'[x] # <<>> => x \in begun'
  BY DEF OutInv, Unanswered
<1>8. \A p \in Positions : content'[p].page = p
  BY DEF OutInv
<1> QED BY <1>1, <1>2, <1>3, <1>4, <1>5, <1>6, <1>7, <1>8 DEF OutInv

\* A command of r is on its way to the device.
LEMMA LaunchKeeps ==
  ASSUME NvmeTypeOK, OutInv, NEW r \in Requests, Request[r].pos \in Positions,
         Unanswered(r), ~Out(r), InFlight(r), UNCHANGED <<content, begun>>,
         \A x \in Requests : \A s \in SlotIds :
            Rides(x, s)' => Rides(x, s) /\ slots'[s].pos = slots[s].pos
  PROVE  /\ OutInv' /\ held' \in [Requests -> SUBSET Pages]
         /\ flying' \subseteq [req : Requests, done : BOOLEAN, got : Pages] /\ IsFiniteSet(flying')
         /\ \A x \in Requests : x # r /\ ~Out(x) => outcome'[x] = outcome[x] /\ ~Out(x)'
         /\ \E c : /\ c \notin flying /\ flying' = flying \cup {c} /\ c.req = r
<1> DEFINE c == [req |-> r, done |-> FALSE, got |-> NoPage]
<1>1. /\ flying' = flying \cup {c} /\ outcome' = outcome
      /\ held' = [held EXCEPT ![r] = IF Request[r].op = "get"
                                     THEN {content[Request[r].pos]} ELSE {}]
  BY DEF InFlight
<1>2. c.req = r /\ c.done = FALSE /\ c.got = NoPage /\ c \in [req : Requests, done : BOOLEAN, got : Pages]
  BY DEF NoPage, Page, Pages
<1> HIDE DEF c
<1>3. c \notin flying /\ \A d \in flying : d.req # r
  BY <1>2 DEF Out
<1>4. \A d \in flying : d.req \in Requests
  BY DEF NvmeTypeOK
<1>5. held' \in [Requests -> SUBSET Pages] /\ \A x \in Requests : x # r => held'[x] = held[x]
  BY <1>1 DEF NvmeTypeOK
<1>6. Request[r].op = "get" => content[Request[r].pos] \in held'[r]
  BY <1>1 DEF NvmeTypeOK
<1>7. \A x \in Requests : Unanswered(x) => Unanswered(x)'
  BY <1>1 DEF Unanswered
<1>8. \A s \in SlotIds : ~Rides(r, s) /\ ~Rides(r, s)'
  BY DEF Out
<1>9. FlyInv'
  BY <1>1, <1>2, <1>3, <1>4, <1>7, <1>8 DEF OutInv, FlyInv
<1>10. RideInv'
  BY <1>7 DEF OutInv, RideInv
<1>11. ReadInv'
  <2> SUFFICES ASSUME NEW d \in flying', Request[d.req].op = "get"
               PROVE  LET p == Request[d.req].pos IN
                      IF d.done THEN d.got \in held'[d.req] /\ d.got.page = p
                                ELSE content[p] \in held'[d.req]
    BY DEF ReadInv
  <2>1. CASE d = c
    BY <1>2, <1>6, <2>1
  <2>2. CASE d \in flying
    BY <1>3, <1>4, <1>5, <2>2 DEF OutInv, ReadInv
  <2> QED BY <1>1, <2>1, <2>2
<1>12. ReadsTrue'
  BY <1>1, <1>5 DEF OutInv, ReadsTrue, Unanswered
<1>13. /\ flying' \subseteq [req : Requests, done : BOOLEAN, got : Pages] /\ IsFiniteSet(flying')
       /\ \A x \in Requests : x # r /\ ~Out(x) => outcome'[x] = outcome[x] /\ ~Out(x)'
  BY <1>1, <1>2, FS_AddElement DEF NvmeTypeOK, Out
<1>14. OutInv'
  BY <1>1, <1>9, <1>10, <1>11, <1>12 DEF OutInv
<1> QED BY <1>1, <1>2, <1>3, <1>5, <1>13, <1>14

\* At first nothing waits and no slot is taken.
LEMMA InitNvmeInv == NvmeInit => NvmeInv
<1> SUFFICES ASSUME NvmeInit PROVE NvmeInv
  OBVIOUS
<1>1. NvmeTypeOK
  BY FS_EmptySet DEF NvmeInit, NvmeTypeOK, Empty, States, Pages, Page, Blank
<1>2. QueueInv
  BY DEF NvmeInit, QueueInv, Queued, IsInjective, Range
<1>3. OutInv
  <2>1. \A r \in Requests : \A s \in SlotIds : ~Rides(r, s)
    BY DEF NvmeInit, Rides, Empty, Range
  <2> QED BY <2>1 DEF NvmeInit, OutInv, FlyInv, RideInv, ReadInv, ReadsTrue, Page
<1>4. ChainInv
  BY DEF NvmeInit, ChainInv, Empty
<1>5. SlotsHaveReads
  <2>1. \A p \in Positions : Slots(p) = {} /\ Reads(p) = {}
    BY DEF NvmeInit, Slots, Reads, Empty
  <2> QED BY <2>1, FS_EmptySet DEF SlotsHaveReads
<1> QED BY <1>1, <1>2, <1>3, <1>4, <1>5 DEF NvmeInv

\* A new request is nowhere yet, so it joins one queue.
LEMMA AskKeeps == ASSUME NvmeInv, NEW r \in Requests, Ask(r) PROVE NvmeInv'
<1> DEFINE o == Request[r].op
           q == Append(req_queue[o], r)
<1>0. NvmeTypeOK /\ QueueInv /\ OutInv /\ ChainInv /\ SlotsHaveReads
  BY DEF NvmeInv
<1>1. /\ r \notin begun /\ begun' = begun \cup {r}
      /\ UNCHANGED <<local_q, slots, flying, used, content, held, outcome>>
      /\ req_queue' = [req_queue EXCEPT ![o] = q] \/ req_queue' = req_queue
  BY DEF Ask
<1>2. o \in Ops
  BY NvmeAssumption DEF Ops, Requests
<1>3. /\ \A x \in Requests : Unanswered(x) => Unanswered(x)'
      /\ \A x : Out(x)' <=> Out(x)
      /\ \A x, s : Rides(x, s)' <=> Rides(x, s)
  BY <1>1 DEF Unanswered, Out, Rides
<1>4. Unanswered(r)' /\ ~Out(r) /\ \A g \in Ops : r \notin Queued(g)
  BY <1>0, <1>1 DEF OutInv, Unanswered, Out, FlyInv, RideInv, QueueInv
<1>5. OutInv'
  <2>1. \A c \in flying : c.req \in Requests
    BY <1>0 DEF NvmeTypeOK
  <2>2. FlyInv'
    BY <1>0, <1>1, <1>3, <2>1 DEF OutInv, FlyInv
  <2>3. RideInv'
    BY <1>0, <1>1, <1>3 DEF OutInv, RideInv
  <2> QED BY <1>0, <1>1, <2>2, <2>3 DEF OutInv, ReadInv, ReadsTrue
<1>6. ChainInv' /\ SlotsHaveReads'
  BY <1>0, <1>1 DEF ChainInv, SlotsHaveReads, Slots, Reads
<1>7. /\ q \in Seq(Requests) /\ Range(q) = Range(req_queue[o]) \cup {r}
      /\ IsInjective(req_queue[o]) /\ r \notin Range(req_queue[o]) => IsInjective(q)
  BY <1>0, <1>2, QueueTypes, AppendIs
<1>8. Request[r].op = o
  OBVIOUS
<1> HIDE DEF q, o
<1>9. \A g \in Ops : /\ req_queue'[g] = req_queue[g] \/ (g = o /\ req_queue'[g] = q)
                     /\ local_q'[g] = local_q[g]
  BY <1>0, <1>1, <1>2 DEF NvmeTypeOK
<1>10. NvmeTypeOK'
  <2>1. req_queue' \in [Ops -> Seq(Requests)]
    BY <1>0, <1>1, <1>7 DEF NvmeTypeOK
  <2> QED BY <1>0, <1>1, <2>1 DEF NvmeTypeOK
<1>11. QueueInv'
  <2> SUFFICES ASSUME NEW g \in Ops
               PROVE  /\ IsInjective(req_queue'[g]) /\ IsInjective(local_q'[g])
                      /\ Range(req_queue'[g]) \cap Range(local_q'[g]) = {}
                      /\ \A x \in Queued(g)' : Request[x].op = g /\ Unanswered(x)' /\ ~Out(x)'
    BY DEF QueueInv
  <2>1. /\ IsInjective(req_queue[g]) /\ IsInjective(local_q[g])
        /\ Range(req_queue[g]) \cap Range(local_q[g]) = {}
        /\ \A x \in Queued(g) : x \in Requests /\ Request[x].op = g /\ Unanswered(x) /\ ~Out(x)
        /\ r \notin Range(req_queue[g]) /\ r \notin Range(local_q[g])
    BY <1>0, <1>4, QueueTypes DEF QueueInv, Queued
  <2>2. CASE req_queue'[g] = req_queue[g]
    <3>1. Queued(g)' = Queued(g)
      BY <1>9, <2>2 DEF Queued
    <3> QED BY <1>3, <1>9, <2>1, <2>2, <3>1
  <2>3. CASE g = o /\ req_queue'[g] = q
    <3>1. Queued(g)' = Queued(g) \cup {r}
      BY <1>7, <1>9, <2>3 DEF Queued
    <3> QED BY <1>3, <1>4, <1>7, <1>8, <1>9, <2>1, <2>3, <3>1
  <2> QED BY <1>9, <2>2, <2>3
<1> QED BY <1>5, <1>6, <1>10, <1>11 DEF NvmeInv

\* A request moves from its queue to its ring.
LEMMA RefillKeeps == ASSUME NvmeInv, NEW o \in Ops, Refill(o) PROVE NvmeInv'
<1> DEFINE r == Head(req_queue[o])
           q == Append(local_q[o], r)
           t == Tail(req_queue[o])
<1>0. NvmeTypeOK /\ QueueInv /\ OutInv /\ ChainInv /\ SlotsHaveReads
  BY DEF NvmeInv
<1>1. /\ req_queue[o] # <<>> /\ local_q' = [local_q EXCEPT ![o] = q]
      /\ req_queue' = [req_queue EXCEPT ![o] = t]
      /\ UNCHANGED <<slots, flying, used, content, held, outcome, begun>>
  BY DEF Refill
<1>2. /\ t \in Seq(Requests) /\ Range(t) \subseteq Range(req_queue[o]) /\ r \in Range(req_queue[o])
      /\ IsInjective(req_queue[o]) => IsInjective(t) /\ r \notin Range(t)
      /\ r \in Requests
  BY <1>0, <1>1, QueueTypes, TailIs
<1>3. /\ q \in Seq(Requests) /\ Range(q) = Range(local_q[o]) \cup {r}
      /\ IsInjective(local_q[o]) /\ r \notin Range(local_q[o]) => IsInjective(q)
  BY <1>0, <1>2, QueueTypes, AppendIs
<1> HIDE DEF r, q, t
<1>4. /\ req_queue'[o] = t /\ local_q'[o] = q
      /\ \A g \in Ops : g # o => req_queue'[g] = req_queue[g] /\ local_q'[g] = local_q[g]
  BY <1>0, <1>1 DEF NvmeTypeOK
<1>5. /\ \A x : (Unanswered(x)' <=> Unanswered(x)) /\ (Out(x)' <=> Out(x))
      /\ \A x, s : Rides(x, s)' <=> Rides(x, s)
  BY <1>1 DEF Unanswered, Out, Rides
<1>6. NvmeTypeOK'
  <2>1. req_queue' \in [Ops -> Seq(Requests)] /\ local_q' \in [Ops -> Seq(Requests)]
    BY <1>0, <1>1, <1>2, <1>3 DEF NvmeTypeOK
  <2> QED BY <1>0, <1>1, <2>1 DEF NvmeTypeOK
<1>7. OutInv' /\ ChainInv' /\ SlotsHaveReads'
  <2>1. FlyInv' /\ RideInv'
    BY <1>0, <1>1, <1>5 DEF OutInv, FlyInv, RideInv
  <2>2. ChainInv' /\ SlotsHaveReads'
    BY <1>0, <1>1 DEF ChainInv, SlotsHaveReads, Slots, Reads
  <2> QED BY <1>0, <1>1, <2>1, <2>2 DEF OutInv, ReadInv, ReadsTrue
<1>8. QueueInv'
  <2> SUFFICES ASSUME NEW g \in Ops
               PROVE  /\ IsInjective(req_queue'[g]) /\ IsInjective(local_q'[g])
                      /\ Range(req_queue'[g]) \cap Range(local_q'[g]) = {}
                      /\ \A x \in Queued(g)' : Request[x].op = g /\ Unanswered(x)' /\ ~Out(x)'
    BY DEF QueueInv
  <2>1. /\ IsInjective(req_queue[g]) /\ IsInjective(local_q[g])
        /\ Range(req_queue[g]) \cap Range(local_q[g]) = {}
        /\ \A x \in Queued(g) : Request[x].op = g /\ Unanswered(x) /\ ~Out(x)
    BY <1>0 DEF QueueInv
  <2>2. CASE g # o
    <3>1. Queued(g)' = Queued(g)
      BY <1>4, <2>2 DEF Queued
    <3> QED BY <1>4, <1>5, <2>1, <2>2, <3>1
  <2>3. CASE g = o
    <3>1. Queued(g)' \subseteq Queued(g)
      BY <1>2, <1>3, <1>4, <2>3 DEF Queued
    <3>2. r \notin Range(local_q[o])
      BY <1>2, <2>1, <2>3
    <3> QED BY <1>2, <1>3, <1>4, <1>5, <2>1, <2>3, <3>1, <3>2
  <2> QED BY <2>2, <2>3
<1> QED BY <1>6, <1>7, <1>8 DEF NvmeInv

\* The driver refuses r, or its riders too.
LEMMA RefusedIs ==
  ASSUME NvmeTypeOK, OutInv, NEW r \in Requests, Unanswered(r), ~Out(r),
         NEW A \in SUBSET Requests, r \in A, \A x \in A : x = r \/ \E s \in SlotIds : Rides(x, s),
         outcome' = [x \in Requests |-> IF x \in A THEN Append(outcome[x], Error) ELSE outcome[x]],
         UNCHANGED <<flying, held, content, begun>>,
         \A x \in Requests : \A s \in SlotIds :
            Rides(x, s)' => Rides(x, s) /\ x \notin A /\ slots'[s].pos = slots[s].pos
  PROVE  /\ OutInv' /\ outcome' \in [Requests -> Seq(Pages)]
         /\ \A x \in Requests : x # r /\ Unanswered(x) /\ ~Out(x) => outcome'[x] = outcome[x] /\ ~Out(x)'
<1>1. Error \in Pages
  BY DEF Error, Page, Pages
<1>2. \A x \in A : Unanswered(x) /\ x \in Requests
  BY DEF OutInv, RideInv
<1>3. \A x \in A : outcome'[x] = <<Error>>
  <2>1. \A v \in Pages : Append(<<>>, v) = <<v>>
    OBVIOUS
  <2>2. \A x \in A : outcome'[x] = Append(<<>>, Error)
    BY <1>2 DEF Unanswered
  <2> QED BY <1>1, <2>1, <2>2
<1>4. \A c \in flying' : c.req \notin A
  BY DEF OutInv, FlyInv, Out
<1>5. \A x \in A : /\ Unanswered(x) /\ \E v \in Pages : outcome'[x] = <<v>>
                   /\ Request[x].op = "get" => \/ outcome'[x] = <<Error>>
                                               \/ /\ outcome'[x][1] \in held'[x]
                                                  /\ outcome'[x][1].page = Request[x].pos
  BY <1>1, <1>2, <1>3
<1>6. \A x \in Requests \ A : outcome'[x] = outcome[x] /\ held'[x] = held[x]
  OBVIOUS
<1>7. outcome' = [x \in Requests |-> outcome'[x]] /\ flying' \subseteq flying
  OBVIOUS
<1>8. /\ OutInv' /\ outcome' \in [Requests -> Seq(Pages)]
      /\ \A x \in Requests \ A : Unanswered(x) /\ ~Out(x) => outcome'[x] = outcome[x] /\ ~Out(x)'
  BY <1>4, <1>5, <1>6, <1>7, AnsweredKeeps
<1>9. \A x \in A : x # r => Out(x)
  BY DEF Out
<1> QED BY <1>8, <1>9

\* No slot changes, and no read of a page comes or goes.
LEMMA CountsKept ==
  ASSUME SlotsHaveReads, UNCHANGED slots, \A p \in Positions : Reads(p)' = Reads(p)
  PROVE  SlotsHaveReads'
BY DEF SlotsHaveReads, Slots

\* A put, a flush or a trim is submitted or refused.
LEMMA HandleQueueKeeps ==
  ASSUME NvmeInv, NEW o \in Ops \ {"get"}, HandleQueue(o)
  PROVE  NvmeInv'
<1> DEFINE r == Head(local_q[o])
<1>0. NvmeTypeOK /\ QueueInv /\ OutInv /\ ChainInv /\ SlotsHaveReads
  BY DEF NvmeInv
<1>1. /\ local_q[o] # <<>> /\ local_q' = [local_q EXCEPT ![o] = Tail(@)]
      /\ UNCHANGED <<req_queue, slots, content, begun>> /\ (InFlight(r) \/ Refused(r))
  BY DEF HandleQueue
<1>2. r \in Requests /\ Request[r].op = o /\ Request[r].pos \in Positions /\ Unanswered(r) /\ ~Out(r)
  BY <1>0, <1>1, TakenIs
<1>3. \A x, s : Rides(x, s)' <=> Rides(x, s)
  BY <1>1 DEF Rides
<1>4. ChainInv'
  BY <1>0, <1>1 DEF ChainInv
<1>5. CASE InFlight(r)
  <2>1. /\ OutInv' /\ held' \in [Requests -> SUBSET Pages]
        /\ flying' \subseteq [req : Requests, done : BOOLEAN, got : Pages] /\ IsFiniteSet(flying')
        /\ \A x \in Requests : x # r /\ ~Out(x) => outcome'[x] = outcome[x] /\ ~Out(x)'
        /\ \E c : /\ c \notin flying /\ flying' = flying \cup {c} /\ c.req = r
    <3> HIDE DEF r
    <3> QED BY <1>0, <1>1, <1>2, <1>3, <1>5, LaunchKeeps
  <2>2. QueueInv' /\ local_q' \in [Ops -> Seq(Requests)]
    BY <1>0, <1>1, <2>1, TakenKeeps
  <2>3. \A p \in Positions : Reads(p)' = Reads(p)
    <3> HIDE DEF r
    <3> QED BY <1>2, <2>1 DEF Reads
  <2>4. outcome' = outcome
    BY <1>5 DEF InFlight
  <2>5. NvmeTypeOK'
    BY <1>0, <1>1, <2>1, <2>2, <2>4 DEF NvmeTypeOK
  <2> QED BY <1>0, <1>1, <1>4, <2>1, <2>2, <2>3, <2>5, CountsKept DEF NvmeInv
<1>6. CASE Refused(r)
  <2>1. UNCHANGED <<flying, held>> /\ outcome' = [outcome EXCEPT ![r] = Append(@, Error)]
    BY <1>6 DEF Refused
  <2>2. outcome' = [x \in Requests |-> IF x \in {r} THEN Append(outcome[x], Error) ELSE outcome[x]]
    BY <1>0, <2>1 DEF NvmeTypeOK
  <2>3. /\ OutInv' /\ outcome' \in [Requests -> Seq(Pages)]
        /\ \A x \in Requests : x # r /\ Unanswered(x) /\ ~Out(x) => outcome'[x] = outcome[x] /\ ~Out(x)'
    <3>1. \A x \in Requests : \A s \in SlotIds :
            Rides(x, s)' => Rides(x, s) /\ x \notin {r} /\ slots'[s].pos = slots[s].pos
      BY <1>1, <1>2, <1>3 DEF Out
    <3>2. {r} \in SUBSET Requests /\ r \in {r} /\ \A x \in {r} : x = r
      BY <1>2
    <3> HIDE DEF r
    <3> QED BY <1>0, <1>1, <1>2, <2>1, <2>2, <3>1, <3>2, RefusedIs
  <2>4. QueueInv' /\ local_q' \in [Ops -> Seq(Requests)]
    BY <1>0, <1>1, <2>3, TakenKeeps
  <2>5. \A p \in Positions : Reads(p)' = Reads(p)
    BY <2>1 DEF Reads
  <2>6. NvmeTypeOK'
    BY <1>0, <1>1, <2>1, <2>3, <2>4 DEF NvmeTypeOK
  <2> QED BY <1>0, <1>1, <1>4, <2>3, <2>4, <2>5, <2>6, CountsKept DEF NvmeInv
<1> QED BY <1>1, <1>5, <1>6

\* But for one page, no slot comes and no read comes or goes.
LEMMA CountsButOne ==
  ASSUME NvmeTypeOK, SlotsHaveReads, NEW p \in Positions,
         \A q \in Positions : q # p => Slots(q)' \subseteq Slots(q) /\ Reads(q)' = Reads(q),
         Cardinality(Slots(p)') <= Cardinality(Reads(p)')
  PROVE  SlotsHaveReads'
<1> SUFFICES ASSUME NEW q \in Positions, q # p
             PROVE  Cardinality(Slots(q)') <= Cardinality(Reads(q)')
  BY DEF SlotsHaveReads
<1>1. Cardinality(Slots(q)') <= Cardinality(Slots(q)) /\ IsFiniteSet(Slots(q)')
  BY TableFinite, FS_Subset
<1>2. Cardinality(Slots(q)) <= Cardinality(Reads(q)) /\ Reads(q)' = Reads(q)
  BY DEF SlotsHaveReads
<1>3. Cardinality(Slots(q)') \in Nat /\ Cardinality(Slots(q)) \in Nat /\ Cardinality(Reads(q)) \in Nat
  BY <1>1, TableFinite, FS_CardinalityType
<1> QED BY <1>1, <1>2, <1>3

\* What insert() leaves, with the slots of D erased: nobody rides on a slot it
\* takes, and it adds one slot of p at most.
LEMMA InsertKeeps ==
  ASSUME NvmeTypeOK, ChainInv, NEW p \in Positions, NEW D \in SUBSET Slots(p),
         slots' = [s \in SlotIds |-> IF s \in D THEN [Inserted(p)[s] EXCEPT !.state = "DELETED"]
                                     ELSE Inserted(p)[s]]
  PROVE  /\ slots' \in [SlotIds -> [state : States, pos : Positions \cup {0}, waiters : Seq(Requests)]]
         /\ ChainInv'
         /\ \A x : \A s \in SlotIds : Rides(x, s)' => Rides(x, s) /\ s \notin D /\ slots'[s].pos = slots[s].pos
         /\ \A q \in Positions : q # p => Slots(q)' \subseteq Slots(q)
         /\ \E t : Slots(p)' \subseteq (Slots(p) \cup {t}) \ D
<1> DEFINE Slot == [state : States, pos : Positions \cup {0}, waiters : Seq(Requests)]
<1>1. PICK t :
        \A s \in SlotIds :
           \/ Inserted(p)[s] = slots[s]
           \/ /\ s = t /\ slots[s].state # "OCCUPIED" /\ Inserted(p)[s] \in Slot
              /\ Inserted(p)[s].state = "OCCUPIED" /\ Inserted(p)[s].pos = p
              /\ Range(Inserted(p)[s].waiters) = {}
              /\ \E i \in Probes : /\ s = Probe(p, i)
                                   /\ \A j \in 0 .. i - 1 : slots[Probe(p, j)].state # "EMPTY"
  <2>1. CASE Inserted(p) = slots
    BY <2>1
  <2>2. CASE Inserted(p) # slots
    <3>1. PICK t \in SlotIds :
            /\ slots[t].state # "OCCUPIED"
            /\ Inserted(p) = [slots EXCEPT ![t] = [state |-> "OCCUPIED", pos |-> p, waiters |-> <<>>]]
            /\ \E i \in Probes : /\ t = Probe(p, i)
                                 /\ \A j \in 0 .. i - 1 : slots[Probe(p, j)].state = "OCCUPIED"
      BY <2>2, InsertedIs
    <3>2. /\ Inserted(p)[t] = [state |-> "OCCUPIED", pos |-> p, waiters |-> <<>>]
          /\ \A s \in SlotIds : s # t => Inserted(p)[s] = slots[s]
      BY <3>1 DEF NvmeTypeOK
    <3>3. /\ Inserted(p)[t].state = "OCCUPIED" /\ Inserted(p)[t].pos = p
          /\ Range(Inserted(p)[t].waiters) = {} /\ Inserted(p)[t] \in Slot
      BY <3>2 DEF Range, States
    <3>4. \E i \in Probes : /\ t = Probe(p, i)
                            /\ \A j \in 0 .. i - 1 : slots[Probe(p, j)].state # "EMPTY"
      BY <3>1
    <3> QED BY <3>1, <3>2, <3>3, <3>4
  <2> QED BY <2>1, <2>2
<1>2. \A s \in SlotIds : Inserted(p)[s] \in Slot
  BY <1>1 DEF NvmeTypeOK
<1>3. \A s \in SlotIds : /\ s \in D => /\ slots'[s].state = "DELETED" /\ slots'[s] \in Slot
                                       /\ slots[s].state = "OCCUPIED"
                         /\ s \notin D => slots'[s] = Inserted(p)[s] /\ slots'[s] \in Slot
  BY <1>2 DEF States, Slots
<1>4. slots' \in [SlotIds -> Slot]
  BY <1>3
<1>5. ChainInv'
  <2>1. ASSUME NEW s \in SlotIds, slots[s].state # "EMPTY" PROVE slots'[s].state # "EMPTY"
    BY <1>1, <1>3, <2>1
  <2>2. ASSUME NEW s \in SlotIds, slots'[s].state = "OCCUPIED"
        PROVE  \/ slots[s].state = "OCCUPIED" /\ slots'[s].pos = slots[s].pos
               \/ /\ slots'[s].pos \in Positions
                  /\ \E i \in Probes : /\ s = Probe(slots'[s].pos, i)
                                       /\ \A j \in 0 .. i - 1 : slots[Probe(slots'[s].pos, j)].state # "EMPTY"
    BY <1>1, <1>3, <2>2
  <2> QED BY <2>1, <2>2, ChainKept
<1>6. \A x : \A s \in SlotIds : Rides(x, s)' => Rides(x, s) /\ s \notin D /\ slots'[s].pos = slots[s].pos
  BY <1>1, <1>3 DEF Rides
<1>7. /\ \A q \in Positions : q # p => Slots(q)' \subseteq Slots(q)
      /\ Slots(p)' \subseteq (Slots(p) \cup {t}) \ D
  BY <1>1, <1>3 DEF Slots
<1> QED BY <1>4, <1>5, <1>6, <1>7

\* Only the waiters of one slot change.
LEMMA WaitersOnly ==
  ASSUME NvmeTypeOK, NEW s \in SlotIds, NEW w \in Seq(Requests),
         slots' = [slots EXCEPT ![s].waiters = w]
  PROVE  /\ slots' \in [SlotIds -> [state : States, pos : Positions \cup {0}, waiters : Seq(Requests)]]
         /\ slots'[s].waiters = w
         /\ \A t \in SlotIds : slots'[t].state = slots[t].state /\ slots'[t].pos = slots[t].pos
         /\ \A t \in SlotIds : t # s => slots'[t] = slots[t]
<1>1. PICK R : R = [state : States, pos : Positions \cup {0}, waiters : Seq(Requests)]
  OBVIOUS
<1> DEFINE o == [slots[s] EXCEPT !.waiters = w]
<1>2. slots \in [SlotIds -> R] /\ slots[s] \in R
  BY <1>1 DEF NvmeTypeOK
<1>3. o \in R /\ o.waiters = w /\ o.state = slots[s].state /\ o.pos = slots[s].pos
  BY <1>1, <1>2
<1>4. slots' = [slots EXCEPT ![s] = o]
  OBVIOUS
<1> HIDE DEF o
<1>5. slots' \in [SlotIds -> R] /\ slots'[s] = o /\ \A t \in SlotIds : t # s => slots'[t] = slots[t]
  BY <1>2, <1>3, <1>4
<1> QED BY <1>1, <1>3, <1>5

\* The head of the ring of reads rides on a slot of its page.
LEMMA RideKeeps ==
  ASSUME NvmeInv, local_q["get"] # <<>>, local_q' = [local_q EXCEPT !["get"] = Tail(@)],
         NEW s \in Slots(Request[Head(local_q["get"])].pos),
         slots' = [slots EXCEPT ![s].waiters = Append(@, Head(local_q["get"]))],
         UNCHANGED <<req_queue, flying, content, held, outcome, begun>>
  PROVE  NvmeInv'
<1> DEFINE r == Head(local_q["get"])
<1>0. NvmeTypeOK /\ QueueInv /\ OutInv /\ ChainInv /\ SlotsHaveReads /\ "get" \in Ops
  BY DEF NvmeInv, Ops
<1>1. r \in Requests /\ Request[r].op = "get" /\ Request[r].pos \in Positions /\ Unanswered(r) /\ ~Out(r)
  BY <1>0, TakenIs
<1>2. slots' = [slots EXCEPT ![s].waiters = Append(@, r)] /\ s \in Slots(Request[r].pos)
  OBVIOUS
<1>3. \A x \in Requests : x # r /\ Unanswered(x) /\ ~Out(x) => outcome'[x] = outcome[x] /\ ~Out(x)'
  <2>1. s \in SlotIds /\ slots[s].waiters \in Seq(Requests)
    BY <1>0, <1>2 DEF Slots, NvmeTypeOK
  <2> HIDE DEF r
  <2>2. Range(Append(slots[s].waiters, r)) = Range(slots[s].waiters) \cup {r}
    BY <1>1, <2>1, AppendIs
  <2>3. \A x, t : x # r /\ t \in SlotIds /\ Rides(x, t)' => Rides(x, t)
    BY <1>0, <1>2, <2>1, <2>2 DEF Rides, NvmeTypeOK
  <2> QED BY <2>3 DEF Out
<1>4. QueueInv' /\ local_q' \in [Ops -> Seq(Requests)]
  BY <1>0, <1>3, TakenKeeps
<1> HIDE DEF r
<1>5. /\ s \in SlotIds /\ slots[s].waiters \in Seq(Requests)
      /\ slots[s].state = "OCCUPIED" /\ slots[s].pos = Request[r].pos
  BY <1>0, <1>2 DEF Slots, NvmeTypeOK
<1>6. /\ Range(Append(slots[s].waiters, r)) = Range(slots[s].waiters) \cup {r}
      /\ Append(slots[s].waiters, r) \in Seq(Requests)
  BY <1>1, <1>5, AppendIs
<1>7. /\ slots' \in [SlotIds -> [state : States, pos : Positions \cup {0}, waiters : Seq(Requests)]]
      /\ slots'[s].waiters = Append(slots[s].waiters, r)
      /\ \A t \in SlotIds : slots'[t].state = slots[t].state /\ slots'[t].pos = slots[t].pos
      /\ \A t \in SlotIds : t # s => slots'[t] = slots[t]
  <2>1. slots' = [slots EXCEPT ![s].waiters = Append(slots[s].waiters, r)]
    BY <1>2
  <2>2. PICK q \in Seq(Requests) : q = Append(slots[s].waiters, r)
    BY <1>6
  <2>3. slots' = [slots EXCEPT ![s].waiters = q]
    BY <2>1, <2>2
  <2>4. /\ slots' \in [SlotIds -> [state : States, pos : Positions \cup {0}, waiters : Seq(Requests)]]
        /\ slots'[s].waiters = q
        /\ \A t \in SlotIds : slots'[t].state = slots[t].state /\ slots'[t].pos = slots[t].pos
        /\ \A t \in SlotIds : t # s => slots'[t] = slots[t]
    BY <1>0, <1>5, <2>3, WaitersOnly
  <2> QED BY <2>2, <2>4
<1>8. slots' \in [SlotIds -> [state : States, pos : Positions \cup {0}, waiters : Seq(Requests)]]
  BY <1>7
<1>9. NvmeTypeOK'
  BY <1>0, <1>4, <1>8 DEF NvmeTypeOK
<1>10. \A x \in Requests : \A t \in SlotIds : Rides(x, t)' <=> Rides(x, t) \/ (x = r /\ t = s)
  <2>1. slots'[s].state = "OCCUPIED" /\ slots[s].state = "OCCUPIED"
    BY <1>5, <1>7
  <2>2. Range(slots'[s].waiters) = Range(slots[s].waiters) \cup {r}
    BY <1>6, <1>7
  <2>3. \A t \in SlotIds : t # s => slots'[t] = slots[t]
    BY <1>7
  <2>4. \A x : Rides(x, s)' <=> Rides(x, s) \/ x = r
    BY <2>1, <2>2 DEF Rides
  <2>5. \A x, t : t \in SlotIds /\ t # s => (Rides(x, t)' <=> Rides(x, t))
    BY <2>3 DEF Rides
  <2> QED BY <2>4, <2>5
<1>11. /\ \A x \in Requests : Unanswered(x)' <=> Unanswered(x)
       /\ \A c \in flying : c.req # r /\ c.req \in Requests
       /\ \A t \in SlotIds : ~Rides(r, t)
  BY <1>0, <1>1 DEF Unanswered, Out, NvmeTypeOK
<1>12. FlyInv'
  BY <1>0, <1>10, <1>11 DEF OutInv, FlyInv
<1>13. RideInv'
  <2> SUFFICES ASSUME NEW x \in Requests, NEW t \in SlotIds, Rides(x, t)'
               PROVE  /\ Request[x].op = "get" /\ Request[x].pos = slots'[t].pos
                      /\ Unanswered(x)' /\ \A z \in SlotIds : Rides(x, z)' => z = t
    BY DEF RideInv
  <2>1. CASE x = r
    BY <1>1, <1>5, <1>7, <1>10, <1>11, <2>1
  <2>2. CASE x # r
    BY <1>0, <1>7, <1>10, <1>11, <2>2 DEF OutInv, RideInv
  <2> QED BY <2>1, <2>2
<1>14. OutInv'
  BY <1>0, <1>12, <1>13 DEF OutInv, ReadInv, ReadsTrue
<1>15. ChainInv'
  <2>1. /\ \A t \in SlotIds : slots[t].state # "EMPTY" => slots'[t].state # "EMPTY"
        /\ \A t \in SlotIds : slots'[t].state = "OCCUPIED" =>
             slots[t].state = "OCCUPIED" /\ slots'[t].pos = slots[t].pos
    BY <1>7
  <2> QED BY <1>0, <2>1, ChainKept
<1>16. SlotsHaveReads'
  <2>1. \A p \in Positions : Slots(p)' = Slots(p) /\ Reads(p)' = Reads(p)
    BY <1>7 DEF Slots, Reads
  <2> QED BY <1>0, <2>1 DEF SlotsHaveReads
<1> QED BY <1>4, <1>9, <1>14, <1>15, <1>16 DEF NvmeInv

\* A full slot that is found lets a second read in, or goes with a refused one.
LEMMA HandleGetQueueKeeps == ASSUME NvmeInv, HandleGetQueue PROVE NvmeInv'
<1>r. PICK r, p : r = Head(local_q["get"]) /\ p = Request[r].pos
  OBVIOUS
<1>0. NvmeTypeOK /\ QueueInv /\ OutInv /\ ChainInv /\ SlotsHaveReads /\ "get" \in Ops
  BY DEF NvmeInv, Ops
<1>1. /\ local_q["get"] # <<>> /\ local_q' = [local_q EXCEPT !["get"] = Tail(@)]
      /\ UNCHANGED <<req_queue, content, begun>>
      /\ \/ /\ Rideable(Find(p))
            /\ slots' = [slots EXCEPT ![Find(p)].waiters = Append(@, r)]
            /\ UNCHANGED <<flying, used, held, outcome>>
         \/ /\ slots' = Inserted(p)
            /\ InFlight(r)
         \/ /\ Refused(r)
            /\ UNCHANGED slots
         \/ /\ Find(p) # None
            /\ outcome' = [x \in Requests |->
                  IF x = r \/ x \in Range(slots[Find(p)].waiters)
                  THEN Append(outcome[x], Error) ELSE outcome[x]]
            /\ slots' = [Inserted(p) EXCEPT ![Find(p)].state = "DELETED"]
            /\ UNCHANGED <<flying, held, used>>
  BY <1>r DEF HandleGetQueue
<1>2. r \in Requests /\ Request[r].op = "get" /\ p \in Positions /\ Unanswered(r) /\ ~Out(r)
  BY <1>0, <1>1, <1>r, TakenIs
<1>3. Find(p) = None \/ Find(p) \in Slots(p)
  BY <1>0, <1>2, FindIs
<1>4. IsFiniteSet(Slots(p)) /\ IsFiniteSet(Reads(p)) /\ Cardinality(Slots(p)) <= Cardinality(Reads(p))
  BY <1>0, <1>2, TableFinite DEF SlotsHaveReads
<1>5. DOMAIN Inserted(p) = SlotIds
  BY <1>0, <1>2, InsertedIs DEF NvmeTypeOK
<1>i. Inserted(p) = [s \in SlotIds |-> Inserted(p)[s]]
  <2>1. slots = [s \in SlotIds |-> slots[s]]
    <3>1. PICK S : S = [state : States, pos : Positions \cup {0}, waiters : Seq(Requests)]
      OBVIOUS
    <3>2. slots \in [SlotIds -> S]
      BY <1>0, <3>1 DEF NvmeTypeOK
    <3> QED BY <3>2
  <2> QED BY <1>2, <2>1, InsertedIs
<1>6. CASE /\ Rideable(Find(p))
           /\ slots' = [slots EXCEPT ![Find(p)].waiters = Append(@, r)]
           /\ UNCHANGED <<flying, used, held, outcome>>
  <2>1. Find(p) \in Slots(p)
    BY <1>3, <1>6 DEF Rideable
  <2> QED BY <1>1, <1>6, <2>1, <1>r, RideKeeps
<1>7. CASE slots' = Inserted(p) /\ InFlight(r)
  <2>1. slots' = [s \in SlotIds |-> IF s \in {} THEN [Inserted(p)[s] EXCEPT !.state = "DELETED"]
                                    ELSE Inserted(p)[s]]
    <3>1. Inserted(p) = [s \in SlotIds |-> Inserted(p)[s]]
      BY <1>i
    <3> QED BY <1>7, <3>1
  <2>2. /\ slots' \in [SlotIds -> [state : States, pos : Positions \cup {0}, waiters : Seq(Requests)]]
        /\ ChainInv'
        /\ \A x : \A s \in SlotIds : Rides(x, s)' => Rides(x, s) /\ slots'[s].pos = slots[s].pos
        /\ \A q \in Positions : q # p => Slots(q)' \subseteq Slots(q)
        /\ \E t : Slots(p)' \subseteq Slots(p) \cup {t}
    <3>1. PICK D \in SUBSET Slots(p) : D = {}
      OBVIOUS
    <3>3. slots' = [s \in SlotIds |-> IF s \in D THEN [Inserted(p)[s] EXCEPT !.state = "DELETED"]
                                     ELSE Inserted(p)[s]]
      BY <2>1, <3>1
    <3>2. /\ slots' \in [SlotIds -> [state : States, pos : Positions \cup {0}, waiters : Seq(Requests)]]
          /\ ChainInv'
          /\ \A x : \A s \in SlotIds : Rides(x, s)' => Rides(x, s) /\ s \notin D /\ slots'[s].pos = slots[s].pos
          /\ \A q \in Positions : q # p => Slots(q)' \subseteq Slots(q)
          /\ \E t : Slots(p)' \subseteq (Slots(p) \cup {t}) \ D
      BY <1>0, <1>2, <3>3, InsertKeeps
    <3> QED BY <3>2
  <2>3. /\ OutInv' /\ held' \in [Requests -> SUBSET Pages]
        /\ flying' \subseteq [req : Requests, done : BOOLEAN, got : Pages] /\ IsFiniteSet(flying')
        /\ \A x \in Requests : x # r /\ ~Out(x) => outcome'[x] = outcome[x] /\ ~Out(x)'
        /\ \E c : /\ c \notin flying /\ flying' = flying \cup {c} /\ c.req = r
    <3>1. Request[r].pos \in Positions
      BY <1>2, <1>r
    <3> QED BY <1>0, <1>1, <1>r, <1>2, <1>7, <2>2, <3>1, LaunchKeeps
  <2>4. QueueInv' /\ local_q' \in [Ops -> Seq(Requests)]
    BY <1>0, <1>1, <2>3, <1>r, TakenKeeps
  <2>5. outcome' = outcome
    BY <1>7 DEF InFlight
  <2>6. NvmeTypeOK'
    BY <1>0, <1>1, <2>2, <2>3, <2>4, <2>5 DEF NvmeTypeOK
  <2>7. PICK c : c \notin flying /\ flying' = flying \cup {c} /\ c.req = r
    BY <2>3
  <2>8. /\ Reads(p)' = Reads(p) \cup {c} /\ c \notin Reads(p)
        /\ \A q \in Positions : q # p => Reads(q)' = Reads(q)
    BY <1>r, <1>2, <2>7 DEF Reads
  <2>9. Cardinality(Slots(p)') <= Cardinality(Reads(p)')
    <3>1. PICK t : Slots(p)' \subseteq Slots(p) \cup {t}
      BY <2>2
    <3>2. Cardinality(Slots(p)') <= Cardinality(Reads(p) \cup {c})
      BY <1>4, <2>8, <3>1, OneMore
    <3> QED BY <2>8, <3>2
  <2>10. SlotsHaveReads'
    <3> QED BY <1>0, <1>2, <2>2, <2>8, <2>9, CountsButOne
  <2> QED BY <2>2, <2>3, <2>4, <2>6, <2>10 DEF NvmeInv
<1>8. CASE Refused(r) /\ UNCHANGED slots
  <2>1. UNCHANGED <<flying, held>> /\ outcome' = [outcome EXCEPT ![r] = Append(@, Error)]
    BY <1>8 DEF Refused
  <2>2. outcome' = [x \in Requests |-> IF x \in {r} THEN Append(outcome[x], Error) ELSE outcome[x]]
    BY <1>0, <2>1 DEF NvmeTypeOK
  <2>3. /\ OutInv' /\ outcome' \in [Requests -> Seq(Pages)]
        /\ \A x \in Requests : x # r /\ Unanswered(x) /\ ~Out(x) => outcome'[x] = outcome[x] /\ ~Out(x)'
    <3>1. \A x \in Requests : \A s \in SlotIds :
            Rides(x, s)' => Rides(x, s) /\ x \notin {r} /\ slots'[s].pos = slots[s].pos
      BY <1>2, <1>8 DEF Out, Rides
    <3>2. {r} \in SUBSET Requests /\ r \in {r} /\ \A x \in {r} : x = r
      BY <1>2
    <3> QED BY <1>0, <1>1, <1>2, <2>1, <2>2, <3>1, <3>2, RefusedIs
  <2>4. QueueInv' /\ local_q' \in [Ops -> Seq(Requests)]
    BY <1>0, <1>1, <2>3, <1>r, TakenKeeps
  <2>5. ChainInv' /\ SlotsHaveReads'
    BY <1>0, <1>8, <2>1 DEF ChainInv, SlotsHaveReads, Slots, Reads
  <2>6. NvmeTypeOK'
    BY <1>0, <1>1, <1>8, <2>1, <2>3, <2>4 DEF NvmeTypeOK
  <2> QED BY <2>3, <2>4, <2>5, <2>6 DEF NvmeInv
<1>9. CASE /\ Find(p) # None
           /\ outcome' = [x \in Requests |->
                 IF x = r \/ x \in Range(slots[Find(p)].waiters)
                 THEN Append(outcome[x], Error) ELSE outcome[x]]
           /\ slots' = [Inserted(p) EXCEPT ![Find(p)].state = "DELETED"]
           /\ UNCHANGED <<flying, held, used>>
  <2>1. PICK s : s = Find(p) /\ s \in Slots(p) /\ s \in SlotIds
    BY <1>3, <1>9 DEF Slots
  <2> DEFINE A == {x \in Requests : x = r \/ x \in Range(slots[s].waiters)}
  <2>2. slots' = [z \in SlotIds |-> IF z \in {s} THEN [Inserted(p)[z] EXCEPT !.state = "DELETED"]
                                    ELSE Inserted(p)[z]]
    BY <1>5, <1>9, <2>1
  <2>3. /\ slots' \in [SlotIds -> [state : States, pos : Positions \cup {0}, waiters : Seq(Requests)]]
        /\ ChainInv'
        /\ \A x : \A z \in SlotIds : Rides(x, z)' => Rides(x, z) /\ z \notin {s} /\ slots'[z].pos = slots[z].pos
        /\ \A q \in Positions : q # p => Slots(q)' \subseteq Slots(q)
        /\ \E t : Slots(p)' \subseteq (Slots(p) \cup {t}) \ {s}
    <3>1. {s} \in SUBSET Slots(p)
      BY <2>1
    <3> QED BY <1>0, <1>2, <2>2, <3>1, InsertKeeps
  <2>4. outcome' = [x \in Requests |-> IF x \in A THEN Append(outcome[x], Error) ELSE outcome[x]]
    BY <1>9, <2>1
  <2>5. \A x \in A : x = r \/ Rides(x, s)
    BY <2>1 DEF Rides, Slots
  <2>6. /\ OutInv' /\ outcome' \in [Requests -> Seq(Pages)]
        /\ \A x \in Requests : x # r /\ Unanswered(x) /\ ~Out(x) => outcome'[x] = outcome[x] /\ ~Out(x)'
    <3>1. \A x \in Requests : \A z \in SlotIds :
            Rides(x, z)' => Rides(x, z) /\ x \notin A /\ slots'[z].pos = slots[z].pos
      <4> SUFFICES ASSUME NEW x \in Requests, NEW z \in SlotIds, Rides(x, z)', x \in A
                   PROVE  FALSE
        BY <2>3
      <4>1. Rides(x, z) /\ z # s
        BY <2>3
      <4>2. x # r
        BY <1>2, <4>1 DEF Out
      <4> HIDE DEF A
      <4> QED BY <1>0, <2>1, <2>5, <4>1, <4>2 DEF OutInv, RideInv
    <3>2. A \in SUBSET Requests /\ r \in A /\ \A x \in A : x = r \/ \E z \in SlotIds : Rides(x, z)
      BY <1>2, <2>1, <2>5
    <3> HIDE DEF A
    <3> QED BY <1>0, <1>1, <1>2, <1>9, <2>4, <3>1, <3>2, RefusedIs
  <2>7. QueueInv' /\ local_q' \in [Ops -> Seq(Requests)]
    BY <1>0, <1>1, <2>6, <1>r, TakenKeeps
  <2>8. NvmeTypeOK'
    BY <1>0, <1>1, <1>9, <2>3, <2>6, <2>7 DEF NvmeTypeOK
  <2>9. \A q : Reads(q)' = Reads(q)
    BY <1>9 DEF Reads
  <2>10. Cardinality(Slots(p)') <= Cardinality(Reads(p)')
    <3>1. PICK t : Slots(p)' \subseteq (Slots(p) \cup {t}) \ {s}
      BY <2>3
    <3>2. Cardinality(Slots(p)') <= Cardinality(Slots(p)) /\ IsFiniteSet(Slots(p)')
      <4>1. Cardinality(Slots(p)') <= Cardinality(Slots(p))
        BY <1>4, <2>1, <3>1, OneForOne
      <4>2. IsFiniteSet(Slots(p) \cup {t})
        BY <1>4, FS_AddElement
      <4>3. Slots(p)' \subseteq Slots(p) \cup {t}
        BY <3>1
      <4> QED BY <4>1, <4>2, <4>3, FS_Subset
    <3>3. Cardinality(Slots(p)') \in Nat /\ Cardinality(Slots(p)) \in Nat /\ Cardinality(Reads(p)) \in Nat
      BY <1>4, <3>2, FS_CardinalityType
    <3>4. Reads(p)' = Reads(p)
      BY <2>9
    <3> QED BY <1>4, <3>2, <3>3, <3>4
  <2>11. SlotsHaveReads'
    <3> QED BY <1>0, <1>2, <2>3, <2>9, <2>10, CountsButOne
  <2> QED BY <2>3, <2>6, <2>7, <2>8, <2>11 DEF NvmeInv
<1> QED BY <1>1, <1>6, <1>7, <1>8, <1>9

\* What a write leaves is added to what the reads of its page may return.
LEMMA ExecuteKeeps == ASSUME NvmeInv, Execute PROVE NvmeInv'
<1>0. NvmeTypeOK /\ QueueInv /\ OutInv /\ ChainInv /\ SlotsHaveReads
  BY DEF NvmeInv
<1>1. PICK c \in flying :
        LET q == Request[c.req] IN
        /\ ~c.done
        /\ flying' = (flying \ {c}) \cup
              {[c EXCEPT !.done = TRUE, !.got = IF q.op = "get" THEN content[q.pos] ELSE NoPage]}
        /\ content' = CASE q.op = "put"  -> [content EXCEPT ![q.pos] = Page(@.page, c.req)]
                        [] q.op = "trim" -> [content EXCEPT ![q.pos] = Page(@.page, Blank)]
                        [] OTHER -> content
        /\ held' = [r \in Requests |->
              IF /\ Request[r].op = "get" /\ q.op \in {"put", "trim"}
                 /\ Request[r].pos = q.pos
                 /\ \E d \in flying : d.req = r
              THEN held[r] \cup {content'[q.pos]} ELSE held[r]]
        /\ UNCHANGED <<req_queue, local_q, slots, used, outcome, begun>>
  BY DEF Execute
<1>2. PICK op, p, d : /\ op = Request[c.req].op /\ p = Request[c.req].pos
                      /\ d = [c EXCEPT !.done = TRUE, !.got = IF op = "get" THEN content[p] ELSE NoPage]
  OBVIOUS
<1>3. c.req \in Requests /\ op \in Ops /\ p \in Positions /\ c \in [req : Requests, done : BOOLEAN, got : Pages]
  BY <1>0, <1>2, NvmeAssumption DEF NvmeTypeOK, Requests, Positions, Ops
<1>4. NoPage \in Pages /\ content[p] \in Pages
  BY <1>0, <1>3 DEF NoPage, Page, Pages, NvmeTypeOK
<1>5. /\ d.req = c.req /\ d.done = TRUE /\ (op = "get" => d.got = content[p])
      /\ d \in [req : Requests, done : BOOLEAN, got : Pages]
  BY <1>2, <1>3, <1>4
<1>6. /\ flying' = (flying \ {c}) \cup {d} /\ d \notin flying
      /\ \A e \in flying : e.req = c.req => e = c
  <2>1. flying' = (flying \ {c}) \cup {d}
    BY <1>1, <1>2
  <2> QED BY <1>0, <1>1, <1>5, <2>1 DEF OutInv, FlyInv
<1>7. /\ content' \in [Positions -> Pages]
      /\ \A z \in Positions : content'[z].page = z
      /\ \A z \in Positions : (z = p /\ op \in {"put", "trim"}) \/ content'[z] = content[z]
  <2>1. \A b \in Requests \cup {Blank} : Page(p, b) \in Pages /\ Page(p, b).page = p
    BY <1>3 DEF Page, Pages
  <2>2. content[p].page = p
    BY <1>0, <1>3 DEF OutInv
  <2>3. CASE op = "put"
    <3>1. content' = [content EXCEPT ![p] = Page(p, c.req)]
      BY <1>1, <1>2, <2>2, <2>3
    <3> QED BY <1>0, <1>3, <2>1, <2>3, <3>1 DEF OutInv, NvmeTypeOK
  <2>4. CASE op = "trim"
    <3>1. content' = [content EXCEPT ![p] = Page(p, Blank)]
      BY <1>1, <1>2, <2>2, <2>4
    <3> QED BY <1>0, <1>3, <2>1, <2>4, <3>1 DEF OutInv, NvmeTypeOK
  <2>5. CASE op # "put" /\ op # "trim"
    <3>1. content' = content
      BY <1>1, <1>2, <2>5
    <3> QED BY <1>0, <3>1 DEF OutInv, NvmeTypeOK
  <2> QED BY <2>3, <2>4, <2>5
<1>8. /\ held' \in [Requests -> SUBSET Pages]
      /\ \A r \in Requests : held[r] \subseteq held'[r]
      /\ \A r \in Requests :
           /\ Request[r].op = "get" /\ op \in {"put", "trim"} /\ Request[r].pos = p
           /\ \E e \in flying : e.req = r
           => content'[p] \in held'[r]
  <2>1. held' = [r \in Requests |->
              IF /\ Request[r].op = "get" /\ op \in {"put", "trim"}
                 /\ Request[r].pos = p
                 /\ \E e \in flying : e.req = r
              THEN held[r] \cup {content'[p]} ELSE held[r]]
    BY <1>1, <1>2
  <2>2. content'[p] \in Pages /\ \A r \in Requests : held[r] \in SUBSET Pages
    BY <1>0, <1>3, <1>7 DEF NvmeTypeOK
  <2>3. \A r \in Requests : held'[r] \in SUBSET Pages
    BY <2>1, <2>2
  <2>4. held' = [r \in Requests |-> held'[r]]
    BY <2>1
  <2>5. held' \in [Requests -> SUBSET Pages]
    BY <2>3, <2>4
  <2> QED BY <2>1, <2>5
<1>9. UNCHANGED <<req_queue, local_q, slots, outcome, begun>> /\ ~c.done
  BY <1>1
<1>10. /\ \A x : Unanswered(x)' <=> Unanswered(x)
       /\ \A x, s : Rides(x, s)' <=> Rides(x, s)
       /\ \A x : Out(x)' <=> Out(x)
  BY <1>5, <1>6, <1>9 DEF Unanswered, Rides, Out
<1>11. flying' \subseteq [req : Requests, done : BOOLEAN, got : Pages] /\ IsFiniteSet(flying')
  <2>1. IsFiniteSet(flying \ {c})
    BY <1>0, FS_RemoveElement DEF NvmeTypeOK
  <2>2. IsFiniteSet((flying \ {c}) \cup {d})
    BY <2>1, FS_AddElement
  <2> QED BY <1>0, <1>5, <1>6, <2>2 DEF NvmeTypeOK
<1>12. NvmeTypeOK'
  BY <1>0, <1>7, <1>8, <1>9, <1>11 DEF NvmeTypeOK
<1>13. QueueInv'
  BY <1>0, <1>9, <1>10, QueuesKept
<1>14. FlyInv' /\ RideInv'
  <2>1. \A e \in flying : e.req \in Requests
    BY <1>0 DEF NvmeTypeOK
  <2>2. FlyInv'
    BY <1>0, <1>3, <1>5, <1>6, <1>10, <2>1 DEF OutInv, FlyInv
  <2>3. RideInv'
    BY <1>0, <1>9, <1>10 DEF OutInv, RideInv
  <2> QED BY <2>2, <2>3
<1>15. ReadInv'
  <2> SUFFICES ASSUME NEW e \in flying', Request[e.req].op = "get"
               PROVE  IF e.done THEN e.got \in held'[e.req] /\ e.got.page = Request[e.req].pos
                                ELSE content'[Request[e.req].pos] \in held'[e.req]
    BY DEF ReadInv
  <2>1. CASE e = d
    <3>1. content[p] \in held[c.req] /\ content[p].page = p
      BY <1>0, <1>1, <1>2, <1>3, <1>5, <2>1 DEF OutInv, ReadInv
    <3> QED BY <1>2, <1>3, <1>5, <1>8, <2>1, <3>1
  <2>2. CASE e \in flying
    <3>1. e.req \in Requests /\ Request[e.req].pos \in Positions
      BY <1>0, <2>2, NvmeAssumption DEF NvmeTypeOK, Requests, Positions
    <3>2. IF e.done THEN e.got \in held[e.req] /\ e.got.page = Request[e.req].pos
                    ELSE content[Request[e.req].pos] \in held[e.req]
      BY <1>0, <2>2 DEF OutInv, ReadInv
    <3> QED BY <1>7, <1>8, <2>2, <3>1, <3>2
  <2> QED BY <1>6, <2>1, <2>2
<1>16. ReadsTrue'
  BY <1>0, <1>8, <1>9 DEF OutInv, ReadsTrue
<1>17. OutInv'
  BY <1>0, <1>7, <1>9, <1>14, <1>15, <1>16 DEF OutInv
<1>18. ChainInv'
  BY <1>0, <1>9 DEF ChainInv
<1>19. SlotsHaveReads'
  <2> SUFFICES ASSUME NEW z \in Positions
               PROVE  Cardinality(Slots(z)') <= Cardinality(Reads(z)')
    BY DEF SlotsHaveReads
  <2>1. Slots(z)' = Slots(z) /\ Cardinality(Slots(z)) <= Cardinality(Reads(z)) /\ IsFiniteSet(Reads(z))
    BY <1>0, <1>9, TableFinite DEF Slots, SlotsHaveReads
  <2>2. CASE c \in Reads(z)
    <3>1. Reads(z)' = (Reads(z) \ {c}) \cup {d} /\ d \notin Reads(z) \ {c}
      BY <1>5, <1>6, <2>2 DEF Reads
    <3>2. IsFiniteSet(Reads(z) \ {c}) /\ Cardinality(Reads(z) \ {c}) = Cardinality(Reads(z)) - 1
      BY <2>1, <2>2, FS_RemoveElement
    <3>3. Cardinality((Reads(z) \ {c}) \cup {d}) = Cardinality(Reads(z) \ {c}) + 1
      BY <3>1, <3>2, FS_AddElement
    <3>4. Cardinality(Reads(z)) \in Nat
      BY <2>1, FS_CardinalityType
    <3> QED BY <2>1, <3>1, <3>2, <3>3, <3>4
  <2>3. CASE c \notin Reads(z)
    <3>1. Reads(z)' = Reads(z)
      BY <1>5, <1>6, <2>3 DEF Reads
    <3> QED BY <2>1, <3>1
  <2> QED BY <2>2, <2>3
<1> QED BY <1>12, <1>13, <1>17, <1>18, <1>19 DEF NvmeInv

\* A read is done: it and its riders leave together.
LEMMA GetDoneKeeps ==
  ASSUME NvmeInv, NEW c \in flying, NEW ok \in BOOLEAN, c.done \/ ~ok, Request[c.req].op = "get",
         GetDone(c, ok), flying' = flying \ {c}, UNCHANGED <<req_queue, local_q, content, begun>>
  PROVE  NvmeInv'
<1>0. NvmeTypeOK /\ QueueInv /\ OutInv /\ ChainInv /\ SlotsHaveReads
  BY DEF NvmeInv
<1>1. PICK r, p, s, v : /\ r = c.req /\ p = Request[r].pos /\ s = Find(p)
                        /\ v = IF ok THEN c.got ELSE Error
  OBVIOUS
<1>2. r \in Requests /\ p \in Positions /\ c.got \in Pages /\ Request[r].op = "get"
  BY <1>0, <1>1, NvmeAssumption DEF NvmeTypeOK, Requests, Positions
<1>3. PICK A : A = {x \in Requests : x = r \/ (s # None /\ x \in Range(slots[s].waiters))}
  OBVIOUS
<1>4. /\ outcome' = [x \in Requests |-> IF x \in A THEN Append(outcome[x], v) ELSE outcome[x]]
      /\ slots' = IF s = None THEN slots ELSE [slots EXCEPT ![s].state = "DELETED"]
      /\ held' = [x \in Requests |-> IF x \in A /\ x # r THEN held[r] ELSE held[x]]
  <2>1. held' = [x \in Requests |-> IF s # None /\ x \in Range(slots[s].waiters)
                                   THEN held[r] ELSE held[x]]
    BY <1>1 DEF GetDone
  <2>2. held' = [x \in Requests |-> IF x \in A /\ x # r THEN held[r] ELSE held[x]]
    BY <1>3, <2>1
  <2>3. outcome' = [x \in Requests |-> IF x \in A THEN Append(outcome[x], v) ELSE outcome[x]]
    BY <1>1, <1>3 DEF GetDone
  <2> QED BY <1>1, <2>2, <2>3 DEF GetDone, Erased
<1>5. s = None \/ (s \in Slots(p) /\ s \in SlotIds /\ slots[s].state = "OCCUPIED" /\ slots[s].pos = p)
  BY <1>0, <1>1, <1>2, FindIs DEF Slots
<1>6. \A x \in A : x \in Requests /\ (x = r \/ (s # None /\ Rides(x, s)))
  BY <1>3, <1>5 DEF Rides
<1>7. /\ \A x \in A : Unanswered(x) /\ Request[x].op = "get" /\ Request[x].pos = p /\ Out(x)
      /\ r \in A /\ A \in SUBSET Requests
      /\ \A t \in SlotIds : ~Rides(r, t)
  <2>1. Unanswered(r) /\ Out(r) /\ \A t \in SlotIds : ~Rides(r, t)
    BY <1>0, <1>1 DEF OutInv, FlyInv, Out
  <2>2. \A x \in A : x = r \/ (s \in SlotIds /\ slots[s].pos = p /\ Rides(x, s) /\ x \in Requests)
    BY <1>5, <1>6
  <2>3. \A x \in A : Unanswered(x) /\ Request[x].op = "get" /\ Request[x].pos = p /\ Out(x)
    BY <1>0, <1>1, <1>2, <2>1, <2>2 DEF OutInv, RideInv, Out
  <2> QED BY <1>2, <1>3, <2>1, <2>3
<1>8. v \in Pages /\ (v = Error \/ (v \in held[r] /\ v.page = p))
  <2>1. Error \in Pages
    BY DEF Error, Page, Pages
  <2>2. ok => c.got \in held[r] /\ c.got.page = p
    BY <1>0, <1>1, <1>2 DEF OutInv, ReadInv
  <2> QED BY <1>1, <1>2, <2>1, <2>2
<1>9. \A x \in A : outcome'[x] = <<v>> /\ outcome'[x][1] = v /\ held'[x] = held[r]
  <2>1. \A u \in Pages : Append(<<>>, u) = <<u>> /\ <<u>>[1] = u
    OBVIOUS
  <2>2. \A x \in A : outcome'[x] = Append(<<>>, v)
    BY <1>4, <1>6, <1>7 DEF Unanswered
  <2>3. \A x \in A : held'[x] = held[r]
    BY <1>2, <1>4, <1>6
  <2> QED BY <1>8, <2>1, <2>2, <2>3
<1>10. \A x \in A : /\ Unanswered(x) /\ \E u \in Pages : outcome'[x] = <<u>>
                    /\ Request[x].op = "get" =>
                         \/ outcome'[x] = <<Error>>
                         \/ /\ outcome'[x][1] \in held'[x]
                            /\ outcome'[x][1].page = Request[x].pos
  BY <1>7, <1>8, <1>9
<1>11. /\ outcome' = [x \in Requests |-> outcome'[x]]
       /\ \A x \in Requests \ A : outcome'[x] = outcome[x] /\ held'[x] = held[x]
  BY <1>4
<1>12. flying' \subseteq flying /\ \A e \in flying' : e.req \notin A
  <2>1. \A e \in flying' : e \in flying /\ e.req # r /\ e.req \in Requests
    BY <1>0, <1>1 DEF OutInv, FlyInv, NvmeTypeOK
  <2>2. \A e \in flying' : ~(s # None /\ Rides(e.req, s))
    BY <1>0, <1>5, <2>1 DEF OutInv, FlyInv
  <2> QED BY <1>6, <2>1, <2>2
<1>13. \A t \in SlotIds : /\ t # s => slots'[t] = slots[t]
                          /\ t = s => slots'[t].state = "DELETED" /\ slots[t].state = "OCCUPIED"
  <2>1. CASE s = None
    BY <1>4, <2>1 DEF None, SlotIds
  <2>2. CASE s # None
    <3>1. slots' = [slots EXCEPT ![s].state = "DELETED"]
      BY <1>4, <2>2
    <3> QED BY <1>0, <1>5, <2>2, <3>1 DEF NvmeTypeOK
  <2> QED BY <2>1, <2>2
<1>14. \A x \in Requests : \A t \in SlotIds :
          Rides(x, t)' => Rides(x, t) /\ x \notin A /\ slots'[t].pos = slots[t].pos
  <2> SUFFICES ASSUME NEW x \in Requests, NEW t \in SlotIds, Rides(x, t)'
               PROVE  Rides(x, t) /\ x \notin A /\ slots'[t].pos = slots[t].pos
    OBVIOUS
  <2>1. t # s /\ Rides(x, t) /\ slots'[t].pos = slots[t].pos
    BY <1>13 DEF Rides
  <2>2. x # r
    BY <1>7, <2>1
  <2>3. ~(s # None /\ Rides(x, s))
    BY <1>0, <1>5, <2>1 DEF OutInv, RideInv
  <2> QED BY <1>6, <2>1, <2>2, <2>3
<1>15. /\ OutInv' /\ outcome' \in [Requests -> Seq(Pages)]
       /\ \A x \in Requests \ A : Unanswered(x) /\ ~Out(x) => outcome'[x] = outcome[x] /\ ~Out(x)'
  <2>1. A \in SUBSET Requests /\ UNCHANGED <<content, begun>>
    BY <1>7
  <2> QED BY <1>0, <1>10, <1>11, <1>12, <1>14, <2>1, AnsweredKeeps
<1>16. QueueInv'
  <2>1. \A x \in Requests : Unanswered(x) /\ ~Out(x) => outcome'[x] = outcome[x] /\ ~Out(x)'
    BY <1>7, <1>15
  <2> QED BY <1>0, <2>1, QueuesKept
<1>17. NvmeTypeOK'
  <2>1. slots' \in [SlotIds -> [state : States, pos : Positions \cup {0}, waiters : Seq(Requests)]]
    <3>1. CASE s = None
      BY <1>0, <1>4, <3>1 DEF NvmeTypeOK
    <3>2. CASE s # None
      BY <1>0, <1>4, <1>5, <3>2 DEF NvmeTypeOK, States
    <3> QED BY <3>1, <3>2
  <2>2. held' \in [Requests -> SUBSET Pages]
    BY <1>0, <1>2, <1>4 DEF NvmeTypeOK
  <2>3. flying' \subseteq [req : Requests, done : BOOLEAN, got : Pages] /\ IsFiniteSet(flying')
    BY <1>0, FS_RemoveElement DEF NvmeTypeOK
  <2> QED BY <1>0, <1>15, <2>1, <2>2, <2>3 DEF NvmeTypeOK
<1>18. ChainInv'
  <2>1. /\ \A t \in SlotIds : slots[t].state # "EMPTY" => slots'[t].state # "EMPTY"
        /\ \A t \in SlotIds : slots'[t].state = "OCCUPIED" =>
             slots[t].state = "OCCUPIED" /\ slots'[t].pos = slots[t].pos
    BY <1>13
  <2> QED BY <1>0, <2>1, ChainKept
<1>19. SlotsHaveReads'
  <2>1. /\ Reads(p)' = Reads(p) \ {c} /\ Slots(p)' \subseteq Slots(p) \ {s}
        /\ \A q \in Positions : q # p => Slots(q)' \subseteq Slots(q) /\ Reads(q)' = Reads(q)
    BY <1>1, <1>13 DEF Reads, Slots
  <2>2. s \in Slots(p) \/ Slots(p) = {}
    BY <1>0, <1>1, <1>2, FindIs
  <2>3. IsFiniteSet(Slots(p)) /\ IsFiniteSet(Reads(p)) /\ Cardinality(Slots(p)) <= Cardinality(Reads(p))
    BY <1>0, <1>2, TableFinite DEF SlotsHaveReads
  <2>4. Cardinality(Slots(p)') <= Cardinality(Reads(p) \ {c})
    BY <2>1, <2>2, <2>3, OneLess
  <2>5. Cardinality(Slots(p)') <= Cardinality(Reads(p)')
    BY <2>1, <2>4
  <2> QED BY <1>0, <1>2, <2>1, <2>5, CountsButOne
<1> QED BY <1>0, <1>15, <1>16, <1>17, <1>18, <1>19 DEF NvmeInv

\* A completion answers its request, and the riders of a read.
LEMMA PollKeeps == ASSUME NvmeInv, Poll PROVE NvmeInv'
<1>0. NvmeTypeOK /\ QueueInv /\ OutInv /\ ChainInv /\ SlotsHaveReads
  BY DEF NvmeInv
<1>1. PICK c \in flying, ok \in BOOLEAN :
        /\ c.done \/ ~ok
        /\ flying' = flying \ {c}
        /\ \/ Request[c.req].op = "get" /\ GetDone(c, ok)
           \/ /\ Request[c.req].op # "get"
              /\ outcome' = [outcome EXCEPT ![c.req] = Append(@, IF ok THEN NoPage ELSE Error)]
              /\ UNCHANGED <<slots, held>>
        /\ UNCHANGED <<req_queue, local_q, content, begun>>
  BY DEF Poll
<1>2. CASE Request[c.req].op = "get" /\ GetDone(c, ok)
  BY <1>1, <1>2, GetDoneKeeps
<1>3. CASE /\ Request[c.req].op # "get"
           /\ outcome' = [outcome EXCEPT ![c.req] = Append(@, IF ok THEN NoPage ELSE Error)]
           /\ UNCHANGED <<slots, held>>
  <2>1. PICK r, v : r = c.req /\ v = IF ok THEN NoPage ELSE Error
    OBVIOUS
  <2>2. r \in Requests /\ v \in Pages
    BY <1>0, <2>1 DEF NvmeTypeOK, NoPage, Error, Page, Pages
  <2>3. /\ Unanswered(r) /\ Out(r) /\ \A t \in SlotIds : ~Rides(r, t)
        /\ \A e \in flying : e.req = r => e = c
    BY <1>0, <2>1 DEF OutInv, FlyInv, Out
  <2>4. /\ outcome'[r] = <<v>> /\ outcome' = [x \in Requests |-> outcome'[x]]
        /\ \A x \in Requests \ {r} : outcome'[x] = outcome[x] /\ held'[x] = held[x]
    <3>1. \A u \in Pages : Append(<<>>, u) = <<u>>
      OBVIOUS
    <3>2. outcome' = [outcome EXCEPT ![r] = Append(<<>>, v)]
      BY <1>0, <1>3, <2>1, <2>2, <2>3 DEF NvmeTypeOK, Unanswered
    <3> QED BY <1>0, <1>3, <2>2, <3>1, <3>2 DEF NvmeTypeOK
  <2>5. \A x \in {r} : /\ Unanswered(x) /\ \E u \in Pages : outcome'[x] = <<u>>
                       /\ Request[x].op = "get" =>
                            \/ outcome'[x] = <<Error>>
                            \/ /\ outcome'[x][1] \in held'[x]
                               /\ outcome'[x][1].page = Request[x].pos
    BY <1>3, <2>1, <2>2, <2>3, <2>4
  <2>6. flying' \subseteq flying /\ \A e \in flying' : e.req \notin {r}
    BY <1>1, <2>3
  <2>7. \A x \in Requests : \A t \in SlotIds :
          Rides(x, t)' => Rides(x, t) /\ x \notin {r} /\ slots'[t].pos = slots[t].pos
    BY <1>3, <2>3 DEF Rides
  <2>8. /\ OutInv' /\ outcome' \in [Requests -> Seq(Pages)]
        /\ \A x \in Requests \ {r} : Unanswered(x) /\ ~Out(x) => outcome'[x] = outcome[x] /\ ~Out(x)'
    <3>1. {r} \in SUBSET Requests /\ UNCHANGED <<content, begun>>
      BY <1>1, <2>2
    <3> QED BY <1>0, <2>4, <2>5, <2>6, <2>7, <3>1, AnsweredKeeps
  <2>9. QueueInv'
    <3>1. \A x \in Requests : Unanswered(x) /\ ~Out(x) => outcome'[x] = outcome[x] /\ ~Out(x)'
      BY <2>3, <2>8
    <3> QED BY <1>0, <1>1, <3>1, QueuesKept
  <2>10. NvmeTypeOK'
    <3>1. flying' \subseteq [req : Requests, done : BOOLEAN, got : Pages] /\ IsFiniteSet(flying')
      BY <1>0, <1>1, FS_RemoveElement DEF NvmeTypeOK
    <3> QED BY <1>0, <1>1, <1>3, <2>8, <3>1 DEF NvmeTypeOK
  <2>11. ChainInv' /\ SlotsHaveReads'
    <3>1. \A q : Slots(q)' = Slots(q) /\ Reads(q)' = Reads(q)
      BY <1>1, <1>3 DEF Slots, Reads
    <3> QED BY <1>0, <1>3, <3>1 DEF ChainInv, SlotsHaveReads
  <2> QED BY <2>8, <2>9, <2>10, <2>11 DEF NvmeInv
<1> QED BY <1>1, <1>2, <1>3

\* NvmeInv is inductive.
LEMMA NextNvmeInv == NvmeInv /\ [NvmeNext]_nvmevars => NvmeInv'
<1> SUFFICES ASSUME NvmeInv, [NvmeNext]_nvmevars PROVE NvmeInv'
  OBVIOUS
<1>1. ASSUME NEW r \in Requests, Ask(r) PROVE NvmeInv'
  BY <1>1, AskKeeps
<1>2. ASSUME NEW o \in Ops, Refill(o) PROVE NvmeInv'
  BY <1>2, RefillKeeps
<1>3. ASSUME NEW o \in Ops \ {"get"}, HandleQueue(o) PROVE NvmeInv'
  BY <1>3, HandleQueueKeeps
<1>4. CASE HandleGetQueue
  BY <1>4, HandleGetQueueKeeps
<1>5. CASE Execute
  BY <1>5, ExecuteKeeps
<1>6. CASE Poll
  BY <1>6, PollKeeps
<1>7. CASE UNCHANGED nvmevars
  <2>1. NvmeTypeOK' /\ ChainInv' /\ SlotsHaveReads'
    BY <1>7 DEF nvmevars, NvmeInv, NvmeTypeOK, ChainInv, SlotsHaveReads, Slots, Reads
  <2>2. /\ \A x : (Unanswered(x)' <=> Unanswered(x)) /\ (Out(x)' <=> Out(x))
        /\ \A x, s : Rides(x, s)' <=> Rides(x, s)
    BY <1>7 DEF nvmevars, Unanswered, Out, Rides
  <2>3. QueueInv'
    BY <1>7, <2>2, QueuesKept DEF nvmevars, NvmeInv
  <2>4. FlyInv' /\ RideInv'
    BY <1>7, <2>2 DEF nvmevars, NvmeInv, OutInv, FlyInv, RideInv
  <2>5. OutInv'
    BY <1>7, <2>4 DEF nvmevars, NvmeInv, OutInv, ReadInv, ReadsTrue
  <2> QED BY <2>1, <2>3, <2>5 DEF NvmeInv
<1> QED BY <1>1, <1>2, <1>3, <1>4, <1>5, <1>6, <1>7 DEF NvmeNext, NvmeAdvance

-----------------------------------------------------------------------------
(* A request waits in one queue, is with the device or rides on a read     *)
(* that is, until it is answered; what a read in flight will return is a   *)
(* page it may return; and probing reaches every occupied slot.            *)
THEOREM NvmeInvHolds == NvmeSpec => []NvmeInv
<1> QED BY InitNvmeInv, NextNvmeInv, PTL DEF NvmeSpec

(* merge_table, for any table and any requests: a read returns what its    *)
(* page held since the read that was submitted for it, never another page, *)
(* and every slot stands for a read in flight (handle_get_queue,           *)
(* on_get_data_done).                                                      *)
THEOREM PagesAreTrue == NvmeSpec => []PagesTrue
<1>1. NvmeInv => PagesTrue
  BY DEF NvmeInv, OutInv, PagesTrue
<1> QED BY <1>1, NvmeInvHolds, PTL

-----------------------------------------------------------------------------
\* Nobody who waits is forgotten, and every command has its place.
Kept(r) == outcome[r] # <<>> \/ Out(r) \/ \E o \in Ops : r \in Queued(o)
OnceInv ==
  /\ \A r \in Requests : Len(outcome[r]) <= 1
  /\ used \in Nat /\ used = Cardinality(flying) /\ used <= Depth + 1
  /\ begun \subseteq Requests /\ \A r \in begun \ unqueued : Kept(r)

\* A queue is its head and the rest.
LEMMA HeadOrTail ==
  ASSUME NEW S, NEW s \in Seq(S), s # <<>>
  PROVE  Range(s) \subseteq Range(Tail(s)) \cup {Head(s)}
<1>1. /\ Head(s) = s[1] /\ Tail(s) \in Seq(S) /\ Len(s) \in Nat \ {0}
      /\ Len(Tail(s)) = Len(s) - 1 /\ \A i \in 1 .. Len(s) - 1 : Tail(s)[i] = s[i + 1]
  OBVIOUS
<1>2. DOMAIN s = 1 .. Len(s) /\ DOMAIN Tail(s) = 1 .. Len(s) - 1
  BY <1>1
<1>3. \A i \in 1 .. Len(s) : i # 1 => i - 1 \in 1 .. Len(s) - 1 /\ s[i] = Tail(s)[i - 1]
  BY <1>1
<1> SUFFICES ASSUME NEW i \in 1 .. Len(s) PROVE s[i] \in Range(Tail(s)) \cup {Head(s)}
  BY <1>2 DEF Range
<1>4. CASE i = 1
  BY <1>1, <1>4
<1>5. CASE i # 1
  <2>1. i - 1 \in DOMAIN Tail(s) /\ s[i] = Tail(s)[i - 1]
    BY <1>2, <1>3, <1>5
  <2> QED BY <2>1 DEF Range
<1> QED BY <1>4, <1>5

\* A callback runs once: it is given an answer when it has none.
LEMMA ToldIs ==
  ASSUME NvmeTypeOK, NEW r \in Requests, Len(outcome[r]) <= 1,
         outcome'[r] = outcome[r] \/ (outcome[r] = <<>> /\ \E v \in Pages : outcome'[r] = Append(outcome[r], v))
  PROVE  Len(outcome'[r]) <= 1 /\ (outcome[r] # <<>> => outcome'[r] # <<>>)
<1>1. \A v \in Pages : Len(Append(<<>>, v)) = 1
  OBVIOUS
<1> QED BY <1>1

\* The head of a ring goes to the device or is answered.
LEMMA TakenKept ==
  ASSUME NvmeInv, OnceInv, NEW o \in Ops, local_q[o] # <<>>, NEW r, r = Head(local_q[o]),
         local_q' = [local_q EXCEPT ![o] = Tail(@)], UNCHANGED <<req_queue, begun, unqueued>>,
         Kept(r)',
         \A x \in Requests : (outcome[x] # <<>> \/ Out(x)) => (outcome'[x] # <<>> \/ Out(x)')
  PROVE  \A x \in begun' \ unqueued' : Kept(x)'
<1>1. /\ Range(local_q[o]) \subseteq Range(Tail(local_q[o])) \cup {Head(local_q[o])}
      /\ local_q'[o] = Tail(local_q[o])
      /\ \A g \in Ops : g # o => local_q'[g] = local_q[g]
  BY QueueTypes, HeadOrTail DEF NvmeInv, NvmeTypeOK
<1>2. \A x : \A g \in Ops : x \in Queued(g) => x \in Queued(g)' \/ x = r
  BY <1>1 DEF Queued
<1> SUFFICES ASSUME NEW x \in begun \ unqueued, x # r PROVE Kept(x)'
  OBVIOUS
<1>3. x \in Requests /\ Kept(x)
  BY DEF OnceInv
<1>4. outcome[x] # <<>> \/ Out(x) \/ \E g \in Ops : x \in Queued(g)
  BY <1>3 DEF Kept
<1>5. outcome'[x] # <<>> \/ Out(x)' \/ \E g \in Ops : x \in Queued(g)'
  BY <1>2, <1>3, <1>4
<1> QED BY <1>5 DEF Kept

\* One command more, or as many as before.
LEMMA CountIs ==
  ASSUME NvmeTypeOK, used \in Nat, used = Cardinality(flying), ~Busy,
         \/ UNCHANGED <<flying, used>>
         \/ used' = used + 1 /\ \E c : c \notin flying /\ flying' = flying \cup {c}
  PROVE  used' \in Nat /\ used' = Cardinality(flying') /\ used' <= Depth + 1
<1>1. \A c : c \notin flying => Cardinality(flying \cup {c}) = Cardinality(flying) + 1
  BY FS_AddElement DEF NvmeTypeOK
<1>2. used + 1 <= Depth + 1 /\ used + 1 \in Nat
  BY NvmeAssumption DEF Busy
<1>3. CASE UNCHANGED <<flying, used>>
  BY <1>2, <1>3, NvmeAssumption
<1>4. ASSUME used' = used + 1, NEW c, c \notin flying, flying' = flying \cup {c}
      PROVE  used' = Cardinality(flying')
  BY <1>1, <1>4
<1> QED BY <1>2, <1>3, <1>4

LEMMA AskOnce == ASSUME NvmeInv, OnceInv, NEW r \in Requests, Ask(r) PROVE OnceInv'
<1> DEFINE o == Request[r].op
<1>1. /\ begun' = begun \cup {r} /\ UNCHANGED <<local_q, slots, flying, used, outcome>>
      /\ \/ req_queue' = [req_queue EXCEPT ![o] = Append(@, r)] /\ UNCHANGED unqueued
         \/ UNCHANGED req_queue /\ unqueued' = unqueued \cup {r}
  BY DEF Ask
<1>2. o \in Ops
  BY NvmeAssumption DEF Ops, Requests
<1>3. req_queue[o] \in Seq(Requests) /\ Range(Append(req_queue[o], r)) = Range(req_queue[o]) \cup {r}
  BY <1>2, QueueTypes, AppendIs DEF NvmeInv
<1>4. \A x : Out(x)' <=> Out(x)
  BY <1>1 DEF Out, Rides
<1> HIDE DEF o
<1>5. \A x \in begun \ unqueued : Kept(x)'
  <2>1. \A x : \A g \in Ops : x \in Queued(g) => x \in Queued(g)'
    BY <1>1, <1>2, <1>3 DEF Queued, NvmeInv, NvmeTypeOK
  <2> SUFFICES ASSUME NEW x \in begun \ unqueued PROVE Kept(x)'
    OBVIOUS
  <2>2. outcome[x] # <<>> \/ Out(x) \/ \E g \in Ops : x \in Queued(g)
    BY DEF OnceInv, Kept
  <2> QED BY <1>1, <1>4, <2>1, <2>2 DEF Kept
<1>6. r \in unqueued' \/ Kept(r)'
  BY <1>1, <1>2, <1>3 DEF Kept, Queued, NvmeInv, NvmeTypeOK
<1> QED BY <1>1, <1>5, <1>6 DEF OnceInv

LEMMA RefillOnce == ASSUME NvmeInv, OnceInv, NEW o \in Ops, Refill(o) PROVE OnceInv'
<1> DEFINE r == Head(req_queue[o])
<1>1. /\ req_queue[o] # <<>> /\ local_q' = [local_q EXCEPT ![o] = Append(@, r)]
      /\ req_queue' = [req_queue EXCEPT ![o] = Tail(@)]
      /\ UNCHANGED <<slots, flying, used, outcome, begun, unqueued>>
  BY DEF Refill
<1>2. /\ req_queue[o] \in Seq(Requests) /\ local_q[o] \in Seq(Requests)
      /\ Range(req_queue[o]) \subseteq Range(Tail(req_queue[o])) \cup {r} /\ r \in Requests
  BY <1>1, QueueTypes, HeadOrTail, TailIs DEF NvmeInv
<1>3. Range(Append(local_q[o], r)) = Range(local_q[o]) \cup {r}
  BY <1>2, AppendIs
<1>4. \A x : Out(x)' <=> Out(x)
  BY <1>1 DEF Out, Rides
<1> HIDE DEF r
<1>5. \A x : \A g \in Ops : x \in Queued(g) => x \in Queued(g)'
  BY <1>1, <1>2, <1>3 DEF Queued, NvmeInv, NvmeTypeOK
<1> QED BY <1>1, <1>4, <1>5 DEF OnceInv, Kept

LEMMA HandleQueueOnce ==
  ASSUME NvmeInv, OnceInv, NEW o \in Ops \ {"get"}, HandleQueue(o) PROVE OnceInv'
<1>1. PICK r : r = Head(local_q[o])
  OBVIOUS
<1>2. /\ local_q[o] # <<>> /\ ~Busy /\ local_q' = [local_q EXCEPT ![o] = Tail(@)]
      /\ InFlight(r) \/ Refused(r)
      /\ UNCHANGED <<req_queue, slots, begun, unqueued>>
  BY <1>1 DEF HandleQueue
<1>3. r \in Requests /\ outcome[r] = <<>> /\ ~Out(r)
  BY <1>1, <1>2, TakenIs DEF NvmeInv, Unanswered
<1>5. CASE InFlight(r)
  <2>1. PICK c : c = [req |-> r, done |-> FALSE, got |-> NoPage]
    OBVIOUS
  <2>2. flying' = flying \cup {c} /\ c.req = r /\ used' = used + 1 /\ outcome' = outcome /\ c \notin flying
    BY <1>3, <1>5, <2>1 DEF InFlight, Out
  <2>3. Out(r)' /\ \A x \in Requests : Out(x) => Out(x)'
    BY <1>2, <2>2 DEF Out, Rides
  <2>4. \A x \in begun' \ unqueued' : Kept(x)'
    <3>1. Kept(r)'
      BY <2>3 DEF Kept
    <3>2. \A x \in Requests : (outcome[x] # <<>> \/ Out(x)) => (outcome'[x] # <<>> \/ Out(x)')
      BY <2>2, <2>3
    <3> QED BY <1>1, <1>2, <3>1, <3>2, TakenKept
  <2>5. used' \in Nat /\ used' = Cardinality(flying') /\ used' <= Depth + 1
    BY <1>2, <2>2, CountIs DEF OnceInv, NvmeInv
  <2> QED BY <1>2, <2>2, <2>4, <2>5 DEF OnceInv
<1>6. CASE Refused(r)
  <2>1. Error \in Pages
    BY DEF Error, Page, Pages
  <2>2. /\ UNCHANGED <<flying, used>> /\ outcome'[r] = Append(outcome[r], Error)
        /\ \A x \in Requests : x # r => outcome'[x] = outcome[x]
    BY <1>3, <1>6 DEF Refused, NvmeInv, NvmeTypeOK
  <2>3. \A x \in Requests : Len(outcome'[x]) <= 1 /\ (outcome[x] # <<>> => outcome'[x] # <<>>)
    BY <1>3, <2>1, <2>2, ToldIs DEF OnceInv, NvmeInv
  <2>4. \A x : Out(x)' <=> Out(x)
    BY <1>2, <2>2 DEF Out, Rides
  <2>5. \A x \in begun' \ unqueued' : Kept(x)'
    <3>1. Kept(r)'
      BY <1>3, <2>1, <2>2 DEF Kept
    <3>2. \A x \in Requests : (outcome[x] # <<>> \/ Out(x)) => (outcome'[x] # <<>> \/ Out(x)')
      BY <2>3, <2>4
    <3> QED BY <1>1, <1>2, <3>1, <3>2, TakenKept
  <2> QED BY <1>2, <2>2, <2>3, <2>5 DEF OnceInv, Busy
<1> QED BY <1>2, <1>5, <1>6

\* What insert() takes nobody rides on.
LEMMA RidesStay ==
  ASSUME NvmeTypeOK, NEW p \in Positions, NEW x, NEW s \in SlotIds, Rides(x, s)
  PROVE  Inserted(p)[s] = slots[s]
<1>1. CASE Inserted(p) = slots
  BY <1>1
<1>2. CASE Inserted(p) # slots
  <2>1. PICK t \in SlotIds :
          /\ slots[t].state # "OCCUPIED"
          /\ Inserted(p) = [slots EXCEPT ![t] = [state |-> "OCCUPIED", pos |-> p, waiters |-> <<>>]]
    BY <1>2, InsertedIs
  <2> QED BY <2>1 DEF Rides, NvmeTypeOK
<1> QED BY <1>1, <1>2

LEMMA HandleGetQueueOnce == ASSUME NvmeInv, OnceInv, HandleGetQueue PROVE OnceInv'
<1>1. PICK r, p : r = Head(local_q["get"]) /\ p = Request[r].pos
  OBVIOUS
<1>2. PICK s : s = Find(p)
  OBVIOUS
<1>3. /\ local_q["get"] # <<>> /\ ~Busy /\ local_q' = [local_q EXCEPT !["get"] = Tail(@)]
      /\ UNCHANGED <<req_queue, begun, unqueued>>
      /\ \/ /\ Rideable(s)
            /\ slots' = [slots EXCEPT ![s].waiters = Append(@, r)]
            /\ UNCHANGED <<flying, used, outcome>>
         \/ slots' = Inserted(p) /\ InFlight(r)
         \/ Refused(r) /\ UNCHANGED slots
         \/ /\ s # None
            /\ outcome' = [x \in Requests |->
                  IF x = r \/ x \in Range(slots[s].waiters)
                  THEN Append(outcome[x], Error) ELSE outcome[x]]
            /\ slots' = [Inserted(p) EXCEPT ![s].state = "DELETED"]
            /\ UNCHANGED <<flying, used>>
  BY <1>1, <1>2 DEF HandleGetQueue
<1>4. r \in Requests /\ p \in Positions /\ outcome[r] = <<>> /\ ~Out(r) /\ "get" \in Ops
  BY <1>1, <1>3, TakenIs DEF NvmeInv, Unanswered, Ops
<1>5. s = None \/ (s \in SlotIds /\ slots[s].state = "OCCUPIED" /\ slots[s].waiters \in Seq(Requests))
  BY <1>2, <1>4, FindIs DEF NvmeInv, NvmeTypeOK, Slots
<1>6. Error \in Pages
  BY DEF Error, Page, Pages
<1>7. SUFFICES /\ \A x \in Requests : Len(outcome'[x]) <= 1
               /\ used' \in Nat /\ used' = Cardinality(flying') /\ used' <= Depth + 1
               /\ outcome'[r] # <<>> \/ Out(r)'
               /\ \A x \in Requests : (outcome[x] # <<>> \/ Out(x)) => (outcome'[x] # <<>> \/ Out(x)')
  <2> SUFFICES \A x \in begun' \ unqueued' : Kept(x)'
    BY <1>3 DEF OnceInv
  <2>1. Kept(r)'
    BY <1>7 DEF Kept
  <2> QED BY <1>1, <1>3, <1>4, <1>7, <2>1, TakenKept
<1>8. CASE /\ Rideable(s)
           /\ slots' = [slots EXCEPT ![s].waiters = Append(@, r)]
           /\ UNCHANGED <<flying, used, outcome>>
  <2>1. s \in SlotIds /\ slots[s].state = "OCCUPIED" /\ slots[s].waiters \in Seq(Requests)
    BY <1>5, <1>8 DEF Rideable
  <2>2. PICK q : q = Append(slots[s].waiters, r)
    OBVIOUS
  <2>3. Range(q) = Range(slots[s].waiters) \cup {r}
    BY <1>4, <2>1, <2>2, AppendIs
  <2>4. slots' = [slots EXCEPT ![s].waiters = q]
    BY <1>8, <2>2
  <2>5. /\ slots'[s].state = "OCCUPIED" /\ slots'[s].waiters = q
        /\ \A t \in SlotIds : t # s => slots'[t] = slots[t]
    <3>1. NvmeTypeOK
      BY DEF NvmeInv
    <3>2. q \in Seq(Requests)
      BY <1>4, <2>1, <2>2, AppendIs
    <3>3. /\ slots' \in [SlotIds -> [state : States, pos : Positions \cup {0}, waiters : Seq(Requests)]]
          /\ slots'[s].waiters = q
          /\ \A t \in SlotIds : slots'[t].state = slots[t].state /\ slots'[t].pos = slots[t].pos
          /\ \A t \in SlotIds : t # s => slots'[t] = slots[t]
      BY <2>1, <2>4, <3>1, <3>2, WaitersOnly
    <3> QED BY <2>1, <3>3
  <2>6. Rides(r, s)' /\ \A t \in SlotIds : \A x : Rides(x, t) => Rides(x, t)'
    BY <2>3, <2>5 DEF Rides
  <2>7. Out(r)' /\ \A x : Out(x) => Out(x)'
    BY <1>8, <2>1, <2>6 DEF Out
  <2> QED BY <1>8, <2>7 DEF OnceInv
<1>9. CASE slots' = Inserted(p) /\ InFlight(r)
  <2>1. PICK c : c = [req |-> r, done |-> FALSE, got |-> NoPage]
    OBVIOUS
  <2>2. flying' = flying \cup {c} /\ c.req = r /\ used' = used + 1 /\ outcome' = outcome /\ c \notin flying
    BY <1>4, <1>9, <2>1 DEF InFlight, Out
  <2>3. \A t \in SlotIds : \A x : Rides(x, t) => Rides(x, t)'
    <3> SUFFICES ASSUME NEW t \in SlotIds, NEW x, Rides(x, t) PROVE Rides(x, t)'
      OBVIOUS
    <3>1. slots'[t] = slots[t]
      BY <1>4, <1>9, RidesStay DEF NvmeInv
    <3> QED BY <3>1 DEF Rides
  <2>4. Out(r)' /\ \A x : Out(x) => Out(x)'
    BY <2>2, <2>3 DEF Out
  <2>5. used' \in Nat /\ used' = Cardinality(flying') /\ used' <= Depth + 1
    BY <1>3, <2>2, CountIs DEF OnceInv, NvmeInv
  <2> QED BY <2>2, <2>4, <2>5 DEF OnceInv
<1>10. CASE Refused(r) /\ UNCHANGED slots
  <2>1. /\ UNCHANGED <<flying, used>> /\ outcome'[r] = Append(outcome[r], Error)
        /\ \A x \in Requests : x # r => outcome'[x] = outcome[x]
    BY <1>4, <1>10 DEF Refused, NvmeInv, NvmeTypeOK
  <2>2. \A x \in Requests : Len(outcome'[x]) <= 1 /\ (outcome[x] # <<>> => outcome'[x] # <<>>)
    BY <1>4, <1>6, <2>1, ToldIs DEF OnceInv, NvmeInv
  <2>3. outcome'[r] # <<>>
    BY <1>4, <1>6, <2>1
  <2>4. \A x : Out(x)' <=> Out(x)
    BY <1>10, <2>1 DEF Out, Rides
  <2> QED BY <2>1, <2>2, <2>3, <2>4 DEF OnceInv
<1>11. CASE /\ s # None
            /\ outcome' = [x \in Requests |->
                  IF x = r \/ x \in Range(slots[s].waiters)
                  THEN Append(outcome[x], Error) ELSE outcome[x]]
            /\ slots' = [Inserted(p) EXCEPT ![s].state = "DELETED"]
            /\ UNCHANGED <<flying, used>>
  <2>1. s \in SlotIds /\ slots[s].state = "OCCUPIED"
    BY <1>5, <1>11
  <2>2. \A x \in Requests : Rides(x, s) => outcome[x] = <<>>
    BY <2>1 DEF NvmeInv, OutInv, RideInv, Unanswered
  <2>3. \A x \in Requests : x \in Range(slots[s].waiters) <=> Rides(x, s)
    BY <2>1 DEF Rides
  <2>4. \A x \in Requests : /\ x = r \/ Rides(x, s) => outcome'[x] = Append(outcome[x], Error) /\ outcome[x] = <<>>
                            /\ ~(x = r \/ Rides(x, s)) => outcome'[x] = outcome[x]
    BY <1>4, <1>11, <2>2, <2>3
  <2>5. \A x \in Requests : Len(outcome'[x]) <= 1 /\ (outcome[x] # <<>> => outcome'[x] # <<>>)
    BY <1>6, <2>4, ToldIs DEF OnceInv, NvmeInv
  <2>6. \A x \in Requests : x = r \/ Rides(x, s) => outcome'[x] # <<>>
    BY <1>6, <2>4
  <2>7. \A t \in SlotIds : \A x : Rides(x, t) /\ t # s => Rides(x, t)'
    <3> SUFFICES ASSUME NEW t \in SlotIds, NEW x, Rides(x, t), t # s PROVE Rides(x, t)'
      OBVIOUS
    <3>1. Inserted(p)[t] = slots[t] /\ slots'[t] = Inserted(p)[t]
      BY <1>4, <1>11, RidesStay, InsertedIs DEF NvmeInv, NvmeTypeOK
    <3> QED BY <3>1 DEF Rides
  <2>8. \A x \in Requests : Out(x) => outcome'[x] # <<>> \/ Out(x)'
    BY <1>11, <2>6, <2>7 DEF Out
  <2> QED BY <1>4, <1>11, <2>5, <2>6, <2>8 DEF OnceInv
<1> QED BY <1>3, <1>8, <1>9, <1>10, <1>11

\* The device puts the command with its page in the place of the one without.
LEMMA ExecuteOnce == ASSUME NvmeInv, OnceInv, Execute PROVE OnceInv'
<1>1. PICK c \in flying :
        /\ ~c.done
        /\ \E got : flying' = (flying \ {c}) \cup {[c EXCEPT !.done = TRUE, !.got = got]}
        /\ UNCHANGED <<req_queue, local_q, slots, used, outcome, begun, unqueued>>
  BY DEF Execute
<1>2. PICK d, got : /\ d = [c EXCEPT !.done = TRUE, !.got = got]
                    /\ flying' = (flying \ {c}) \cup {d}
  BY <1>1
<1>3. d.req = c.req /\ d.done = TRUE
  BY <1>2 DEF NvmeInv, NvmeTypeOK
<1>4. d \notin flying
  BY <1>1, <1>3 DEF NvmeInv, OutInv, FlyInv
<1>5. IsFiniteSet(flying \ {c}) /\ Cardinality(flying \ {c}) = Cardinality(flying) - 1
  BY FS_RemoveElement DEF NvmeInv, NvmeTypeOK
<1>6. Cardinality((flying \ {c}) \cup {d}) = Cardinality(flying \ {c}) + 1
  BY <1>4, <1>5, FS_AddElement
<1>7. Cardinality(flying') = used'
  <2>1. used \in Nat /\ used = Cardinality(flying) /\ used' = used
    BY <1>1 DEF OnceInv
  <2>2. Cardinality(flying') = Cardinality(flying) - 1 + 1
    BY <1>2, <1>5, <1>6
  <2> QED BY <2>1, <2>2
<1>8. \A x : Out(x) => Out(x)'
  BY <1>1, <1>2, <1>3 DEF Out, Rides
<1>9. \A x : Kept(x) => Kept(x)'
  BY <1>1, <1>8 DEF Kept, Queued
<1> QED BY <1>1, <1>7, <1>9 DEF OnceInv

\* A completion answers its request and those that ride on its slot.
LEMMA PollOnce == ASSUME NvmeInv, OnceInv, Poll PROVE OnceInv'
<1>1. PICK c \in flying, ok \in BOOLEAN :
        /\ flying' = flying \ {c} /\ used' = used - 1 /\ used # 0
        /\ c.done \/ ~ok
        /\ \/ GetDone(c, ok)
           \/ /\ outcome' = [outcome EXCEPT ![c.req] = Append(@, IF ok THEN NoPage ELSE Error)]
              /\ UNCHANGED slots
        /\ UNCHANGED <<req_queue, local_q, begun, unqueued>>
  BY DEF Poll
<1>2. /\ c.req \in Requests /\ Request[c.req].pos \in Positions /\ c.got \in Pages /\ outcome[c.req] = <<>>
      /\ \A d \in flying : d # c => d.req # c.req
  BY NvmeAssumption DEF NvmeInv, NvmeTypeOK, OutInv, FlyInv, Requests, Positions, Unanswered
<1>3. used' \in Nat /\ used' = Cardinality(flying') /\ used' <= Depth + 1
  <2>1. Cardinality(flying \ {c}) = Cardinality(flying) - 1
    BY FS_RemoveElement DEF NvmeInv, NvmeTypeOK
  <2> QED BY <1>1, <2>1, NvmeAssumption DEF OnceInv
<1>4. SUFFICES \E A \in SUBSET Requests :
                 /\ c.req \in A
                 /\ \A x \in Requests : IF x \in A THEN \E v \in Pages : outcome[x] = <<>> /\ outcome'[x] = Append(<<>>, v)
                                        ELSE outcome'[x] = outcome[x]
                 /\ \A x \in Requests : \A t \in SlotIds : Rides(x, t) => x \in A \/ Rides(x, t)'
  <2>1. PICK A \in SUBSET Requests :
                 /\ c.req \in A
                 /\ \A x \in Requests : IF x \in A THEN \E v \in Pages : outcome[x] = <<>> /\ outcome'[x] = Append(<<>>, v)
                                        ELSE outcome'[x] = outcome[x]
                 /\ \A x \in Requests : \A t \in SlotIds : Rides(x, t) => x \in A \/ Rides(x, t)'
    BY <1>4
  <2>2. \A x \in Requests : Len(outcome'[x]) <= 1 /\ (outcome[x] # <<>> => outcome'[x] # <<>>)
    BY <2>1, ToldIs DEF OnceInv, NvmeInv
  <2>3. \A x \in A : outcome'[x] # <<>>
    BY <2>1
  <2>4. \A x \in Requests : Out(x) => outcome'[x] # <<>> \/ Out(x)'
    BY <1>1, <2>1, <2>3 DEF Out
  <2>5. \A x \in Requests : Kept(x) => Kept(x)'
    BY <1>1, <2>2, <2>4 DEF Kept, Queued
  <2> QED BY <1>1, <1>3, <2>2, <2>5 DEF OnceInv
<1>5. Error \in Pages /\ NoPage \in Pages
  BY DEF Error, NoPage, Page, Pages
<1>6. CASE /\ outcome' = [outcome EXCEPT ![c.req] = Append(@, IF ok THEN NoPage ELSE Error)]
           /\ UNCHANGED slots
  <2>1. /\ outcome'[c.req] = Append(<<>>, IF ok THEN NoPage ELSE Error)
        /\ \A x \in Requests : x # c.req => outcome'[x] = outcome[x]
    BY <1>2, <1>6 DEF NvmeInv, NvmeTypeOK
  <2>2. \A x, t : Rides(x, t) => Rides(x, t)'
    BY <1>6 DEF Rides
  <2>3. \E v \in Pages : outcome[c.req] = <<>> /\ outcome'[c.req] = Append(<<>>, v)
    BY <1>2, <1>5, <2>1
  <2>4. \A x \in Requests : IF x \in {c.req} THEN \E v \in Pages : outcome[x] = <<>> /\ outcome'[x] = Append(<<>>, v)
                            ELSE outcome'[x] = outcome[x]
    BY <2>1, <2>3
  <2>5. {c.req} \in SUBSET Requests
    BY <1>2
  <2> QED BY <2>2, <2>4, <2>5
<1>7. CASE GetDone(c, ok)
  <2>1. PICK s, v : s = Find(Request[c.req].pos) /\ v = (IF ok THEN c.got ELSE Error)
    OBVIOUS
  <2>2. PICK A : A = {x \in Requests : x = c.req \/ (s # None /\ x \in Range(slots[s].waiters))}
    OBVIOUS
  <2>3. /\ outcome' = [x \in Requests |-> IF x \in A THEN Append(outcome[x], v) ELSE outcome[x]]
        /\ slots' = IF s = None THEN slots ELSE Erased(s)
    BY <1>7, <2>1, <2>2 DEF GetDone
  <2>4. s = None \/ (s \in SlotIds /\ slots[s].state = "OCCUPIED")
    BY <1>2, <2>1, FindIs DEF NvmeInv, NvmeTypeOK, Slots
  <2>5. \A x \in A : x \in Requests /\ outcome[x] = <<>>
    BY <1>2, <2>2, <2>4 DEF NvmeInv, OutInv, RideInv, Rides, Unanswered
  <2>6. \A x \in Requests : \A t \in SlotIds : Rides(x, t) => x \in A \/ Rides(x, t)'
    <3> SUFFICES ASSUME NEW x \in Requests, NEW t \in SlotIds, Rides(x, t), x \notin A PROVE Rides(x, t)'
      OBVIOUS
    <3>1. slots'[t] = slots[t]
      BY <2>2, <2>3, <2>4 DEF Rides, Erased, NvmeInv, NvmeTypeOK
    <3> QED BY <3>1 DEF Rides
  <2>7. v \in Pages /\ A \in SUBSET Requests /\ c.req \in A
    BY <1>2, <1>5, <2>1, <2>2
  <2>8. \A x \in Requests : IF x \in A THEN \E u \in Pages : outcome[x] = <<>> /\ outcome'[x] = Append(<<>>, u)
                            ELSE outcome'[x] = outcome[x]
    BY <2>3, <2>5, <2>7
  <2> QED BY <2>6, <2>7, <2>8
<1> QED BY <1>1, <1>6, <1>7

LEMMA OnceStep == ASSUME NvmeInv, OnceInv, [NvmeNext]_nvmevars PROVE OnceInv'
<1>1. CASE UNCHANGED nvmevars
  <2>1. \A x : Kept(x)' <=> Kept(x)
    BY <1>1 DEF nvmevars, Kept, Out, Rides, Queued
  <2> QED BY <1>1, <2>1 DEF nvmevars, OnceInv
<1> QED BY <1>1, AskOnce, RefillOnce, HandleQueueOnce, HandleGetQueueOnce, ExecuteOnce, PollOnce
        DEF NvmeNext, NvmeAdvance

(* A request that a queue took is answered once, and the queue pair counts *)
(* its commands: nobody waits when the queues and the queue pair are       *)
(* empty, as nobody rides on a read that is not there.                     *)
THEOREM PagesAreAnsweredOnce == NvmeSpec => []AnsweredOnce
<1>1. NvmeInit => OnceInv
  BY FS_EmptySet, NvmeAssumption DEF NvmeInit, OnceInv
<1>2. NvmeInv /\ OnceInv => AnsweredOnce
  <2> SUFFICES ASSUME NvmeInv, OnceInv, NvmeQuiet, NEW r \in begun \ unqueued PROVE outcome[r] # <<>>
    BY DEF AnsweredOnce, OnceInv
  <2>1. \A o \in Ops : r \notin Queued(o)
    BY DEF NvmeQuiet, Queued, Range
  <2>2. ASSUME NEW s \in SlotIds, Rides(r, s) PROVE FALSE
    <3>1. PICK p \in Positions : s \in Slots(p)
      BY <2>2 DEF Rides, Slots, NvmeInv, ChainInv
    <3>2. Reads(p) = {}
      BY DEF NvmeQuiet, Reads
    <3>3. Cardinality(Slots(p)) <= 0
      BY <3>2, FS_EmptySet DEF NvmeInv, SlotsHaveReads
    <3>4. IsFiniteSet(Slots(p)) /\ Slots(p) # {}
      BY <3>1, TableFinite DEF NvmeInv
    <3> QED BY <3>3, <3>4, FS_EmptySet, FS_CardinalityType
  <2>3. ~Out(r)
    BY <2>2 DEF Out, NvmeQuiet
  <2> QED BY <2>1, <2>3 DEF OnceInv, Kept
<1> QED BY <1>1, <1>2, NvmeInvHolds, OnceStep, PTL DEF NvmeSpec

-----------------------------------------------------------------------------
(* The GPU.                                                                *)

\* What two sequences hold put together.
LEMMA ConcatIs ==
  ASSUME NEW S, NEW s \in Seq(S), NEW t \in Seq(S)
  PROVE  /\ s \o t \in Seq(S) /\ Len(s \o t) = Len(s) + Len(t)
         /\ \A i \in 1..Len(s) : (s \o t)[i] = s[i]
         /\ \A i \in 1..Len(t) : (s \o t)[Len(s) + i] = t[i]
OBVIOUS

\* What a sequence holds when its i-th element is erased.
LEMMA RemoveAtIs ==
  ASSUME NEW S, NEW s \in Seq(S), NEW i \in 1..Len(s)
  PROVE  /\ RemoveAt(s, i) \in Seq(S) /\ Len(RemoveAt(s, i)) = Len(s) - 1
         /\ \A j \in 1..Len(s) - 1 : RemoveAt(s, i)[j] = s[IF j < i THEN j ELSE j + 1]
<1> DEFINE a == SubSeq(s, 1, i - 1)
           b == SubSeq(s, i + 1, Len(s))
<1>1. /\ a \in Seq(S) /\ Len(a) = i - 1 /\ \A j \in 1..i - 1 : a[j] = s[j]
  OBVIOUS
<1>2. /\ b \in Seq(S) /\ Len(b) = Len(s) - i /\ \A j \in 1..Len(s) - i : b[j] = s[i + j]
  OBVIOUS
<1>3. RemoveAt(s, i) = a \o b
  BY DEF RemoveAt
<1> HIDE DEF a, b
<1>4. /\ a \o b \in Seq(S) /\ Len(a \o b) = Len(s) - 1
      /\ \A j \in 1..i - 1 : (a \o b)[j] = s[j]
      /\ \A j \in 1..Len(s) - i : (a \o b)[i - 1 + j] = s[i + j]
  <2>1. /\ a \o b \in Seq(S) /\ Len(a \o b) = Len(a) + Len(b)
        /\ \A j \in 1..Len(a) : (a \o b)[j] = a[j]
        /\ \A j \in 1..Len(b) : (a \o b)[Len(a) + j] = b[j]
    <3>1. a \in Seq(S) /\ b \in Seq(S)
      BY <1>1, <1>2
    <3> QED BY <3>1, ConcatIs
  <2>2. Len(a) = i - 1 /\ Len(b) = Len(s) - i /\ Len(s) \in Nat /\ i \in 1 .. Len(s)
    BY <1>1, <1>2
  <2>3. Len(a) + Len(b) = Len(s) - 1
    BY <2>2
  <2>4. \A j \in 1..i - 1 : (a \o b)[j] = s[j]
    BY <1>1, <2>1, <2>2
  <2>5. \A j \in 1..Len(s) - i : (a \o b)[i - 1 + j] = s[i + j]
    BY <1>2, <2>1, <2>2
  <2> QED BY <2>1, <2>3, <2>4, <2>5
<1>5. ASSUME NEW j \in 1..Len(s) - 1 PROVE RemoveAt(s, i)[j] = s[IF j < i THEN j ELSE j + 1]
  <2>1. CASE j < i
    BY <1>3, <1>4, <2>1
  <2>2. CASE ~(j < i)
    <3>1. PICK h \in 1..Len(s) - i : j = i - 1 + h
      <4>1. j - i + 1 \in 1..Len(s) - i /\ j = i - 1 + (j - i + 1)
        BY <2>2
      <4> QED BY <4>1
    <3>2. (a \o b)[j] = s[i + h]
      BY <1>4, <3>1
    <3>3. i + h = j + 1
      BY <3>1
    <3> QED BY <1>3, <2>2, <3>2, <3>3
  <2> QED BY <2>1, <2>2
<1> QED BY <1>3, <1>4, <1>5

\* A sequence without its head, position by position.
LEMMA TailAt ==
  ASSUME NEW S, NEW s \in Seq(S), s # <<>>
  PROVE  /\ Len(s) \in Nat \ {0} /\ Head(s) = s[1] /\ s[1] \in S
         /\ Tail(s) \in Seq(S) /\ Len(Tail(s)) = Len(s) - 1
         /\ \A j \in 1..Len(s) - 1 : Tail(s)[j] = s[j + 1]
OBVIOUS

\* A sequence with one more element, position by position.
LEMMA AppendAt ==
  ASSUME NEW S, NEW s \in Seq(S), NEW x \in S
  PROVE  /\ Append(s, x) \in Seq(S) /\ Len(s) \in Nat /\ Len(Append(s, x)) = Len(s) + 1
         /\ Append(s, x)[Len(s) + 1] = x /\ \A i \in 1 .. Len(s) : Append(s, x)[i] = s[i] /\ s[i] \in S
         /\ \A i \in 1 .. Len(s) + 1 : i \in 1 .. Len(s) \/ i = Len(s) + 1
OBVIOUS

\* A function on 1..n is a sequence.
LEMMA MadeIs ==
  ASSUME NEW S, NEW n \in Nat, NEW f \in [1..n -> S]
  PROVE  f \in Seq(S) /\ Len(f) = n /\ DOMAIN f = 1..n
OBVIOUS

\* A sequence of numbers below R is one below any larger bound.
LEMMA WiderSeq == ASSUME NEW S, NEW T, S \subseteq T, NEW s \in Seq(S) PROVE s \in Seq(T)
OBVIOUS


-----------------------------------------------------------------------------
\* The blocks of the pool are blocks of the memory, each there once.
LEMMA PoolIs ==
  ASSUME NEW n \in Nat, GpuTypeOK, FreeInv
  PROVE  /\ Len(free_blocks) \in Nat /\ Len(memory) \in Nat
         /\ Pooled(n) \in 0..Len(free_blocks) /\ Pooled(n) <= n
         /\ \A i \in 1..Len(free_blocks) : free_blocks[i] \in 1..Len(memory)
         /\ \A i, j \in 1..Len(free_blocks) : free_blocks[i] = free_blocks[j] => i = j
         /\ free_blocks \in Seq(1..Len(memory))
<1>1. free_blocks \in Seq(1..Len(memory)) /\ memory \in Seq(Values)
  BY DEF GpuTypeOK
<1>2. Len(memory) \in Nat
  BY <1>1
<1>3. PICK F \in Nat : F = Len(free_blocks) /\ DOMAIN free_blocks = 1..F
  BY <1>1
<1>4. \A i \in 1..F : free_blocks[i] \in 1..Len(memory)
  BY <1>1, <1>3
<1>5. \A i, j \in 1..F : free_blocks[i] = free_blocks[j] => i = j
  BY <1>3 DEF FreeInv, IsInjective
<1>6. Pooled(n) \in 0..F /\ Pooled(n) <= n
  BY <1>3 DEF Pooled
<1> QED BY <1>1, <1>2, <1>3, <1>4, <1>5, <1>6

\* What alloc() takes: blocks of the pool, then new ones, each once.
LEMMA BlocksAre ==
  ASSUME NEW n \in Nat, GpuTypeOK, FreeInv
  PROVE  LET room == Len(memory) + n - Pooled(n) IN
         /\ Pooled(n) \in 0..Len(free_blocks) /\ Pooled(n) <= n /\ room \in Nat /\ Len(memory) <= room
         /\ Blocks(n) \in Seq(1..room) /\ Len(Blocks(n)) = n
         /\ IsInjective(Blocks(n))
         /\ (1..Len(memory)) \cup ToSet(Blocks(n)) = 1..room
<1> DEFINE F == Len(free_blocks)
           M == Len(memory)
           P == Pooled(n)
           B == Blocks(n)
<1>1. /\ F \in Nat /\ M \in Nat /\ P \in 0..F /\ P <= n
      /\ \A i \in 1..F : free_blocks[i] \in 1..M
      /\ \A i, j \in 1..F : free_blocks[i] = free_blocks[j] => i = j
  BY PoolIs
<1>2. B = [i \in 1..n |-> IF i <= P THEN free_blocks[F + 1 - i] ELSE M + i - P]
  BY DEF Blocks
<1> HIDE DEF F, M, P, B
<1>3. /\ \A i \in 1..P : B[i] = free_blocks[F + 1 - i] /\ F + 1 - i \in 1..F /\ i \in 1..n
      /\ \A i \in P + 1..n : B[i] = M + i - P /\ B[i] \in M + 1..M + n - P /\ i \in 1..n
      /\ \A i \in 1..n : i \in 1..P \/ i \in P + 1..n
  BY <1>1, <1>2
<1>4. \A i \in 1..P : B[i] \in 1..M
  BY <1>1, <1>3
<1>5. \A i \in 1..n : B[i] \in 1..M + n - P
  BY <1>1, <1>3, <1>4
<1>6. B \in Seq(1..M + n - P) /\ Len(B) = n
  <2>1. B \in [1..n -> 1..M + n - P]
    BY <1>2, <1>5
  <2> QED BY <2>1, MadeIs
<1>7. DOMAIN B = 1..n
  BY <1>2
<1>8. \A i, j \in 1..n : B[i] = B[j] => i = j
  <2> SUFFICES ASSUME NEW i \in 1..n, NEW j \in 1..n, B[i] = B[j] PROVE i = j
    OBVIOUS
  <2>1. CASE i \in 1..P /\ j \in 1..P
    BY <1>1, <1>3, <2>1
  <2>2. CASE i \in P + 1..n /\ j \in P + 1..n
    BY <1>1, <1>3, <2>2
  <2>3. CASE i \in 1..P /\ j \in P + 1..n
    BY <1>1, <1>3, <1>4, <2>3
  <2>4. CASE i \in P + 1..n /\ j \in 1..P
    BY <1>1, <1>3, <1>4, <2>4
  <2> QED BY <1>3, <2>1, <2>2, <2>3, <2>4
<1>9. (1..M) \cup ToSet(B) = 1..M + n - P
  <2>1. (1..M) \cup ToSet(B) \subseteq 1..M + n - P
    BY <1>1, <1>5, <1>7 DEF ToSet
  <2>2. ASSUME NEW m \in M + 1..M + n - P PROVE m \in ToSet(B)
    <3>1. m - M + P \in P + 1..n /\ B[m - M + P] = m
      BY <1>1, <1>3
    <3> QED BY <1>1, <1>3, <1>7, <3>1 DEF ToSet
  <2>3. \A m \in 1..M + n - P : m \in 1..M \/ m \in M + 1..M + n - P
    BY <1>1
  <2> QED BY <2>1, <2>2, <2>3
<1>10. IsInjective(B)
  BY <1>7, <1>8 DEF IsInjective
<1> QED BY <1>1, <1>6, <1>9, <1>10 DEF M, P, B, F

\* What free() gives back: every block on the list is there once.
LEMMA FreedAre ==
  ASSUME NEW n \in Nat, GpuTypeOK, FreeInv
  PROVE  /\ Freed(Blocks(n)) \in Seq(1..Len(memory) + n - Pooled(n))
         /\ IsInjective(Freed(Blocks(n)))
<1> DEFINE F == Len(free_blocks)
           M == Len(memory)
           P == Pooled(n)
           B == Blocks(n)
           a == SubSeq(free_blocks, 1, F - P)
           b == Reverse(B)
<1>1. /\ F \in Nat /\ M \in Nat /\ P \in 0..F /\ P <= n
      /\ \A i \in 1..F : free_blocks[i] \in 1..M
      /\ \A i, j \in 1..F : free_blocks[i] = free_blocks[j] => i = j
      /\ free_blocks \in Seq(1..M)
  BY PoolIs
<1>2. /\ B = [i \in 1..n |-> IF i <= P THEN free_blocks[F + 1 - i] ELSE M + i - P]
      /\ B \in Seq(1..M + n - P) /\ Len(B) = n
      /\ \A i, j \in 1..n : B[i] = B[j] => i = j
  <2>1. B \in Seq(1..M + n - P) /\ Len(B) = n /\ IsInjective(B)
    BY BlocksAre
  <2>2. DOMAIN B = 1..n
    BY DEF Blocks
  <2> QED BY <2>1, <2>2 DEF Blocks, IsInjective
<1>3. Freed(B) = a \o b
  BY <1>2 DEF Freed
<1> HIDE DEF M, P, B, F
<1>4. a \in Seq(1..M + n - P) /\ Len(a) = F - P /\ \A i \in 1..F - P : a[i] = free_blocks[i] /\ i \in 1..F
  <2>1. a \in Seq(1..M) /\ Len(a) = F - P /\ \A i \in 1..F - P : a[i] = free_blocks[i] /\ i \in 1..F
    BY <1>1 DEF F
  <2>2. \A i \in 1..F - P : a[i] \in 1..M + n - P
    BY <1>1, <2>1
  <2> QED BY <2>1, <2>2
<1>5. b \in Seq(1..M + n - P) /\ Len(b) = n /\ \A i \in 1..n : b[i] = B[n - i + 1] /\ n - i + 1 \in 1..n
  <2>1. b = [i \in 1..n |-> B[n - i + 1]] /\ \A i \in 1..n : n - i + 1 \in 1..n
    BY <1>2 DEF Reverse
  <2>2. ASSUME NEW i \in 1..n PROVE b[i] \in 1..M + n - P
    <3>1. n - i + 1 \in 1..n /\ b[i] = B[n - i + 1]
      BY <2>1
    <3>2. \A j \in 1..n : B[j] \in 1..M + n - P
      BY <1>2
    <3> QED BY <3>1, <3>2
  <2>3. b = [i \in 1..n |-> b[i]]
    BY <2>1
  <2> HIDE DEF b
  <2>4. b \in Seq(1..M + n - P) /\ Len(b) = n
    <3>1. b \in [1..n -> 1..M + n - P]
      BY <2>2, <2>3
    <3> QED BY <3>1, MadeIs
  <2> QED BY <2>1, <2>4
<1> HIDE DEF a, b
<1>6. /\ a \o b \in Seq(1..M + n - P) /\ Len(a \o b) = F - P + n
      /\ \A i \in 1..F - P : (a \o b)[i] = free_blocks[i]
      /\ \A i \in 1..n : (a \o b)[F - P + i] = B[n - i + 1]
  <2>1. /\ a \o b \in Seq(1..M + n - P) /\ Len(a \o b) = Len(a) + Len(b)
        /\ \A i \in 1..Len(a) : (a \o b)[i] = a[i]
        /\ \A i \in 1..Len(b) : (a \o b)[Len(a) + i] = b[i]
    <3>1. a \in Seq(1..M + n - P) /\ b \in Seq(1..M + n - P)
      BY <1>4, <1>5
    <3> QED BY <3>1, ConcatIs
  <2> QED BY <1>4, <1>5, <2>1
<1>7. \A i \in 1..F - P, j \in 1..n : free_blocks[i] # B[j]
  <2> SUFFICES ASSUME NEW i \in 1..F - P, NEW j \in 1..n, free_blocks[i] = B[j] PROVE FALSE
    OBVIOUS
  <2>1. CASE j <= P
    <3>1. B[j] = free_blocks[F + 1 - j] /\ F + 1 - j \in 1..F /\ i \in 1..F /\ i # F + 1 - j
      BY <1>1, <1>2, <2>1
    <3> QED BY <1>1, <3>1
  <2>2. CASE ~(j <= P)
    <3>1. B[j] > M /\ free_blocks[i] <= M
      BY <1>1, <1>2, <2>2
    <3> QED BY <1>1, <3>1
  <2> QED BY <2>1, <2>2
<1>8. \A x, y \in 1..F - P + n : (a \o b)[x] = (a \o b)[y] => x = y
  <2> SUFFICES ASSUME NEW x \in 1..F - P + n, NEW y \in 1..F - P + n, (a \o b)[x] = (a \o b)[y]
               PROVE  x = y
    OBVIOUS
  <2>1. \A z \in 1..F - P + n : z \in 1..F - P \/ \E i \in 1..n : z = F - P + i
    <3> SUFFICES ASSUME NEW z \in 1..F - P + n, z \notin 1..F - P PROVE \E i \in 1..n : z = F - P + i
      OBVIOUS
    <3>1. z - (F - P) \in 1..n /\ z = F - P + (z - (F - P))
      BY <1>1
    <3> QED BY <3>1
  <2>2. CASE x \in 1..F - P /\ y \in 1..F - P
    BY <1>1, <1>4, <1>6, <2>2
  <2>0. \A z \in 1..F - P, i \in 1..n : (a \o b)[z] # (a \o b)[F - P + i]
    <3> SUFFICES ASSUME NEW z \in 1..F - P, NEW i \in 1..n PROVE (a \o b)[z] # (a \o b)[F - P + i]
      OBVIOUS
    <3>1. (a \o b)[z] = free_blocks[z] /\ (a \o b)[F - P + i] = B[n - i + 1] /\ n - i + 1 \in 1..n
      BY <1>5, <1>6
    <3> QED BY <1>7, <3>1
  <2>3. CASE x \in 1..F - P /\ \E i \in 1..n : y = F - P + i
    BY <2>0, <2>3
  <2>4. CASE y \in 1..F - P /\ \E i \in 1..n : x = F - P + i
    BY <2>0, <2>4
  <2>5. ASSUME NEW i \in 1..n, NEW j \in 1..n, x = F - P + i, y = F - P + j PROVE x = y
    <3>1. B[n - i + 1] = B[n - j + 1] /\ n - i + 1 \in 1..n /\ n - j + 1 \in 1..n
      BY <1>5, <1>6, <2>5
    <3>2. n - i + 1 = n - j + 1
      BY <1>2, <3>1
    <3> QED BY <2>5, <3>2
  <2> QED BY <2>1, <2>2, <2>3, <2>4, <2>5
<1>9. DOMAIN (a \o b) = 1..F - P + n
  BY <1>6
<1> QED BY <1>3, <1>6, <1>8, <1>9 DEF IsInjective, M, P, B

-----------------------------------------------------------------------------
\* What a work of r puts on the stream.
LEMMA OperationsAre ==
  ASSUME NEW r \in Runs, NEW blocks \in Seq(Nat)
  PROVE  LET ops == Operations(r, blocks)
             n == Len(blocks) IN
         /\ ops \in Seq(Commands) /\ Len(ops) = n + 1
         /\ \A i \in 1..n : ops[i].op = "fill" /\ ops[i].block = blocks[i] /\ ops[i].value = <<r, i>>
         /\ ops[n + 1].op = "kernel" /\ ops[n + 1].blocks = blocks /\ ops[n + 1].run = r
<1> DEFINE n == Len(blocks)
           a == [i \in DOMAIN blocks |-> [op |-> "fill", block |-> blocks[i], value |-> <<r, i>>]]
           c == [op |-> "kernel", blocks |-> blocks, run |-> r]
<1>1. DOMAIN blocks = 1..n /\ n \in Nat /\ \A i \in 1..n : blocks[i] \in Nat
  OBVIOUS
<1>2. \A i \in 1..n : /\ a[i] = [op |-> "fill", block |-> blocks[i], value |-> <<r, i>>]
                      /\ a[i] \in Commands
  BY <1>1 DEF Commands
<1>3. a \in [1..n -> Commands]
  BY <1>1, <1>2
<1>4. c \in Commands
  BY DEF Commands
<1>5. \A i \in 1..n : a[i].op = "fill" /\ a[i].block = blocks[i] /\ a[i].value = <<r, i>>
  BY <1>2
<1>6. c.op = "kernel" /\ c.blocks = blocks /\ c.run = r
  OBVIOUS
<1>7. Operations(r, blocks) = a \o <<c>>
  BY DEF Operations
<1> HIDE DEF a, c, n
<1>8. a \in Seq(Commands) /\ Len(a) = n
  BY <1>1, <1>3, MadeIs
<1>9. <<c>> \in Seq(Commands) /\ Len(<<c>>) = 1 /\ <<c>>[1] = c
  BY <1>4
<1>10. /\ a \o <<c>> \in Seq(Commands) /\ Len(a \o <<c>>) = n + 1
       /\ \A i \in 1..n : (a \o <<c>>)[i] = a[i]
       /\ (a \o <<c>>)[n + 1] = c
  <2>1. /\ a \o <<c>> \in Seq(Commands) /\ Len(a \o <<c>>) = Len(a) + Len(<<c>>)
        /\ \A i \in 1..Len(a) : (a \o <<c>>)[i] = a[i]
        /\ \A i \in 1..Len(<<c>>) : (a \o <<c>>)[Len(a) + i] = <<c>>[i]
    BY <1>8, <1>9, ConcatIs
  <2> QED BY <1>8, <1>9, <2>1
<1> QED BY <1>5, <1>6, <1>7, <1>10 DEF n

\* The three kinds of operation on the stream.
LEMMA CommandsAre ==
  ASSUME NEW c \in Commands
  PROVE  /\ c.op \in {"fill", "kernel", "event"}
         /\ c.op = "fill" => c.block \in Nat /\ c.value \in Runs \X Nat
         /\ c.op = "kernel" => c.run \in Runs /\ c.blocks \in Seq(Nat)
         /\ c.op = "event" => c.event \in Nat
BY DEF Commands

\* What is on the stream sees what it saw, and a work that joins sees its own.
WorkOf(ext, r, blocks) ==
  LET n == Works[r] IN
  \A i \in 1..Len(ext) :
     /\ i <= n => ext[i].op = "fill" /\ ext[i].block = blocks[i] /\ ext[i].value = <<r, i>>
     /\ i = n + 1 => ext[i].op = "kernel" /\ ext[i].blocks = blocks /\ ext[i].run = r
     /\ i = n + 2 => ext[i].op = "event" /\ ext[i].event \in 1..Len(recorded')
     /\ i <= n + 2
\* The blocks of a work, each its own, in a memory that has grown to hold them.
Grown(blocks, n) ==
  /\ \A i \in 1..n : blocks[i] \in 1..Len(memory')
  /\ \A i, j \in 1..n : blocks[i] = blocks[j] => i = j
  /\ Len(memory) \in Nat /\ Len(memory') \in Nat /\ Len(memory) <= Len(memory')
  /\ \A b \in 1..Len(memory) : memory'[b] = memory[b]
  /\ Len(recorded) \in Nat /\ Len(recorded') \in Nat /\ Len(recorded) <= Len(recorded')

\* After L operations, stream s fills the n blocks of run r, each another block.
Filled(s, L, n, r, blocks) ==
  /\ L \in Nat /\ n \in Nat
  /\ \A y \in 1 .. n : s[L + y].op = "fill" /\ s[L + y].block = blocks[y] /\ s[L + y].value = <<r, y>>
  /\ \A y, z \in 1 .. n : blocks[y] = blocks[z] => y = z

\* The operation that follows them sees each block as it was filled.
LEMMA FillsAreSeen ==
  ASSUME NEW L, NEW n, NEW r, NEW blocks, Filled(stream_', L, n, r, blocks)
  PROVE  \A x \in 1 .. n : Sees(L + (n + 1), blocks[x], <<r, x>>)'
<1>0. L \in Nat /\ n \in Nat
  BY DEF Filled
<1> SUFFICES ASSUME NEW x \in 1 .. n PROVE Sees(L + (n + 1), blocks[x], <<r, x>>)'
  OBVIOUS
<1>1. PICK h \in Nat : h = L + (n + 1) /\ L + x \in 1 .. h - 1
  BY <1>0
<1>2. Fills(L + x, blocks[x])' /\ stream_'[L + x].value = <<r, x>>
  BY DEF Filled, Fills
<1>3. ASSUME NEW l \in (L + x) + 1 .. h - 1 PROVE ~Fills(l, blocks[x])'
  <2>1. l - L \in 1 .. n /\ l = L + (l - L) /\ l - L # x
    BY <1>0, <1>1
  <2>2. PICK y \in 1 .. n : l = L + y /\ y # x
    BY <2>1
  <2>3. stream_'[l].block = blocks[y] /\ blocks[y] # blocks[x]
    BY <2>2 DEF Filled
  <2> QED BY <2>3 DEF Fills
<1>4. Sees(h, blocks[x], <<r, x>>)'
  BY <1>1, <1>2, <1>3 DEF Sees
<1> QED BY <1>1, <1>4

\* Whatever part of a work joins the stream, each kernel still sees its own data.
LEMMA StreamGrows ==
  ASSUME GpuTypeOK, StreamInv, NEW r \in Runs, NEW blocks \in Seq(Nat), NEW ext \in Seq(Commands),
         NEW n \in Nat, n = Works[r], Len(blocks) = n,
         stream_' = stream_ \o ext, WorkOf(ext, r, blocks), Grown(blocks, n)
  PROVE  StreamInv'
<1>1. PICK L \in Nat :
        /\ L = Len(stream_) /\ Len(stream_') = L + Len(ext)
        /\ \A k \in 1..L : stream_'[k] = stream_[k] /\ stream_[k] \in Commands
        /\ \A i \in 1..Len(ext) : stream_'[L + i] = ext[i]
  <2>1. /\ stream_ \in Seq(Commands)
        /\ Len(stream_ \o ext) = Len(stream_) + Len(ext)
        /\ \A i \in 1..Len(stream_) : (stream_ \o ext)[i] = stream_[i]
        /\ \A i \in 1..Len(ext) : (stream_ \o ext)[Len(stream_) + i] = ext[i]
    BY ConcatIs DEF GpuTypeOK
  <2>2. Len(stream_) \in Nat /\ \A k \in 1..Len(stream_) : stream_[k] \in Commands
    BY <2>1
  <2> QED BY <2>1, <2>2
<1>2. ASSUME NEW k \in 1..L, NEW b \in 1..Len(memory), NEW v, Sees(k, b, v) PROVE Sees(k, b, v)'
  <2>1. \A j \in 1..k - 1 : j \in 1..L /\ stream_'[j] = stream_[j] /\ (Fills(j, b)' <=> Fills(j, b))
    BY <1>1 DEF Fills
  <2>2. CASE memory[b] = v /\ \A j \in 1..k - 1 : ~Fills(j, b)
    BY <2>1, <2>2 DEF Sees, Grown
  <2>3. CASE \E j \in 1..k - 1 : /\ Fills(j, b) /\ stream_[j].value = v
                                 /\ \A l \in j + 1..k - 1 : ~Fills(l, b)
    <3>1. PICK j \in 1..k - 1 : /\ Fills(j, b) /\ stream_[j].value = v
                                /\ \A l \in j + 1..k - 1 : ~Fills(l, b)
      BY <2>3
    <3>2. \A l \in j + 1..k - 1 : l \in 1..k - 1
      BY <3>1
    <3>3. Fills(j, b)' /\ stream_'[j].value = v /\ \A l \in j + 1..k - 1 : ~Fills(l, b)'
      BY <2>1, <3>1, <3>2
    <3> QED BY <3>3 DEF Sees
  <2> QED BY <1>2, <2>2, <2>3 DEF Sees
<1>3. ASSUME NEW k \in 1..L
      PROVE  CASE stream_'[k].op = "fill"   -> stream_'[k].block \in 1..Len(memory')
               [] stream_'[k].op = "kernel" -> SeesItsOwn(k)'
               [] stream_'[k].op = "event"  -> stream_'[k].event \in 1..Len(recorded')
  <2>1. stream_'[k] = stream_[k] /\ stream_[k] \in Commands /\ k \in 1..Len(stream_)
    BY <1>1
  <2>2. /\ stream_[k].op \in {"fill", "kernel", "event"}
        /\ stream_[k].op = "kernel" => stream_[k].run \in Runs
    BY <2>1, CommandsAre
  <2>3. CASE stream_[k].op = "fill"
    <3>1. stream_[k].block \in 1..Len(memory)
      BY <2>1, <2>3 DEF StreamInv
    <3> QED BY <2>1, <2>3, <3>1 DEF Grown
  <2>4. CASE stream_[k].op = "kernel"
    <3>1. SeesItsOwn(k)
      BY <2>1, <2>4 DEF StreamInv
    <3>2. SeesItsOwn(k)'
      <4>1. PICK b : b = stream_[k].blocks
        OBVIOUS
      <4>2. PICK v : v = stream_[k].run
        OBVIOUS
      <4>3. stream_'[k].blocks = b /\ stream_'[k].run = v
        BY <2>1, <4>1, <4>2
      <4>4. /\ Len(b) = Works[v]
            /\ \A i \in 1..Works[v] : b[i] \in 1..Len(memory) /\ Sees(k, b[i], <<v, i>>)
        BY <3>1, <4>1, <4>2 DEF SeesItsOwn
      <4>5. \A x \in 1..Len(memory) : x \in 1..Len(memory')
        BY DEF Grown
      <4>6. \A i \in 1..Works[v] : b[i] \in 1..Len(memory') /\ Sees(k, b[i], <<v, i>>)'
        BY <1>2, <2>1, <4>4, <4>5
      <4> QED BY <4>3, <4>4, <4>6 DEF SeesItsOwn
    <3> QED BY <2>1, <2>4, <3>2
  <2>5. CASE stream_[k].op = "event"
    <3>1. stream_[k].event \in 1..Len(recorded)
      BY <2>1, <2>5 DEF StreamInv
    <3> QED BY <2>1, <2>5, <3>1 DEF Grown
  <2> QED BY <2>2, <2>3, <2>4, <2>5
<1>4. ASSUME NEW i \in 1..Len(ext)
      PROVE  CASE stream_'[L + i].op = "fill"   -> stream_'[L + i].block \in 1..Len(memory')
               [] stream_'[L + i].op = "kernel" -> SeesItsOwn(L + i)'
               [] stream_'[L + i].op = "event"  -> stream_'[L + i].event \in 1..Len(recorded')
  <2>0. PICK h \in Nat : h = L + i /\ i \in Nat /\ (i <= n \/ i = n + 1 \/ i = n + 2)
    <3>1. Len(ext) \in Nat
      OBVIOUS
    <3>2. i \in Nat /\ i <= n + 2
      BY <3>1 DEF WorkOf
    <3>3. L + i \in Nat /\ (i <= n \/ i = n + 1 \/ i = n + 2)
      BY <3>2
    <3> QED BY <3>2, <3>3
  <2>1. CASE i <= n
    <3>1. stream_'[L + i].op = "fill" /\ stream_'[L + i].block = blocks[i] /\ i \in 1..n
      <4>1. i \in 1..n
        BY <2>0, <2>1
      <4>2. ext[i].op = "fill" /\ ext[i].block = blocks[i]
        BY <2>1 DEF WorkOf
      <4> QED BY <1>1, <4>1, <4>2
    <3>2. blocks[i] \in 1..Len(memory')
      BY <3>1 DEF Grown
    <3> QED BY <3>1, <3>2
  <2>2. CASE i = n + 1
    <3>1. stream_'[h].op = "kernel" /\ stream_'[h].blocks = blocks /\ stream_'[h].run = r
      BY <1>1, <2>0, <2>2 DEF WorkOf
    <3>2. \A x \in 1..n : Sees(h, blocks[x], <<r, x>>)'
      <4>1. \A y \in 1..n : /\ stream_'[L + y].op = "fill"
                            /\ stream_'[L + y].block = blocks[y] /\ stream_'[L + y].value = <<r, y>>
        <5>1. \A y \in 1..n : y \in 1..Len(ext)
          BY <2>2
        <5>2. ASSUME NEW y \in 1..n
              PROVE  ext[y].op = "fill" /\ ext[y].block = blocks[y] /\ ext[y].value = <<r, y>>
          <6>1. y \in 1..Len(ext) /\ y <= n
            BY <5>1
          <6> QED BY <6>1 DEF WorkOf
        <5>3. ASSUME NEW y \in 1..n PROVE stream_'[L + y] = ext[y]
          BY <1>1, <5>1
        <5> QED BY <5>2, <5>3
      <4>2. \A y, z \in 1..n : blocks[y] = blocks[z] => y = z
        BY DEF Grown
      <4>3. Filled(stream_', L, n, r, blocks)
        BY <4>1, <4>2 DEF Filled
      <4>4. \A x \in 1..n : Sees(L + (n + 1), blocks[x], <<r, x>>)'
        BY <4>3, FillsAreSeen
      <4>5. h = L + (n + 1)
        BY <2>0, <2>2
      <4> QED BY <4>4, <4>5
    <3>3. SeesItsOwn(h)'
      <4>1. \A x \in 1..n : blocks[x] \in 1..Len(memory')
        BY DEF Grown
      <4> QED BY <3>1, <3>2, <4>1 DEF SeesItsOwn
    <3> QED BY <2>0, <3>1, <3>3
  <2>3. CASE i = n + 2
    <3>1. stream_'[h].op = "event" /\ stream_'[h].event \in 1..Len(recorded')
      BY <1>1, <2>0, <2>3 DEF WorkOf
    <3> QED BY <2>0, <3>1
  <2> QED BY <2>0, <2>1, <2>2, <2>3
<1>5. ASSUME NEW k \in 1..Len(stream_') PROVE k \in 1..L \/ \E i \in 1..Len(ext) : k = L + i
  <2>1. CASE k <= L
    BY <1>1, <2>1
  <2>2. CASE k > L
    <3>1. k - L \in 1..Len(ext) /\ k = L + (k - L)
      BY <1>1, <2>2
    <3> QED BY <3>1
  <2> QED BY <1>1, <2>1, <2>2
<1> QED BY <1>3, <1>4, <1>5 DEF StreamInv

\* acquire_event() finds one that nobody waits for and no record of which is left.
LEMMA EventIs ==
  ASSUME GpuTypeOK, EventInv
  PROVE  LET R == IF event_pool_ # <<>> THEN Len(recorded) ELSE Len(recorded) + 1 IN
         /\ R \in Nat /\ Len(recorded) \in Nat /\ Len(recorded) <= R /\ Event \in 1..R
         /\ DOMAIN recorded \cup {Event} = 1..R
         /\ Event \in 1..Len(recorded) => ~recorded[Event]
         /\ \A j \in 1..Len(pending_) : pending_[j][1] # Event
         /\ EventsLeft \in Seq(1..Len(recorded)) /\ IsInjective(EventsLeft)
         /\ \A i \in 1..Len(EventsLeft) : /\ EventsLeft[i] # Event /\ ~recorded[EventsLeft[i]]
                                          /\ \A j \in 1..Len(pending_) : EventsLeft[i] # pending_[j][1]
<1> DEFINE N == Len(recorded)
<1>0. /\ recorded \in Seq(BOOLEAN) /\ event_pool_ \in Seq(1..N) /\ N \in Nat
      /\ \A j \in 1..Len(pending_) : pending_[j][1] \in 1..N
  BY DEF GpuTypeOK
<1>1. DOMAIN recorded = 1..N
  BY <1>0
<1>2. CASE event_pool_ = <<>>
  <2>1. Event = N + 1 /\ EventsLeft = <<>>
    BY <1>2 DEF Event, EventsLeft
  <2>2. (1..N) \cup {N + 1} = 1..N + 1
    BY <1>0
  <2>3. \A j \in 1..Len(pending_) : pending_[j][1] # N + 1
    BY <1>0
  <2>4. <<>> \in Seq(1..N) /\ IsInjective(<<>>) /\ Len(<<>>) = 0
    BY DEF IsInjective
  <2>5. N + 1 \in Nat /\ N <= N + 1 /\ N + 1 \in 1..N + 1 /\ N + 1 \notin 1..N
    BY <1>0
  <2> QED BY <1>0, <1>1, <1>2, <2>1, <2>2, <2>3, <2>4, <2>5
<1>3. CASE event_pool_ # <<>>
  <2>1. PICK m \in Nat \ {0} : m = Len(event_pool_)
    BY <1>0, <1>3
  <2>2. /\ Event = event_pool_[m] /\ EventsLeft = SubSeq(event_pool_, 1, m - 1)
    BY <1>3, <2>1 DEF Event, EventsLeft, Last, Front
  <2>3. /\ EventsLeft \in Seq(1..N) /\ Len(EventsLeft) = m - 1
        /\ \A i \in 1..m - 1 : EventsLeft[i] = event_pool_[i] /\ i \in 1..m /\ i # m
    BY <1>0, <2>1, <2>2
  <2>4. /\ \A i, j \in 1..m : event_pool_[i] = event_pool_[j] => i = j
        /\ \A i \in 1..m : event_pool_[i] \in 1..N /\ ~recorded[event_pool_[i]]
        /\ \A i \in 1..m, j \in 1..Len(pending_) : event_pool_[i] # pending_[j][1]
    <3>1. DOMAIN event_pool_ = 1..m  BY <1>0, <2>1
    <3>2. \A i, j \in 1..m : event_pool_[i] = event_pool_[j] => i = j
      BY <1>0, <3>1 DEF EventInv, IsInjective
    <3>3. \A i \in 1..m : event_pool_[i] \in 1..N /\ ~recorded[event_pool_[i]]
      BY <1>0, <2>1, <3>1 DEF EventInv
    <3>4. \A i \in 1..m, j \in 1..Len(pending_) : event_pool_[i] # pending_[j][1]
      BY <1>0, <2>1, <3>1 DEF EventInv
    <3> QED BY <3>2, <3>3, <3>4
  <2>5. m \in 1..m
    BY <2>1
  <2>6. IsInjective(EventsLeft)
    <3>1. DOMAIN EventsLeft = 1..m - 1
      BY <2>3
    <3> QED BY <2>3, <2>4, <3>1 DEF IsInjective
  <2>7. \A i \in 1..m - 1 : /\ EventsLeft[i] # Event /\ ~recorded[EventsLeft[i]]
                            /\ \A j \in 1..Len(pending_) : EventsLeft[i] # pending_[j][1]
    BY <2>2, <2>3, <2>4, <2>5
  <2>8. Event \in 1..N /\ ~recorded[Event]
    BY <2>2, <2>4, <2>5
  <2>9. \A j \in 1..Len(pending_) : pending_[j][1] # Event
    BY <2>2, <2>4, <2>5
  <2>10. DOMAIN recorded \cup {Event} = 1..N
    BY <1>1, <2>8
  <2>11. N \in Nat /\ N <= N
    BY <1>0
  <2> HIDE DEF N
  <2>12. EventsLeft \in Seq(1..N) /\ Len(EventsLeft) = m - 1
    BY <2>3
  <2>13. \A i \in 1..Len(EventsLeft) : /\ EventsLeft[i] # Event /\ ~recorded[EventsLeft[i]]
                                        /\ \A j \in 1..Len(pending_) : EventsLeft[i] # pending_[j][1]
    BY <2>7, <2>12
  <2> QED BY <1>3, <2>6, <2>8, <2>9, <2>10, <2>11, <2>12, <2>13 DEF N
<1> QED BY <1>2, <1>3

\* The memory after a work has taken its blocks.
LEMMA MemoryGrows ==
  ASSUME GpuTypeOK, FreeInv, NEW n \in Nat,
         memory' = [b \in DOMAIN memory \cup ToSet(Blocks(n)) |->
                       IF b \in DOMAIN memory THEN memory[b] ELSE <<>>],
         free_blocks' = Freed(Blocks(n)),
         Len(recorded) \in Nat, Len(recorded') \in Nat, Len(recorded) <= Len(recorded')
  PROVE  /\ Blocks(n) \in Seq(Nat) /\ Len(Blocks(n)) = n /\ Grown(Blocks(n), n)
         /\ memory' \in Seq(Values) /\ free_blocks' \in Seq(1..Len(memory')) /\ FreeInv'
<1>1. PICK B, M, room : B = Blocks(n) /\ M = Len(memory) /\ room = M + n - Pooled(n)
  OBVIOUS
<1>2. /\ room \in Nat /\ M <= room /\ B \in Seq(1..room) /\ Len(B) = n
      /\ IsInjective(B) /\ (1..M) \cup ToSet(B) = 1..room
  BY <1>1, BlocksAre
<1>3. memory \in Seq(Values) /\ M \in Nat /\ DOMAIN memory = 1..M
  BY <1>1 DEF GpuTypeOK
<1>4. memory' = [b \in 1..room |-> IF b \in 1..M THEN memory[b] ELSE <<>>]
  BY <1>1, <1>2, <1>3
<1>5. memory' \in [1..room -> Values]
  <2>1. \A b \in 1..M : memory[b] \in Values
    BY <1>3
  <2>2. <<>> \in Values
    BY DEF Values
  <2> QED BY <1>4, <2>1, <2>2
<1>6. memory' \in Seq(Values) /\ Len(memory') = room
  BY <1>2, <1>5, MadeIs
<1>7. /\ free_blocks' \in Seq(1..Len(memory')) /\ FreeInv'
  <2>1. Freed(B) \in Seq(1..room) /\ IsInjective(Freed(B))
    BY <1>1, FreedAre
  <2> QED BY <1>1, <1>6, <2>1 DEF FreeInv
<1>8. /\ \A i \in 1..n : B[i] \in 1..room
      /\ \A i, j \in 1..n : B[i] = B[j] => i = j
      /\ B \in Seq(Nat)
  <2>1. DOMAIN B = 1..n /\ \A i \in 1..n : B[i] \in 1..room
    BY <1>2
  <2>2. B \in Seq(Nat)
    BY <1>2
  <2> QED BY <1>2, <2>1, <2>2 DEF IsInjective
<1>9. \A b \in 1..M : memory'[b] = memory[b]
  BY <1>2, <1>3, <1>4
<1>10. Grown(B, n)
  BY <1>1, <1>2, <1>3, <1>6, <1>8, <1>9 DEF Grown
<1> QED BY <1>1, <1>2, <1>6, <1>7, <1>8, <1>10

\* A request leaves the queue, and nobody else has it.
LEMMA TakenRun ==
  ASSUME GpuTypeOK, AnswerInv, gpu_q # <<>>, NEW r, r = Head(gpu_q), gpu_q' = Tail(gpu_q)
  PROVE  /\ r \in Runs /\ r \in asked /\ answered[r] = <<>>
         /\ gpu_q' \in Seq(Runs) /\ IsInjective(gpu_q')
         /\ \A x \in Range(gpu_q') : x \in Range(gpu_q) /\ x # r
         /\ \A i \in 1..Len(pending_) : pending_[i][2] # r
<1>1. /\ r \in Range(gpu_q) /\ r \in Runs
      /\ gpu_q' \in Seq(Runs) /\ Range(gpu_q') \subseteq Range(gpu_q)
      /\ IsInjective(gpu_q) => IsInjective(gpu_q') /\ r \notin Range(gpu_q')
  BY TailIs DEF GpuTypeOK
<1> QED BY <1>1 DEF AnswerInv

\* One request of the drain: its work throws midway, or is done and waits for its event.
LEMMA DrainKeeps == ASSUME GpuInv, Drain PROVE GpuInv'
<1>0. GpuTypeOK /\ FreeInv /\ StreamInv /\ EventInv /\ PendingInv /\ AnswerInv
  BY DEF GpuInv
<1>1. PICK r, n, blocks, ops :
        /\ r = Head(gpu_q) /\ n = Works[r] /\ blocks = Blocks(n) /\ ops = Operations(r, blocks)
  OBVIOUS
<1>2. /\ gpu_q # <<>> /\ gpu_q' = Tail(gpu_q)
      /\ memory' = [b \in DOMAIN memory \cup ToSet(Blocks(n)) |->
                       IF b \in DOMAIN memory THEN memory[b] ELSE <<>>]
      /\ free_blocks' = Freed(Blocks(n))
      /\ WorkThrows(r, ops, blocks) \/ WorkDone(r, ops)
      /\ UNCHANGED <<read, asked>>
  BY <1>1 DEF Drain
<1>3. /\ r \in Runs /\ r \in asked /\ answered[r] = <<>>
      /\ gpu_q' \in Seq(Runs) /\ IsInjective(gpu_q')
      /\ \A x \in Range(gpu_q') : x \in Range(gpu_q) /\ x # r
      /\ \A i \in 1..Len(pending_) : pending_[i][2] # r
  BY <1>0, <1>1, <1>2, TakenRun
<1>4. n \in Nat
  BY <1>1, <1>3, WorksAssumption DEF Runs
<1>5. /\ stream_ \in Seq(Commands) /\ pending_ \in Seq((1..Len(recorded)) \X Runs)
      /\ recorded \in Seq(BOOLEAN) /\ Len(recorded) \in Nat
      /\ answered \in [Runs -> {<<>>, <<"value">>, <<"exception">>}]
      /\ event_pool_ \in Seq(1..Len(recorded))
  BY <1>0 DEF GpuTypeOK
<1>6. ASSUME Len(recorded') \in Nat, Len(recorded) <= Len(recorded')
      PROVE  /\ blocks \in Seq(Nat) /\ Len(blocks) = n /\ Grown(blocks, n)
             /\ memory' \in Seq(Values) /\ free_blocks' \in Seq(1..Len(memory')) /\ FreeInv'
             /\ ops \in Seq(Commands) /\ Len(ops) = n + 1
             /\ \A i \in 1..n : ops[i].op = "fill" /\ ops[i].block = blocks[i] /\ ops[i].value = <<r, i>>
             /\ ops[n + 1].op = "kernel" /\ ops[n + 1].blocks = blocks /\ ops[n + 1].run = r
  <2>1. /\ blocks \in Seq(Nat) /\ Len(blocks) = n /\ Grown(blocks, n)
        /\ memory' \in Seq(Values) /\ free_blocks' \in Seq(1..Len(memory')) /\ FreeInv'
    BY <1>0, <1>1, <1>2, <1>4, <1>5, <1>6, MemoryGrows
  <2>2. /\ ops \in Seq(Commands) /\ Len(ops) = Len(blocks) + 1
        /\ \A i \in 1..Len(blocks) : ops[i].op = "fill" /\ ops[i].block = blocks[i] /\ ops[i].value = <<r, i>>
        /\ ops[Len(blocks) + 1].op = "kernel" /\ ops[Len(blocks) + 1].blocks = blocks
        /\ ops[Len(blocks) + 1].run = r
    <3>1. r \in Runs /\ blocks \in Seq(Nat)
      BY <1>3, <2>1
    <3>2. LET o == Operations(r, blocks)
              m == Len(blocks) IN
          /\ o \in Seq(Commands) /\ Len(o) = m + 1
          /\ \A i \in 1..m : o[i].op = "fill" /\ o[i].block = blocks[i] /\ o[i].value = <<r, i>>
          /\ o[m + 1].op = "kernel" /\ o[m + 1].blocks = blocks /\ o[m + 1].run = r
      BY <3>1, OperationsAre
    <3> QED BY <1>1, <3>2
  <2> QED BY <2>1, <2>2
<1>7. CASE WorkThrows(r, ops, blocks)
  <2>1. PICK m \in 0..Len(ops) : stream_' = stream_ \o SubSeq(ops, 1, m)
    BY <1>7 DEF WorkThrows
  <2>2. /\ answered' = [answered EXCEPT ![r] = Append(@, "exception")]
        /\ UNCHANGED <<event_pool_, recorded, pending_>>
    BY <1>7 DEF WorkThrows
  <2>3. PICK ext : ext = SubSeq(ops, 1, m)
    OBVIOUS
  <2>4. /\ blocks \in Seq(Nat) /\ Len(blocks) = n /\ Grown(blocks, n)
        /\ memory' \in Seq(Values) /\ free_blocks' \in Seq(1..Len(memory')) /\ FreeInv'
        /\ ops \in Seq(Commands) /\ Len(ops) = n + 1
        /\ \A i \in 1..n : ops[i].op = "fill" /\ ops[i].block = blocks[i] /\ ops[i].value = <<r, i>>
        /\ ops[n + 1].op = "kernel" /\ ops[n + 1].blocks = blocks /\ ops[n + 1].run = r
    <3>1. Len(recorded') \in Nat /\ Len(recorded) <= Len(recorded')
      BY <1>5, <2>2
    <3> QED BY <1>6, <3>1
  <2>5. /\ ext \in Seq(Commands) /\ Len(ext) = m /\ m \in Nat /\ m <= n + 1
        /\ \A i \in 1..m : ext[i] = ops[i]
    BY <1>4, <2>1, <2>3, <2>4
  <2>6. \A i \in 1..m : (i <= n /\ i \in 1..n) \/ i = n + 1
    BY <1>4, <2>5
  <2>7. WorkOf(ext, r, blocks) /\ \A i \in 1..m : ext[i].op # "event"
    <3>1. ASSUME NEW i \in 1..m
          PROVE  /\ i <= n => ext[i].op = "fill" /\ ext[i].block = blocks[i] /\ ext[i].value = <<r, i>>
                 /\ i = n + 1 => ext[i].op = "kernel" /\ ext[i].blocks = blocks /\ ext[i].run = r
                 /\ i # n + 2 /\ i <= n + 2 /\ ext[i].op # "event"
      <4>1. ext[i] = ops[i] /\ i \in Nat /\ n \in Nat
        BY <1>4, <2>5
      <4>2. (i <= n /\ i \in 1..n) \/ i = n + 1
        BY <2>6
      <4>3. CASE i <= n /\ i \in 1..n
        <5>1. ops[i].op = "fill" /\ ops[i].block = blocks[i] /\ ops[i].value = <<r, i>>
          BY <2>4, <4>3
        <5>2. i # n + 1 /\ i # n + 2 /\ i <= n + 2
          BY <4>1, <4>3
        <5> QED BY <4>1, <5>1, <5>2
      <4>4. CASE i = n + 1
        BY <2>4, <4>1, <4>4
      <4> QED BY <4>2, <4>3, <4>4
    <3> QED BY <1>1, <2>5, <3>1 DEF WorkOf
  <2>8. StreamInv'
    BY <1>0, <1>1, <1>3, <1>4, <2>1, <2>3, <2>4, <2>5, <2>7, StreamGrows
  <2>9. PICK L \in Nat :
          /\ L = Len(stream_) /\ Len(stream_') = L + m /\ stream_' \in Seq(Commands)
          /\ \A k \in 1..L : k \in 1..L + m /\ stream_'[k] = stream_[k]
          /\ \A k \in 1..L + m : k \in 1..L \/ stream_'[k].op # "event"
    <3>1. /\ stream_ \o ext \in Seq(Commands) /\ Len(stream_ \o ext) = Len(stream_) + m
          /\ \A k \in 1..Len(stream_) : (stream_ \o ext)[k] = stream_[k]
          /\ \A i \in 1..m : (stream_ \o ext)[Len(stream_) + i] = ext[i]
      <4>1. stream_ \in Seq(Commands) /\ ext \in Seq(Commands)
        BY <1>5, <2>5
      <4>2. /\ stream_ \o ext \in Seq(Commands) /\ Len(stream_ \o ext) = Len(stream_) + Len(ext)
            /\ \A k \in 1..Len(stream_) : (stream_ \o ext)[k] = stream_[k]
            /\ \A i \in 1..Len(ext) : (stream_ \o ext)[Len(stream_) + i] = ext[i]
        BY <4>1, ConcatIs
      <4> QED BY <2>5, <4>2
    <3>2. PICK L \in Nat : L = Len(stream_)
      BY <1>5
    <3>3. \A k \in 1..L + m : k \in 1..L \/ (k - L \in 1..m /\ k = L + (k - L))
      BY <2>5
    <3>4. \A k \in 1..L : k \in 1..L + m
      BY <2>5
    <3>5. \A k \in 1..L + m : k \in 1..L \/ stream_'[k].op # "event"
      BY <2>1, <2>3, <2>7, <3>1, <3>2, <3>3
    <3> QED BY <2>1, <2>3, <3>1, <3>2, <3>4, <3>5
  <2>10. \A k, e : k \in 1..L + m /\ Records(k, e)' => k \in 1..L /\ Records(k, e)
    BY <2>9 DEF Records
  <2>11. EventInv'
    <3>1. \A k \in 1..L + m, e \in 1..Len(recorded) : Records(k, e)' => recorded[e]
      BY <1>0, <2>9, <2>10 DEF EventInv
    <3>2. \A k, l \in 1..L + m, e \in 1..Len(recorded) : Records(k, e)' /\ Records(l, e)' => k = l
      BY <1>0, <2>9, <2>10 DEF EventInv
    <3> QED BY <1>0, <2>2, <2>9, <3>1, <3>2 DEF EventInv
  <2>12. PendingInv'
    <3>1. \A k \in 1..L : \A x : (KernelOf(k, x) => KernelOf(k, x)') /\ (Records(k, x) => Records(k, x)')
      BY <2>9 DEF KernelOf, Records
    <3> SUFFICES ASSUME NEW i \in 1..Len(pending_)
                 PROVE  \/ read[pending_[i][2]] = OwnData(pending_[i][2])
                        \/ \E k, l \in 1..L + m : /\ k < l /\ KernelOf(k, pending_[i][2])'
                                                  /\ Records(l, pending_[i][1])'
      BY <1>2, <2>2, <2>9 DEF PendingInv
    <3>2. \/ read[pending_[i][2]] = OwnData(pending_[i][2])
          \/ \E k, l \in 1..L : k < l /\ KernelOf(k, pending_[i][2]) /\ Records(l, pending_[i][1])
      BY <1>0, <2>9 DEF PendingInv
    <3>3. ASSUME NEW k \in 1..L, NEW l \in 1..L,
                 k < l /\ KernelOf(k, pending_[i][2]) /\ Records(l, pending_[i][1])
          PROVE  \E k1, l1 \in 1..L + m : /\ k1 < l1 /\ KernelOf(k1, pending_[i][2])'
                                          /\ Records(l1, pending_[i][1])'
      <4>1. k \in 1..L + m /\ l \in 1..L + m
        BY <2>9
      <4>2. KernelOf(k, pending_[i][2])' /\ Records(l, pending_[i][1])'
        BY <2>2, <3>1, <3>3
      <4> QED BY <3>3, <4>1, <4>2
    <3> QED BY <3>2, <3>3
  <2>13. /\ answered'[r] = <<"exception">> /\ \A x \in Runs : x # r => answered'[x] = answered[x]
         /\ answered' \in [Runs -> {<<>>, <<"value">>, <<"exception">>}]
    <3>1. answered' = [answered EXCEPT ![r] = <<"exception">>]
      BY <1>3, <2>2
    <3> QED BY <1>3, <1>5, <3>1
  <2>14. AnswerInv'
    <3>1. \A i \in 1..Len(pending_) : pending_[i][2] \in Runs
      BY <1>5
    <3>2. \A x \in Range(gpu_q') : x \in Runs
      BY <1>3 DEF Range
    <3>3. <<"exception">> # <<"value">>
      OBVIOUS
    <3> QED BY <1>0, <1>2, <1>3, <2>2, <2>13, <3>1, <3>2, <3>3 DEF AnswerInv
  <2>15. GpuTypeOK'
    BY <1>0, <1>2, <1>3, <2>2, <2>4, <2>9, <2>13 DEF GpuTypeOK
  <2> QED BY <2>4, <2>8, <2>11, <2>12, <2>14, <2>15 DEF GpuInv
<1>8. CASE WorkDone(r, ops)
  <2>1. PICK e, R, ev, ext :
          /\ e = Event /\ ev = [op |-> "event", event |-> e] /\ ext = ops \o <<ev>>
          /\ R = IF event_pool_ # <<>> THEN Len(recorded) ELSE Len(recorded) + 1
    OBVIOUS
  <2>2. /\ stream_' = stream_ \o ext
        /\ event_pool_' = EventsLeft
        /\ recorded' = [x \in DOMAIN recorded \cup {e} |-> x = e \/ recorded[x]]
        /\ pending_' = Append(pending_, <<e, r>>)
        /\ answered' = answered
    <3>1. stream_' = stream_ \o (ops \o <<ev>>)
      BY <1>8, <2>1 DEF WorkDone, RecordedBehind
    <3> QED BY <1>8, <2>1, <3>1 DEF WorkDone
  <2>3. /\ R \in Nat /\ Len(recorded) <= R /\ e \in 1..R
        /\ DOMAIN recorded \cup {e} = 1..R
        /\ e \in 1..Len(recorded) => ~recorded[e]
        /\ \A j \in 1..Len(pending_) : pending_[j][1] # e
        /\ EventsLeft \in Seq(1..Len(recorded)) /\ IsInjective(EventsLeft)
        /\ \A i \in 1..Len(EventsLeft) : /\ EventsLeft[i] # e /\ ~recorded[EventsLeft[i]]
                                         /\ \A j \in 1..Len(pending_) : EventsLeft[i] # pending_[j][1]
    BY <1>0, <2>1, EventIs
  <2>4. /\ recorded' \in Seq(BOOLEAN) /\ Len(recorded') = R /\ recorded'[e] = TRUE
        /\ \A x \in 1..Len(recorded) : x # e => recorded'[x] = recorded[x]
    <3>1. recorded' = [x \in 1..R |-> x = e \/ recorded[x]]
      BY <2>2, <2>3
    <3>2. recorded' \in [1..R -> BOOLEAN]
      <4>1. \A x \in 1..R : (x = e \/ recorded[x]) \in BOOLEAN
        OBVIOUS
      <4> QED BY <3>1, <4>1
    <3>3. recorded' \in Seq(BOOLEAN) /\ Len(recorded') = R
      BY <2>3, <3>2, MadeIs
    <3>4. \A x \in 1..Len(recorded) : x \in 1..R /\ recorded[x] \in BOOLEAN
      BY <1>5, <2>3
    <3> QED BY <2>3, <3>1, <3>3, <3>4
  <2>5. /\ blocks \in Seq(Nat) /\ Len(blocks) = n /\ Grown(blocks, n)
        /\ memory' \in Seq(Values) /\ free_blocks' \in Seq(1..Len(memory')) /\ FreeInv'
        /\ ops \in Seq(Commands) /\ Len(ops) = n + 1
        /\ \A i \in 1..n : ops[i].op = "fill" /\ ops[i].block = blocks[i] /\ ops[i].value = <<r, i>>
        /\ ops[n + 1].op = "kernel" /\ ops[n + 1].blocks = blocks /\ ops[n + 1].run = r
    <3>1. Len(recorded') \in Nat /\ Len(recorded) <= Len(recorded')
      BY <2>3, <2>4
    <3> QED BY <1>6, <3>1
  <2>6. ev \in Commands /\ ev.op = "event" /\ ev.event = e
    <3>1. e \in Nat
      BY <2>3
    <3> QED BY <2>1, <3>1 DEF Commands
  <2>7. /\ ext \in Seq(Commands) /\ Len(ext) = n + 2
        /\ \A i \in 1..n + 1 : ext[i] = ops[i]
        /\ ext[n + 2] = ev
    <3>1. PICK t : t = <<ev>>
      OBVIOUS
    <3>2. t \in Seq(Commands) /\ Len(t) = 1 /\ t[1] = ev /\ ext = ops \o t
      BY <2>1, <2>6, <3>1
    <3>3. /\ ops \o t \in Seq(Commands) /\ Len(ops \o t) = Len(ops) + Len(t)
          /\ \A i \in 1..Len(ops) : (ops \o t)[i] = ops[i]
          /\ \A i \in 1..Len(t) : (ops \o t)[Len(ops) + i] = t[i]
      <4>1. ops \in Seq(Commands) /\ t \in Seq(Commands)
        BY <2>5, <3>2
      <4> QED BY <4>1, ConcatIs
    <3>4. Len(ops) = n + 1 /\ 1 \in 1..Len(t) /\ n + 1 + 1 = n + 2
      BY <1>4, <2>5, <3>2
    <3>5. ext[n + 2] = ev
      <4>1. (ops \o t)[Len(ops) + 1] = t[1]
        BY <3>3, <3>4
      <4> QED BY <3>2, <3>4, <4>1
    <3> QED BY <3>2, <3>3, <3>4, <3>5
  <2>8. \A i \in 1..n + 2 : (i <= n /\ i \in 1..n /\ i \in 1..n + 1) \/ (i = n + 1 /\ i \in 1..n + 1) \/ i = n + 2
    BY <1>4
  <2>9. WorkOf(ext, r, blocks) /\ \A i \in 1..n + 1 : ext[i].op # "event"
    <3>1. \A i \in 1..n + 2 :
             /\ i <= n => ext[i].op = "fill" /\ ext[i].block = blocks[i] /\ ext[i].value = <<r, i>>
             /\ i = n + 1 => ext[i].op = "kernel" /\ ext[i].blocks = blocks /\ ext[i].run = r
             /\ i <= n + 2
      BY <1>4, <2>5, <2>7, <2>8
    <3>2. ext[n + 2].op = "event" /\ ext[n + 2].event \in 1..Len(recorded')
      BY <2>3, <2>4, <2>6, <2>7
    <3>3. \A i \in 1..n + 1 : ext[i].op # "event"
      <4>1. \A i \in 1..n + 1 : i \in 1..n \/ i = n + 1
        BY <1>4
      <4>2. \A i \in 1..n + 1 : ops[i].op # "event"
        BY <2>5, <4>1
      <4> QED BY <2>7, <4>2
    <3> QED BY <1>1, <2>7, <3>1, <3>2, <3>3 DEF WorkOf
  <2>10. StreamInv'
    BY <1>0, <1>1, <1>3, <1>4, <2>2, <2>5, <2>7, <2>9, StreamGrows
  <2>11. PICK L \in Nat :
          /\ L = Len(stream_) /\ Len(stream_') = L + n + 2 /\ stream_' \in Seq(Commands)
          /\ \A k \in 1..L : k \in 1..L + n + 2 /\ stream_'[k] = stream_[k]
          /\ stream_'[L + n + 1] = ops[n + 1] /\ stream_'[L + n + 2] = ev
          /\ \A k \in 1..L + n + 2 : k \in 1..L \/ stream_'[k].op # "event" \/ k = L + n + 2
    <3>1. /\ stream_ \o ext \in Seq(Commands) /\ Len(stream_ \o ext) = Len(stream_) + Len(ext)
          /\ \A k \in 1..Len(stream_) : (stream_ \o ext)[k] = stream_[k]
          /\ \A i \in 1..Len(ext) : (stream_ \o ext)[Len(stream_) + i] = ext[i]
      <4>1. stream_ \in Seq(Commands) /\ ext \in Seq(Commands)
        BY <1>5, <2>7
      <4> QED BY <4>1, ConcatIs
    <3>2. PICK L \in Nat : L = Len(stream_)
      BY <1>5
    <3>3. \A k \in 1..L + n + 2 : \/ k \in 1..L \/ k = L + n + 2
                                  \/ (k - L \in 1..n + 1 /\ k - L \in 1..n + 2 /\ k = L + (k - L))
      BY <1>4
    <3>4. \A k \in 1..L : k \in 1..L + n + 2
      BY <1>4
    <3>5. \A k \in 1..L + n + 2 : k \in 1..L \/ stream_'[k].op # "event" \/ k = L + n + 2
      BY <2>2, <2>7, <2>9, <3>1, <3>2, <3>3
    <3>6. stream_'[L + n + 1] = ops[n + 1] /\ stream_'[L + n + 2] = ev
      <4>1. n + 1 \in 1..n + 2 /\ n + 2 \in 1..n + 2 /\ n + 1 \in 1..n + 1
            /\ L + (n + 1) = L + n + 1 /\ L + (n + 2) = L + n + 2
        BY <1>4
      <4>2. stream_'[L + (n + 1)] = ext[n + 1] /\ stream_'[L + (n + 2)] = ext[n + 2]
        BY <2>2, <2>7, <3>1, <3>2, <4>1
      <4> QED BY <2>7, <4>1, <4>2
    <3>7. Len(stream_') = L + n + 2
      BY <1>4, <2>2, <2>7, <3>1, <3>2
    <3> QED BY <2>2, <3>1, <3>2, <3>4, <3>5, <3>6, <3>7
  <2>12. PICK P \in Nat :
          /\ P = Len(pending_) /\ Len(pending_') = P + 1 /\ pending_'[P + 1] = <<e, r>>
          /\ \A i \in 1..P : pending_'[i] = pending_[i] /\ pending_[i][1] \in 1..Len(recorded) /\ pending_[i][2] \in Runs
          /\ \A i \in 1..P + 1 : i \in 1..P \/ i = P + 1
    <3>1. PICK q, S : q = pending_ /\ S = (1..R) \X Runs
      OBVIOUS
    <3>2. q \in Seq(S) /\ <<e, r>> \in S
      <4>1. pending_ \in Seq((1..Len(recorded)) \X Runs)
        BY <1>5
      <4>2. (1..Len(recorded)) \X Runs \subseteq (1..R) \X Runs
        BY <1>5, <2>3
      <4>3. pending_ \in Seq((1..R) \X Runs)
        BY <4>1, <4>2, WiderSeq
      <4> QED BY <1>3, <2>3, <3>1, <4>3
    <3>3. /\ Append(q, <<e, r>>) \in Seq(S) /\ Len(q) \in Nat /\ Len(Append(q, <<e, r>>)) = Len(q) + 1
          /\ Append(q, <<e, r>>)[Len(q) + 1] = <<e, r>>
          /\ \A i \in 1..Len(q) : Append(q, <<e, r>>)[i] = q[i] /\ q[i] \in S
          /\ \A i \in 1..Len(q) + 1 : i \in 1..Len(q) \/ i = Len(q) + 1
      BY <3>2, AppendAt
    <3>4. \A i \in 1..Len(pending_) : pending_[i][1] \in 1..Len(recorded) /\ pending_[i][2] \in Runs
      BY <1>5
    <3> QED BY <2>2, <3>1, <3>3, <3>4
  <2>13. \A k, x : k \in 1..L + n + 2 /\ Records(k, x)' =>
            (k \in 1..L /\ Records(k, x)) \/ (k = L + n + 2 /\ x = e)
    BY <2>6, <2>11 DEF Records
  <2>14. \A k \in 1..L : \A x : Records(k, x) => x \in 1..Len(recorded) /\ recorded[x] /\ x # e
    <3>1. ASSUME NEW k \in 1..L, NEW x, Records(k, x) PROVE x \in 1..Len(recorded)
      BY <1>0, <2>11, <3>1 DEF StreamInv, Records
    <3> QED BY <1>0, <2>3, <2>11, <3>1 DEF EventInv
  <2>15. EventInv'
    <3>1. \A k \in 1..L + n + 2, x \in 1..R : Records(k, x)' => recorded'[x]
      BY <2>4, <2>13, <2>14
    <3>2. \A k, l \in 1..L + n + 2, x \in 1..R : Records(k, x)' /\ Records(l, x)' => k = l
      BY <1>0, <2>11, <2>13, <2>14 DEF EventInv
    <3>3. \A i \in 1..Len(EventsLeft) : EventsLeft[i] \in 1..Len(recorded)
      BY <2>3
    <3>4. \A i \in 1..Len(EventsLeft) : ~recorded'[EventsLeft[i]]
      BY <2>3, <2>4, <3>3
    <3>5. <<e, r>>[1] = e
      OBVIOUS
    <3>6. \A i, j \in 1..P + 1 : pending_'[i][1] = pending_'[j][1] => i = j
      <4>1. \A i, j \in 1..P : pending_[i][1] = pending_[j][1] => i = j
        BY <1>0, <2>12 DEF EventInv
      <4>2. \A i \in 1..P : pending_'[i][1] = pending_[i][1] /\ pending_'[i][1] # e
        BY <2>3, <2>12
      <4>3. pending_'[P + 1][1] = e
        BY <2>12, <3>5
      <4> QED BY <2>12, <4>1, <4>2, <4>3
    <3>7. \A i \in 1..Len(EventsLeft), j \in 1..P + 1 : EventsLeft[i] # pending_'[j][1]
      BY <2>3, <2>12, <3>5
    <3>8. IsInjective(event_pool_') /\ \A i \in 1..Len(event_pool_') : ~recorded'[event_pool_'[i]]
      BY <2>2, <2>3, <3>4
    <3>9. \A i, j \in 1..Len(pending_') : pending_'[i][1] = pending_'[j][1] => i = j
      BY <2>12, <3>6
    <3>10. \A i \in 1..Len(event_pool_'), j \in 1..Len(pending_') : event_pool_'[i] # pending_'[j][1]
      BY <2>2, <2>12, <3>7
    <3>11. /\ \A k, l \in 1..Len(stream_'), x \in 1..Len(recorded') : Records(k, x)' /\ Records(l, x)' => k = l
           /\ \A k \in 1..Len(stream_'), x \in 1..Len(recorded') : Records(k, x)' => recorded'[x]
      BY <2>2, <2>3, <2>4, <2>11, <3>1, <3>2
    <3> QED BY <3>8, <3>9, <3>10, <3>11 DEF EventInv
  <2>16. PendingInv'
    <3>1. \A k \in 1..L : \A x : (KernelOf(k, x) => KernelOf(k, x)') /\ (Records(k, x) => Records(k, x)')
      BY <2>11 DEF KernelOf, Records
    <3>0. ASSUME \A i \in 1..P + 1 :
                    \/ read'[pending_'[i][2]] = OwnData(pending_'[i][2])
                    \/ \E k, l \in 1..L + n + 2 : /\ k < l /\ KernelOf(k, pending_[i][2])'
                                                  /\ Records(l, pending_[i][1])'
          PROVE  PendingInv'
      <4>1. Len(pending_') = P + 1 /\ Len(stream_') = L + n + 2
        BY <2>11, <2>12
      <4> QED BY <3>0, <4>1 DEF PendingInv, OwnData
    <3> SUFFICES ASSUME NEW i \in 1..P + 1
                 PROVE  \/ read[pending_'[i][2]] = OwnData(pending_'[i][2])
                        \/ \E k, l \in 1..L + n + 2 : /\ k < l /\ KernelOf(k, pending_[i][2])'
                                                      /\ Records(l, pending_[i][1])'
      BY <1>2, <3>0
    <3>2. CASE i \in 1..P
      <4>1. \/ read[pending_[i][2]] = OwnData(pending_[i][2])
            \/ \E k, l \in 1..L : k < l /\ KernelOf(k, pending_[i][2]) /\ Records(l, pending_[i][1])
        BY <1>0, <2>11, <2>12, <3>2 DEF PendingInv
      <4>2. pending_'[i] = pending_[i]
        BY <2>12, <3>2
      <4>3. ASSUME NEW k \in 1..L, NEW l \in 1..L,
                   k < l /\ KernelOf(k, pending_[i][2]) /\ Records(l, pending_[i][1])
            PROVE  \E k1, l1 \in 1..L + n + 2 : /\ k1 < l1 /\ KernelOf(k1, pending_[i][2])'
                                                /\ Records(l1, pending_[i][1])'
        <5>1. k \in 1..L + n + 2 /\ l \in 1..L + n + 2
          BY <2>11
        <5>2. KernelOf(k, pending_[i][2])' /\ Records(l, pending_[i][1])'
          <6>1. PICK p : p = pending_[i] /\ p = pending_'[i]
            BY <4>2
          <6>2. KernelOf(k, p[2])' /\ Records(l, p[1])'
            BY <3>1, <4>3, <6>1
          <6> QED BY <6>1, <6>2
        <5> QED BY <4>3, <5>1, <5>2
      <4> QED BY <4>1, <4>2, <4>3
    <3>3. CASE i = P + 1
      <4>1. KernelOf(L + n + 1, r)' /\ Records(L + n + 2, e)'
        <5>1. stream_'[L + n + 1].op = "kernel" /\ stream_'[L + n + 1].run = r
          BY <2>5, <2>11
        <5>2. stream_'[L + n + 2].op = "event" /\ stream_'[L + n + 2].event = e
          BY <2>6, <2>11
        <5> QED BY <5>1, <5>2 DEF KernelOf, Records
      <4>2. /\ L + n + 1 \in 1..L + n + 2 /\ L + n + 2 \in 1..L + n + 2 /\ L + n + 1 < L + n + 2
        BY <1>4
      <4>3. pending_'[i][1] = e /\ pending_'[i][2] = r
        BY <2>12, <3>3
      <4> QED BY <4>1, <4>2, <4>3
    <3> QED BY <2>12, <3>2, <3>3
  <2>17. AnswerInv'
    <3>1. <<e, r>>[2] = r
      OBVIOUS
    <3>2. \A i, j \in 1..P + 1 : pending_'[i][2] = pending_'[j][2] => i = j
      BY <1>0, <1>3, <2>12, <3>1 DEF AnswerInv
    <3>3. \A i \in 1..P + 1 : /\ pending_'[i][2] \in asked /\ answered[pending_'[i][2]] = <<>>
                              /\ pending_'[i][2] \notin Range(gpu_q')
      BY <1>0, <1>3, <2>12, <3>1 DEF AnswerInv
    <3> QED BY <1>0, <1>2, <1>3, <2>2, <2>12, <3>2, <3>3 DEF AnswerInv
  <2>18. GpuTypeOK'
    <3>1. event_pool_' \in Seq(1..Len(recorded'))
      <4>1. 1..Len(recorded) \subseteq 1..R
        BY <1>5, <2>3
      <4>2. EventsLeft \in Seq(1..R)
        BY <2>3, <4>1, WiderSeq
      <4> QED BY <2>2, <2>4, <4>2
    <3>2. pending_' \in Seq((1..Len(recorded')) \X Runs)
      <4>1. (1..Len(recorded)) \X Runs \subseteq (1..R) \X Runs
        BY <1>5, <2>3
      <4>2. pending_ \in Seq((1..R) \X Runs)
        BY <1>5, <4>1, WiderSeq
      <4>3. <<e, r>> \in (1..R) \X Runs
        BY <1>3, <2>3
      <4> QED BY <2>2, <2>4, <4>2, <4>3, AppendAt
    <3> QED BY <1>0, <1>2, <1>3, <2>2, <2>4, <2>5, <2>11, <3>1, <3>2 DEF GpuTypeOK
  <2> QED BY <2>5, <2>10, <2>15, <2>16, <2>17, <2>18 DEF GpuInv
<1> QED BY <1>2, <1>7, <1>8

\* A step that touches neither the stream nor the memory.
LEMMA StreamStays == ASSUME GpuTypeOK, StreamInv, UNCHANGED <<stream_, memory, recorded>> PROVE StreamInv'
<1>1. \A k, b : Fills(k, b)' <=> Fills(k, b)
  BY DEF Fills
<1>2. \A k, b, v : Sees(k, b, v) => Sees(k, b, v)'
  BY <1>1 DEF Sees
<1>3. \A k : SeesItsOwn(k) => SeesItsOwn(k)'
  BY <1>2 DEF SeesItsOwn
<1>4. stream_' = stream_ /\ memory' = memory /\ recorded' = recorded
  OBVIOUS
<1>5. \A k \in 1..Len(stream_) : stream_[k].op \in {"fill", "kernel", "event"}
  <2>1. \A k \in 1..Len(stream_) : stream_[k] \in Commands
    BY DEF GpuTypeOK
  <2> QED BY <2>1, CommandsAre
<1> QED BY <1>3, <1>4, <1>5 DEF StreamInv

\* schedule() adds a request that nobody has.
LEMMA ScheduleKeeps == ASSUME GpuInv, NEW r \in Runs, Schedule(r) PROVE GpuInv'
<1>1. /\ r \notin asked /\ asked' = asked \cup {r} /\ gpu_q' = Append(gpu_q, r)
      /\ UNCHANGED <<stream_, memory, free_blocks, event_pool_, recorded, pending_, read, answered>>
  BY DEF Schedule
<1>2. GpuTypeOK /\ FreeInv /\ StreamInv /\ EventInv /\ PendingInv /\ AnswerInv
  BY DEF GpuInv
<1>3. gpu_q \in Seq(Runs) /\ r \notin Range(gpu_q)
  BY <1>1, <1>2 DEF GpuTypeOK, AnswerInv
<1>4. /\ gpu_q' \in Seq(Runs) /\ Range(gpu_q') = Range(gpu_q) \cup {r}
      /\ IsInjective(gpu_q) => IsInjective(gpu_q')
  <2>1. /\ Append(gpu_q, r) \in Seq(Runs) /\ Range(Append(gpu_q, r)) = Range(gpu_q) \cup {r}
        /\ IsInjective(gpu_q) /\ r \notin Range(gpu_q) => IsInjective(Append(gpu_q, r))
    BY <1>3, AppendIs
  <2> QED BY <1>1, <1>3, <2>1
<1>5. GpuTypeOK'
  BY <1>1, <1>2, <1>4 DEF GpuTypeOK
<1>6. FreeInv' /\ StreamInv' /\ EventInv' /\ PendingInv'
  <2>1. FreeInv'
    BY <1>1, <1>2 DEF FreeInv
  <2>2. StreamInv'
    BY <1>1, <1>2, StreamStays
  <2>3. EventInv'
    BY <1>1, <1>2 DEF EventInv, Records
  <2>4. PendingInv'
    BY <1>1, <1>2 DEF PendingInv, Records, KernelOf, OwnData
  <2> QED BY <2>1, <2>2, <2>3, <2>4
<1>7. AnswerInv'
  <2>1. IsInjective(gpu_q')
    BY <1>2, <1>4 DEF AnswerInv
  <2>2. answered[r] = <<>>
    BY <1>1, <1>2 DEF AnswerInv
  <2>3. \A x \in Range(gpu_q') : x \in asked' /\ answered[x] = <<>>
    BY <1>1, <1>2, <1>4, <2>2 DEF AnswerInv
  <2>4. \A i \in 1..Len(pending_) : /\ pending_[i][2] \in asked' /\ answered[pending_[i][2]] = <<>>
                                   /\ pending_[i][2] \notin Range(gpu_q')
    BY <1>1, <1>2, <1>4 DEF AnswerInv
  <2> QED BY <1>1, <1>2, <2>1, <2>3, <2>4 DEF AnswerInv, OwnData
<1> QED BY <1>5, <1>6, <1>7 DEF GpuInv

\* A kernel at the head of the stream reads its own data.
LEMMA HeadReads ==
  ASSUME GpuTypeOK, StreamInv, stream_ # <<>>, NEW o, o = stream_[1], o.op = "kernel"
  PROVE  o.run \in Runs /\ {memory[b] : b \in ToSet(o.blocks)} = OwnData(o.run)
<1>1. o \in Commands /\ 1 \in 1..Len(stream_)
  BY DEF GpuTypeOK
<1>2. o.run \in Runs /\ o.blocks \in Seq(Nat)
  BY <1>1, CommandsAre
<1>3. PICK n : n = Works[o.run] /\ n \in Nat
  BY <1>2, WorksAssumption DEF Runs
<1>4. SeesItsOwn(1)
  BY <1>1 DEF StreamInv
<1>5. DOMAIN o.blocks = 1..n
  BY <1>2, <1>3, <1>4 DEF SeesItsOwn
<1>6. \A i \in 1..n : memory[o.blocks[i]] = <<o.run, i>>
  BY <1>3, <1>4 DEF SeesItsOwn, Sees
<1>7. ToSet(o.blocks) = {o.blocks[i] : i \in 1..n}
  BY <1>5 DEF ToSet
<1>8. {memory[b] : b \in ToSet(o.blocks)} = {<<o.run, i>> : i \in 1..n}
  <2>1. ASSUME NEW b \in ToSet(o.blocks) PROVE memory[b] \in {<<o.run, i>> : i \in 1..n}
    BY <1>6, <1>7
  <2>2. ASSUME NEW i \in 1..n PROVE \E b \in ToSet(o.blocks) : memory[b] = <<o.run, i>>
    BY <1>6, <1>7
  <2> QED BY <2>1, <2>2
<1> QED BY <1>2, <1>3, <1>8 DEF OwnData

\* What an operation has not been executed yet will see does not change.
LEMMA SeesOn ==
  ASSUME GpuTypeOK, StreamInv, stream_ # <<>>,
         stream_' = Tail(stream_), NEW o, o = stream_[1],
         memory' = IF o.op = "fill" THEN [memory EXCEPT ![o.block] = o.value] ELSE memory,
         NEW k \in 1..Len(stream_) - 1, NEW b \in 1..Len(memory), NEW v, Sees(k + 1, b, v)
  PROVE  Sees(k, b, v)'
<1>1. PICK L \in Nat \ {0} : /\ L = Len(stream_) /\ Len(stream_') = L - 1
                            /\ \A j \in 1..L - 1 : stream_'[j] = stream_[j + 1]
  BY TailAt DEF GpuTypeOK
<1>2. k \in Nat /\ k >= 1 /\ k <= L - 1
  BY <1>1
<1>3. \A j \in 1..k - 1 : /\ j + 1 \in 1..(k + 1) - 1 /\ stream_'[j] = stream_[j + 1]
                          /\ (Fills(j, b)' <=> Fills(j + 1, b))
  <2>1. \A j \in 1..k - 1 : j + 1 \in 1..(k + 1) - 1 /\ stream_'[j] = stream_[j + 1]
    BY <1>1, <1>2
  <2> QED BY <2>1 DEF Fills
<1>4. 1 \in 1..(k + 1) - 1
  BY <1>2
<1>5. DOMAIN memory = 1..Len(memory)
  BY DEF GpuTypeOK
<1>6. CASE memory[b] = v /\ \A j \in 1..(k + 1) - 1 : ~Fills(j, b)
  <2>1. memory'[b] = v
    BY <1>4, <1>5, <1>6 DEF Fills
  <2>2. \A j \in 1..k - 1 : ~Fills(j, b)'
    BY <1>3, <1>6
  <2> QED BY <2>1, <2>2 DEF Sees
<1>7. CASE \E j \in 1..(k + 1) - 1 : /\ Fills(j, b) /\ stream_[j].value = v
                                    /\ \A l \in j + 1..(k + 1) - 1 : ~Fills(l, b)
  <2>1. PICK j \in 1..(k + 1) - 1 : /\ Fills(j, b) /\ stream_[j].value = v
                                   /\ \A l \in j + 1..(k + 1) - 1 : ~Fills(l, b)
    BY <1>7
  <2>2. CASE j = 1
    <3>1. memory'[b] = v
      BY <1>5, <2>1, <2>2 DEF Fills
    <3>2. \A l \in 1..k - 1 : l + 1 \in j + 1..(k + 1) - 1
      BY <1>2, <2>2
    <3>3. \A l \in 1..k - 1 : ~Fills(l, b)'
      BY <1>3, <2>1, <3>2
    <3> QED BY <3>1, <3>3 DEF Sees
  <2>3. CASE j # 1
    <3>1. PICK h \in 1..k - 1 : j = h + 1
      <4>1. j - 1 \in 1..k - 1 /\ j = (j - 1) + 1
        BY <1>2, <2>3
      <4> QED BY <4>1
    <3>2. \A l \in h + 1..k - 1 : l \in 1..k - 1 /\ l + 1 \in j + 1..(k + 1) - 1
      BY <1>2, <3>1
    <3>3. \A l \in h + 1..k - 1 : ~Fills(l, b)'
      BY <1>3, <2>1, <3>2
    <3>4. Fills(h, b)' /\ stream_'[h].value = v
      BY <1>3, <2>1, <3>1
    <3> QED BY <3>3, <3>4 DEF Sees
  <2> QED BY <2>2, <2>3
<1> QED BY <1>6, <1>7 DEF Sees

\* The GPU executes the head of the stream.
LEMMA ExecuteNextKeeps == ASSUME GpuInv, ExecuteNext PROVE GpuInv'
<1>1. GpuTypeOK /\ FreeInv /\ StreamInv /\ EventInv /\ PendingInv /\ AnswerInv
  BY DEF GpuInv
<1>2. PICK o : o = stream_[1]
  OBVIOUS
<1>3. PICK L \in Nat \ {0} :
        /\ L = Len(stream_) /\ Len(stream_') = L - 1 /\ stream_' \in Seq(Commands)
        /\ \A j \in 1..L - 1 : stream_'[j] = stream_[j + 1]
        /\ o \in Commands /\ o = Head(stream_) /\ stream_ # <<>> /\ stream_' = Tail(stream_)
  <2>1. stream_ # <<>> /\ stream_' = Tail(stream_)
    BY DEF ExecuteNext
  <2>2. stream_ \in Seq(Commands)
    BY <1>1 DEF GpuTypeOK
  <2> QED BY <1>2, <2>1, <2>2, TailAt
<1>4. /\ memory' = IF o.op = "fill" THEN [memory EXCEPT ![o.block] = o.value] ELSE memory
      /\ read' = IF o.op = "kernel"
                 THEN [read EXCEPT ![o.run] = {memory[b] : b \in ToSet(o.blocks)}] ELSE read
      /\ recorded' = IF o.op = "event" THEN [recorded EXCEPT ![o.event] = FALSE] ELSE recorded
      /\ UNCHANGED <<gpu_q, free_blocks, event_pool_, pending_, answered, asked>>
  BY <1>3 DEF ExecuteNext
<1>5. /\ memory \in Seq(Values) /\ recorded \in Seq(BOOLEAN) /\ read \in [Runs -> SUBSET Values]
      /\ DOMAIN memory = 1..Len(memory) /\ DOMAIN recorded = 1..Len(recorded)
  BY <1>1 DEF GpuTypeOK
<1>6. \A j \in 1..L - 1 : j + 1 \in 1..L /\ stream_'[j] = stream_[j + 1]
  BY <1>3
<1>7. /\ 1 \in 1..L
      /\ o.op \in {"fill", "kernel", "event"}
      /\ o.op = "fill" => o.value \in Values
      /\ o.op = "event" => o.event \in 1..Len(recorded)
  <2>1. 1 \in 1..L
    BY <1>3
  <2>2. o.op = "event" => o.event \in 1..Len(recorded)
    BY <1>1, <1>2, <1>3, <2>1 DEF StreamInv
  <2> QED BY <1>3, <2>1, <2>2, CommandsAre DEF Values
<1>8. memory' \in Seq(Values) /\ Len(memory') = Len(memory)
  <2>1. CASE o.op = "fill"
    <3>1. memory' = [memory EXCEPT ![o.block] = o.value] /\ o.value \in Values
      BY <1>4, <1>7, <2>1
    <3>2. Len(memory) \in Nat /\ memory \in [1..Len(memory) -> Values]
      BY <1>5
    <3>3. memory' \in [1..Len(memory) -> Values]
      BY <3>1, <3>2
    <3> QED BY <3>2, <3>3, MadeIs
  <2>2. CASE o.op # "fill"
    BY <1>4, <1>5, <2>2
  <2> QED BY <2>1, <2>2
<1>9. /\ recorded' \in Seq(BOOLEAN) /\ Len(recorded') = Len(recorded)
      /\ \A e \in 1..Len(recorded) : recorded'[e] = (recorded[e] /\ ~(o.op = "event" /\ o.event = e))
  <2>1. recorded' \in Seq(BOOLEAN) /\ Len(recorded') = Len(recorded)
    <3>1. CASE o.op = "event"
      <4>1. recorded' = [recorded EXCEPT ![o.event] = FALSE]
        BY <1>4, <3>1
      <4>2. Len(recorded) \in Nat /\ recorded \in [1..Len(recorded) -> BOOLEAN]
        BY <1>5
      <4>3. recorded' \in [1..Len(recorded) -> BOOLEAN]
        BY <4>1, <4>2
      <4> QED BY <4>2, <4>3, MadeIs
    <3>2. CASE o.op # "event"
      BY <1>4, <1>5, <3>2
    <3> QED BY <3>1, <3>2
  <2>2. \A e \in 1..Len(recorded) : recorded[e] \in BOOLEAN
    BY <1>5
  <2>3. \A e \in 1..Len(recorded) : recorded'[e] = (recorded[e] /\ ~(o.op = "event" /\ o.event = e))
    BY <1>4, <1>5, <2>2
  <2> QED BY <2>1, <2>3
<1>10. /\ read' \in [Runs -> SUBSET Values]
       /\ o.op = "kernel" => o.run \in Runs /\ read'[o.run] = OwnData(o.run)
       /\ \A r \in Runs : read[r] = OwnData(r) => read'[r] = OwnData(r)
  <2>1. CASE o.op = "kernel"
    <3>1. o.run \in Runs /\ {memory[b] : b \in ToSet(o.blocks)} = OwnData(o.run)
      BY <1>1, <1>2, <1>3, <2>1, HeadReads
    <3>2. read' = [read EXCEPT ![o.run] = OwnData(o.run)]
      BY <1>4, <2>1, <3>1
    <3>3. OwnData(o.run) \in SUBSET Values
      <4>1. Works[o.run] \in Nat
        BY <3>1, WorksAssumption DEF Runs
      <4>2. \A i \in 1..Works[o.run] : <<o.run, i>> \in Runs \X Nat
        BY <3>1, <4>1
      <4> QED BY <4>2 DEF OwnData, Values
    <3> HIDE DEF OwnData
    <3> QED BY <1>5, <3>1, <3>2, <3>3
  <2>2. CASE o.op # "kernel"
    BY <1>4, <1>5, <2>2
  <2> QED BY <2>1, <2>2
<1>11. GpuTypeOK'
  BY <1>1, <1>3, <1>4, <1>8, <1>9, <1>10 DEF GpuTypeOK
<1>12. FreeInv'
  BY <1>1, <1>4 DEF FreeInv
<1>13. \A k \in 1..L - 1 : \A x : (Records(k, x)' <=> Records(k + 1, x)) /\ (KernelOf(k, x)' <=> KernelOf(k + 1, x))
  BY <1>6 DEF Records, KernelOf
<1>14. StreamInv'
  <2>1. ASSUME NEW k \in 1..L - 1
        PROVE  CASE stream_'[k].op = "fill"   -> stream_'[k].block \in 1..Len(memory')
                 [] stream_'[k].op = "kernel" -> SeesItsOwn(k)'
                 [] stream_'[k].op = "event"  -> stream_'[k].event \in 1..Len(recorded')
    <3>1. stream_'[k] = stream_[k + 1] /\ k + 1 \in 1..Len(stream_) /\ k \in 1..Len(stream_) - 1
      BY <1>3, <1>6
    <3>2. stream_[k + 1].op \in {"fill", "kernel", "event"}
      <4>1. stream_[k + 1] \in Commands
        BY <1>1, <3>1 DEF GpuTypeOK
      <4> QED BY <4>1, CommandsAre
    <3>3. CASE stream_[k + 1].op = "fill"
      BY <1>1, <1>8, <3>1, <3>3 DEF StreamInv
    <3>4. CASE stream_[k + 1].op = "kernel"
      <4>1. SeesItsOwn(k + 1)
        BY <1>1, <3>1, <3>4 DEF StreamInv
      <4>2. \A b \in 1..Len(memory) : \A v : Sees(k + 1, b, v) => Sees(k, b, v)'
        BY <1>1, <1>2, <1>3, <1>4, <3>1, SeesOn
      <4>3. SeesItsOwn(k)'
        BY <1>8, <3>1, <4>1, <4>2 DEF SeesItsOwn
      <4> QED BY <3>1, <3>4, <4>3
    <3>5. CASE stream_[k + 1].op = "event"
      BY <1>1, <1>9, <3>1, <3>5 DEF StreamInv
    <3> QED BY <3>2, <3>3, <3>4, <3>5
  <2> QED BY <1>3, <2>1 DEF StreamInv
<1>15. EventInv'
  <2>1. \A k \in 1..L - 1, e \in 1..Len(recorded) : Records(k, e)' => recorded'[e]
    <3> SUFFICES ASSUME NEW k \in 1..L - 1, NEW e \in 1..Len(recorded), Records(k, e)' PROVE recorded'[e]
      OBVIOUS
    <3>1. Records(k + 1, e) /\ k + 1 \in 1..L /\ k + 1 # 1
      BY <1>3, <1>6, <1>13
    <3>2. recorded[e] /\ ~Records(1, e)
      BY <1>1, <1>3, <1>7, <3>1 DEF EventInv
    <3> QED BY <1>2, <1>9, <3>2 DEF Records
  <2>2. \A k, l \in 1..L - 1, e \in 1..Len(recorded) : Records(k, e)' /\ Records(l, e)' => k = l
    <3> SUFFICES ASSUME NEW k \in 1..L - 1, NEW l \in 1..L - 1, NEW e \in 1..Len(recorded),
                        Records(k, e)', Records(l, e)'
                 PROVE  k = l
      OBVIOUS
    <3>1. Records(k + 1, e) /\ k + 1 \in 1..L /\ Records(l + 1, e) /\ l + 1 \in 1..L
      BY <1>6, <1>13
    <3>2. k + 1 = l + 1
      BY <1>1, <1>3, <3>1 DEF EventInv
    <3> QED BY <1>3, <3>2
  <2>3. \A i \in 1..Len(event_pool_) : ~recorded'[event_pool_[i]]
    <3>1. \A i \in 1..Len(event_pool_) : event_pool_[i] \in 1..Len(recorded)
      BY <1>1 DEF GpuTypeOK
    <3> QED BY <1>1, <1>9, <3>1 DEF EventInv
  <2> QED BY <1>1, <1>3, <1>4, <1>9, <2>1, <2>2, <2>3 DEF EventInv
<1>16. PendingInv'
  <2> SUFFICES ASSUME NEW i \in 1..Len(pending_)
               PROVE  \/ read'[pending_[i][2]] = OwnData(pending_[i][2])
                      \/ \E k, l \in 1..L - 1 : /\ k < l /\ KernelOf(k, pending_[i][2])'
                                                /\ Records(l, pending_[i][1])'
    BY <1>3, <1>4 DEF PendingInv, OwnData
  <2>0. PICK e, r : e = pending_[i][1] /\ r = pending_[i][2] /\ r \in Runs
    <3>1. pending_[i][2] \in Runs
      BY <1>1 DEF GpuTypeOK
    <3> QED BY <3>1
  <2>1. \/ read[r] = OwnData(r)
        \/ \E k, l \in 1..L : k < l /\ KernelOf(k, r) /\ Records(l, e)
    BY <1>1, <1>3, <2>0 DEF PendingInv
  <2>2. CASE read[r] = OwnData(r)
    BY <1>10, <2>0, <2>2
  <2>3. ASSUME NEW k \in 1..L, NEW l \in 1..L, k < l, KernelOf(k, r), Records(l, e)
        PROVE  \/ read'[r] = OwnData(r)
               \/ \E k1, l1 \in 1..L - 1 : k1 < l1 /\ KernelOf(k1, r)' /\ Records(l1, e)'
    <3>1. CASE k = 1
      BY <1>2, <1>10, <2>3, <3>1 DEF KernelOf
    <3>2. CASE k # 1
      <4>1. PICK k1, l1 \in 1..L - 1 : k = k1 + 1 /\ l = l1 + 1 /\ k1 < l1
        <5>1. k - 1 \in 1..L - 1 /\ l - 1 \in 1..L - 1 /\ k = (k - 1) + 1 /\ l = (l - 1) + 1 /\ k - 1 < l - 1
          BY <1>3, <2>3, <3>2
        <5> QED BY <5>1
      <4>2. KernelOf(k1, r)' /\ Records(l1, e)'
        BY <1>13, <2>3, <4>1
      <4> QED BY <4>1, <4>2
    <3> QED BY <3>1, <3>2
  <2>4. \/ read'[r] = OwnData(r)
        \/ \E k1, l1 \in 1..L - 1 : k1 < l1 /\ KernelOf(k1, r)' /\ Records(l1, e)'
    BY <1>10, <2>0, <2>1, <2>3
  <2> QED BY <1>4, <2>0, <2>4
<1>17. AnswerInv'
  BY <1>1, <1>4, <1>10 DEF AnswerInv, OwnData
<1> QED BY <1>11, <1>12, <1>14, <1>15, <1>16, <1>17 DEF GpuInv

\* A callback comes after the kernel, and the event goes back to the pool.
LEMMA PollEventKeeps == ASSUME GpuInv, NEW i \in DOMAIN pending_, PollEvent(i) PROVE GpuInv'
<1>1. GpuTypeOK /\ FreeInv /\ StreamInv /\ EventInv /\ PendingInv /\ AnswerInv
  BY DEF GpuInv
<1>2. PICK e, r, P, N :
        /\ e = pending_[i][1] /\ r = pending_[i][2] /\ P = Len(pending_) /\ N = Len(recorded)
  OBVIOUS
<1>3. /\ ~recorded[e]
      /\ answered' = [answered EXCEPT ![r] = Append(@, "value")]
      /\ event_pool_' = Append(event_pool_, e)
      /\ pending_' = RemoveAt(pending_, i)
      /\ UNCHANGED <<gpu_q, stream_, memory, free_blocks, recorded, read, asked>>
  BY <1>2 DEF PollEvent, PendingErased
<1>4. /\ P \in Nat /\ N \in Nat /\ i \in 1..P /\ pending_ \in Seq((1..N) \X Runs)
      /\ e \in 1..N /\ r \in Runs
      /\ \A j \in 1..P : pending_[j][1] \in 1..N /\ pending_[j][2] \in Runs
      /\ event_pool_ \in Seq(1..N) /\ stream_ \in Seq(Commands)
      /\ answered \in [Runs -> {<<>>, <<"value">>, <<"exception">>}]
  <2>1. /\ pending_ \in Seq((1..N) \X Runs) /\ N \in Nat
        /\ event_pool_ \in Seq(1..N) /\ stream_ \in Seq(Commands)
        /\ answered \in [Runs -> {<<>>, <<"value">>, <<"exception">>}]
    BY <1>1, <1>2 DEF GpuTypeOK
  <2>2. P \in Nat /\ DOMAIN pending_ = 1..P /\ \A j \in 1..P : pending_[j] \in (1..N) \X Runs
    BY <1>2, <2>1
  <2>3. \A j \in 1..P : pending_[j][1] \in 1..N /\ pending_[j][2] \in Runs
    BY <2>2
  <2>4. i \in 1..P
    BY <2>2
  <2> QED BY <1>2, <2>1, <2>2, <2>3, <2>4
<1>5. /\ pending_' \in Seq((1..N) \X Runs) /\ Len(pending_') = P - 1
      /\ \A j \in 1..P - 1 : pending_'[j] = pending_[IF j < i THEN j ELSE j + 1]
  <2>1. PICK S : S = (1..N) \X Runs
    OBVIOUS
  <2>2. pending_ \in Seq(S) /\ i \in 1..Len(pending_)
    BY <1>2, <1>4, <2>1
  <2>3. /\ RemoveAt(pending_, i) \in Seq(S) /\ Len(RemoveAt(pending_, i)) = Len(pending_) - 1
        /\ \A j \in 1..Len(pending_) - 1 :
              RemoveAt(pending_, i)[j] = pending_[IF j < i THEN j ELSE j + 1]
    BY <2>2, RemoveAtIs
  <2> QED BY <1>2, <1>3, <2>1, <2>3
<1>6. \A j \in 1..P - 1 : \E h \in 1..P : /\ pending_'[j] = pending_[h] /\ h # i
                                          /\ h = IF j < i THEN j ELSE j + 1
  <2> SUFFICES ASSUME NEW j \in 1..P - 1
               PROVE  \E h \in 1..P : /\ pending_'[j] = pending_[h] /\ h # i
                                      /\ h = IF j < i THEN j ELSE j + 1
    OBVIOUS
  <2>1. PICK h : h = IF j < i THEN j ELSE j + 1
    OBVIOUS
  <2>2. h \in 1..P /\ h # i
    BY <1>4, <2>1
  <2>3. pending_'[j] = pending_[h]
    BY <1>5, <2>1
  <2> QED BY <2>1, <2>2, <2>3
<1>7. read[r] = OwnData(r)
  <2>1. \A l \in 1..Len(stream_) : ~Records(l, e)
    BY <1>1, <1>2, <1>3, <1>4 DEF EventInv
  <2> QED BY <1>1, <1>2, <1>4, <2>1 DEF PendingInv
<1>8. answered[r] = <<>> /\ r \in asked /\ r \notin Range(gpu_q)
  BY <1>1, <1>2, <1>4 DEF AnswerInv
<1>9. /\ answered'[r] = <<"value">> /\ \A x \in Runs : x # r => answered'[x] = answered[x]
      /\ answered' \in [Runs -> {<<>>, <<"value">>, <<"exception">>}]
  <2>1. answered' = [answered EXCEPT ![r] = <<"value">>]
    BY <1>3, <1>8
  <2> QED BY <1>4, <2>1
<1>10. PICK Q \in Nat :
         /\ Q = Len(event_pool_) /\ event_pool_' \in Seq(1..N) /\ Len(event_pool_') = Q + 1
         /\ event_pool_'[Q + 1] = e /\ \A j \in 1..Q : event_pool_'[j] = event_pool_[j]
         /\ \A j \in 1..Q + 1 : j \in 1..Q \/ j = Q + 1
  <2>1. PICK S : S = 1..N
    OBVIOUS
  <2>2. event_pool_ \in Seq(S) /\ e \in S
    BY <1>4, <2>1
  <2>3. /\ Append(event_pool_, e) \in Seq(S) /\ Len(event_pool_) \in Nat
        /\ Len(Append(event_pool_, e)) = Len(event_pool_) + 1
        /\ Append(event_pool_, e)[Len(event_pool_) + 1] = e
        /\ \A j \in 1..Len(event_pool_) : Append(event_pool_, e)[j] = event_pool_[j] /\ event_pool_[j] \in S
        /\ \A j \in 1..Len(event_pool_) + 1 : j \in 1..Len(event_pool_) \/ j = Len(event_pool_) + 1
    BY <2>2, AppendAt
  <2> QED BY <1>3, <2>1, <2>3
<1>11. /\ \A j \in 1..Q : event_pool_[j] # e
       /\ \A j \in 1..Q, h \in 1..P : event_pool_[j] # pending_[h][1]
       /\ \A j \in 1..Q : ~recorded[event_pool_[j]]
       /\ \A j \in 1..P : j # i => pending_[j][1] # e /\ pending_[j][2] # r
       /\ \A h, j \in 1..P : pending_[h][1] = pending_[j][1] => h = j
       /\ \A h, j \in 1..P : pending_[h][2] = pending_[j][2] => h = j
  <2>1. /\ \A j \in 1..Q, h \in 1..P : event_pool_[j] # pending_[h][1]
        /\ \A j \in 1..Q : ~recorded[event_pool_[j]]
        /\ \A h, j \in 1..P : pending_[h][1] = pending_[j][1] => h = j
    BY <1>1, <1>2, <1>10 DEF EventInv
  <2>2. \A h, j \in 1..P : pending_[h][2] = pending_[j][2] => h = j
    BY <1>1, <1>2 DEF AnswerInv
  <2>3. \A j \in 1..Q : event_pool_[j] # e
    BY <1>2, <1>4, <2>1
  <2>4. \A j \in 1..P : j # i => pending_[j][1] # e /\ pending_[j][2] # r
    BY <1>2, <1>4, <2>1, <2>2
  <2> QED BY <2>1, <2>2, <2>3, <2>4
<1>12. GpuTypeOK'
  BY <1>1, <1>2, <1>3, <1>5, <1>9, <1>10 DEF GpuTypeOK
<1>13. FreeInv' /\ StreamInv'
  <2>1. FreeInv'
    BY <1>1, <1>3 DEF FreeInv
  <2>2. StreamInv'
    BY <1>1, <1>3, StreamStays
  <2> QED BY <2>1, <2>2
<1>14. \A h, j \in 1..P - 1 : (pending_'[h][1] = pending_'[j][1] \/ pending_'[h][2] = pending_'[j][2]) => h = j
  <2> SUFFICES ASSUME NEW h \in 1..P - 1, NEW j \in 1..P - 1,
                      pending_'[h][1] = pending_'[j][1] \/ pending_'[h][2] = pending_'[j][2]
               PROVE  h = j
    OBVIOUS
  <2>1. PICK h1 \in 1..P : pending_'[h] = pending_[h1] /\ h1 = IF h < i THEN h ELSE h + 1
    BY <1>6
  <2>2. PICK j1 \in 1..P : pending_'[j] = pending_[j1] /\ j1 = IF j < i THEN j ELSE j + 1
    BY <1>6
  <2>3. h1 = j1
    <3>1. pending_[h1][1] = pending_[j1][1] \/ pending_[h1][2] = pending_[j1][2]
      BY <2>1, <2>2
    <3> QED BY <1>11, <3>1
  <2>4. h \in Int /\ j \in Int /\ i \in Int
    BY <1>4
  <2>5. (IF h < i THEN h ELSE h + 1) = (IF j < i THEN j ELSE j + 1)
    BY <2>1, <2>2, <2>3
  <2> QED BY <2>4, <2>5
<1>15. EventInv'
  <2>1. IsInjective(event_pool_')
    <3>1. \A h, j \in 1..Q : event_pool_[h] = event_pool_[j] => h = j
      <4>1. DOMAIN event_pool_ = 1..Q
        BY <1>4, <1>10
      <4> QED BY <1>1, <4>1 DEF EventInv, IsInjective
    <3>2. DOMAIN event_pool_' = 1..Q + 1
      BY <1>10
    <3> QED BY <1>10, <1>11, <3>1, <3>2 DEF IsInjective
  <2>2. \A j \in 1..Q + 1 : ~recorded[event_pool_'[j]]
    BY <1>3, <1>10, <1>11
  <2>3. \A j \in 1..Q + 1, h \in 1..P - 1 : event_pool_'[j] # pending_'[h][1]
    <3> SUFFICES ASSUME NEW j \in 1..Q + 1, NEW h \in 1..P - 1 PROVE event_pool_'[j] # pending_'[h][1]
      OBVIOUS
    <3>1. PICK h1 \in 1..P : pending_'[h] = pending_[h1] /\ h1 # i
      BY <1>6
    <3> QED BY <1>10, <1>11, <3>1
  <2>4. /\ \A k, l \in 1..Len(stream_), x \in 1..N : Records(k, x)' /\ Records(l, x)' => k = l
        /\ \A k \in 1..Len(stream_), x \in 1..N : Records(k, x)' => recorded[x]
    BY <1>1, <1>2, <1>3 DEF EventInv, Records
  <2>5. /\ Len(pending_') = P - 1 /\ Len(event_pool_') = Q + 1 /\ Len(recorded') = N
        /\ stream_' = stream_ /\ recorded' = recorded
    BY <1>2, <1>3, <1>5, <1>10
  <2>6. \A h, j \in 1..P - 1 : pending_'[h][1] = pending_'[j][1] => h = j
    BY <1>14
  <2> QED BY <2>1, <2>2, <2>3, <2>4, <2>5, <2>6 DEF EventInv
<1>16. PendingInv'
  <2>0. ASSUME \A j \in 1..P - 1 :
                  \/ read[pending_'[j][2]] = OwnData(pending_'[j][2])
                  \/ \E k, l \in 1..Len(stream_) : /\ k < l /\ KernelOf(k, pending_[j][2])'
                                                  /\ Records(l, pending_[j][1])'
        PROVE  PendingInv'
    <3>1. Len(pending_') = P - 1 /\ stream_' = stream_ /\ read' = read
      BY <1>3, <1>5
    <3> QED BY <2>0, <3>1 DEF PendingInv, OwnData
  <2> SUFFICES ASSUME NEW j \in 1..P - 1
               PROVE  \/ read[pending_'[j][2]] = OwnData(pending_'[j][2])
                      \/ \E k, l \in 1..Len(stream_) : /\ k < l /\ KernelOf(k, pending_[j][2])'
                                                      /\ Records(l, pending_[j][1])'
    BY <2>0
  <2>1. PICK h \in 1..P : pending_'[j] = pending_[h]
    BY <1>6
  <2>2. \/ read[pending_[h][2]] = OwnData(pending_[h][2])
        \/ \E k, l \in 1..Len(stream_) : k < l /\ KernelOf(k, pending_[h][2]) /\ Records(l, pending_[h][1])
    BY <1>1, <1>2 DEF PendingInv
  <2> QED BY <1>3, <2>1, <2>2 DEF KernelOf, Records
<1>17. AnswerInv'
  <2>1. \A j \in 1..P - 1 : /\ pending_'[j][2] \in asked /\ answered'[pending_'[j][2]] = <<>>
                            /\ pending_'[j][2] \notin Range(gpu_q)
    <3> SUFFICES ASSUME NEW j \in 1..P - 1
                 PROVE  /\ pending_'[j][2] \in asked /\ answered'[pending_'[j][2]] = <<>>
                        /\ pending_'[j][2] \notin Range(gpu_q)
      OBVIOUS
    <3>1. PICK h \in 1..P : pending_'[j] = pending_[h] /\ h # i
      BY <1>6
    <3>2. pending_[h][2] # r /\ pending_[h][2] \in Runs
      BY <1>4, <1>11, <3>1
    <3>3. pending_[h][2] \in asked /\ answered[pending_[h][2]] = <<>> /\ pending_[h][2] \notin Range(gpu_q)
      BY <1>1, <1>2 DEF AnswerInv
    <3> QED BY <1>9, <3>1, <3>2, <3>3
  <2>2. \A x \in Range(gpu_q) : x \in asked /\ answered'[x] = <<>>
    <3>1. \A x \in Range(gpu_q) : x \in Runs
      BY <1>1 DEF GpuTypeOK, Range
    <3> QED BY <1>1, <1>8, <1>9, <3>1 DEF AnswerInv
  <2>3. \A x \in Runs \ asked : answered'[x] = <<>>
    BY <1>1, <1>8, <1>9 DEF AnswerInv
  <2>4. \A x \in Runs : answered'[x] = <<"value">> => read[x] = OwnData(x)
    BY <1>1, <1>7, <1>9 DEF AnswerInv
  <2>5. IsInjective(gpu_q)
    BY <1>1 DEF AnswerInv
  <2> QED BY <1>3, <1>5, <1>14, <2>1, <2>2, <2>3, <2>4, <2>5 DEF AnswerInv, OwnData
<1> QED BY <1>12, <1>13, <1>15, <1>16, <1>17 DEF GpuInv

\* At the start everything is empty.
LEMMA InitGpuInv == ASSUME GpuInit PROVE GpuInv
<1>1. GpuTypeOK
  <2>1. \A S : <<>> \in Seq(S)
    OBVIOUS
  <2> QED BY <2>1 DEF GpuInit, GpuTypeOK
<1>2. Len(<<>>) = 0 /\ 1..0 = {} /\ DOMAIN <<>> = {}
  OBVIOUS
<1>3. FreeInv /\ StreamInv /\ EventInv /\ PendingInv
  BY <1>2 DEF GpuInit, FreeInv, StreamInv, EventInv, PendingInv, IsInjective
<1>4. AnswerInv
  BY <1>2 DEF GpuInit, AnswerInv, IsInjective, Range
<1> QED BY <1>1, <1>3, <1>4 DEF GpuInv

\* Every step of the scheduler and of the GPU keeps the invariant.
LEMMA NextGpuInv == ASSUME GpuInv, [GpuNext]_gvars PROVE GpuInv'
<1>1. ASSUME NEW r \in Runs, Schedule(r) PROVE GpuInv'
  BY <1>1, ScheduleKeeps
<1>2. CASE Drain
  BY <1>2, DrainKeeps
<1>3. ASSUME NEW i \in DOMAIN pending_, PollEvent(i) PROVE GpuInv'
  BY <1>3, PollEventKeeps
<1>4. CASE ExecuteNext
  BY <1>4, ExecuteNextKeeps
<1>5. CASE UNCHANGED gvars
  <2>1. UNCHANGED <<gpu_q, stream_, memory, free_blocks, event_pool_, recorded, pending_, read, answered, asked>>
    BY <1>5 DEF gvars
  <2>2. GpuTypeOK /\ FreeInv /\ StreamInv /\ EventInv /\ PendingInv /\ AnswerInv
    BY DEF GpuInv
  <2>3. GpuTypeOK'
    BY <2>1, <2>2 DEF GpuTypeOK
  <2>4. FreeInv' /\ AnswerInv'
    BY <2>1, <2>2 DEF FreeInv, AnswerInv, OwnData
  <2>5. StreamInv'
    BY <2>1, <2>2, StreamStays
  <2>6. EventInv'
    BY <2>1, <2>2 DEF EventInv, Records
  <2>7. PendingInv'
    BY <2>1, <2>2 DEF PendingInv, Records, KernelOf, OwnData
  <2> QED BY <2>3, <2>4, <2>5, <2>6, <2>7 DEF GpuInv
<1> QED BY <1>1, <1>2, <1>3, <1>4, <1>5 DEF GpuNext, GpuAdvance

-----------------------------------------------------------------------------
(* An event is in the pool or waited for, and not twice;                   *)
(* its record is in the stream once, behind the kernel of its run; what a  *)
(* kernel in the stream will see in its blocks is its own, whoever has     *)
(* them next; and a run is queued or pending until it is answered.         *)
THEOREM GpuInvHolds == GpuSpec => []GpuInv
<1>1. GpuInit => GpuInv
  BY InitGpuInv
<1>2. GpuInv /\ [GpuNext]_gvars => GpuInv'
  BY NextGpuInv
<1> QED BY <1>1, <1>2, PTL DEF GpuSpec

(* advance(), for any number of runs and any sizes of their works: a run   *)
(* whose callback came was executed to its end on blocks that held its own *)
(* data, although events and device blocks are reused while the stream has *)
(* not reached them (acquire_event, scoped_device_mem); and no run is      *)
(* answered twice.                                                         *)
THEOREM RunsAreTrue == GpuSpec => []RunsTrue
<1>1. GpuInv => RunsTrue
  <2> SUFFICES ASSUME GpuInv PROVE RunsTrue
    OBVIOUS
  <2>1. answered \in [Runs -> {<<>>, <<"value">>, <<"exception">>}]
    BY DEF GpuInv, GpuTypeOK
  <2>2. ASSUME NEW r \in Runs PROVE Len(answered[r]) <= 1
    <3>1. answered[r] \in {<<>>, <<"value">>, <<"exception">>}
      BY <2>1
    <3>2. CASE answered[r] = <<>>
      BY <3>2
    <3>3. CASE answered[r] = <<"value">>
      BY <3>3
    <3>4. CASE answered[r] = <<"exception">>
      BY <3>4
    <3> QED BY <3>1, <3>2, <3>3, <3>4
  <2> QED BY <2>2 DEF GpuInv, AnswerInv, RunsTrue
<1> QED BY <1>1, GpuInvHolds, PTL

-----------------------------------------------------------------------------
\* Who asked is answered, queued or waits for an event; and the record of an
\* event is in the stream until the event has happened.
Heard(r) == answered[r] # <<>> \/ r \in Range(gpu_q) \/ \E i \in 1..Len(pending_) : pending_[i][2] = r
RecordIn(e) == \E k \in 1..Len(stream_) : Records(k, e)
WaitInv == (\A r \in asked : Heard(r)) /\ \A e \in 1..Len(recorded) : recorded[e] => RecordIn(e)

LEMMA ScheduleHeard ==
  ASSUME GpuInv, WaitInv, NEW r \in Runs, Schedule(r)
  PROVE  WaitInv'
<1>1. /\ asked' = asked \cup {r} /\ gpu_q' = Append(gpu_q, r)
      /\ UNCHANGED <<stream_, recorded, pending_, answered>> /\ gpu_q \in Seq(Runs)
  BY DEF Schedule, GpuInv, GpuTypeOK
<1>2. Range(gpu_q') = Range(gpu_q) \cup {r}
  BY <1>1, AppendIs
<1>3. \A x \in asked' : Heard(x)'
  <2> SUFFICES ASSUME NEW x \in asked', x # r PROVE Heard(x)'
    BY <1>2 DEF Heard
  <2> QED BY <1>1, <1>2 DEF WaitInv, Heard
<1>4. \A e : RecordIn(e)' <=> RecordIn(e)
  BY <1>1 DEF RecordIn, Records
<1> QED BY <1>1, <1>3, <1>4 DEF WaitInv

LEMMA DrainHeard == ASSUME GpuInv, WaitInv, Drain PROVE WaitInv'
<1>1. PICK r, blocks, ops : /\ r = Head(gpu_q) /\ blocks = Blocks(Works[r]) /\ ops = Operations(r, blocks)
  OBVIOUS
<1>2. /\ gpu_q # <<>> /\ gpu_q' = Tail(gpu_q) /\ asked' = asked
      /\ WorkThrows(r, ops, blocks) \/ WorkDone(r, ops)
      /\ memory' = [b \in DOMAIN memory \cup ToSet(blocks) |-> IF b \in DOMAIN memory THEN memory[b] ELSE <<>>]
      /\ free_blocks' = Freed(blocks)
  BY <1>1 DEF Drain
<1>3. /\ gpu_q \in Seq(Runs) /\ pending_ \in Seq((1..Len(recorded)) \X Runs) /\ stream_ \in Seq(Commands)
      /\ recorded \in Seq(BOOLEAN) /\ answered \in [Runs -> {<<>>, <<"value">>, <<"exception">>}]
      /\ Len(stream_) \in Nat
  BY DEF GpuInv, GpuTypeOK
<1>4. /\ r \in Runs /\ answered[r] = <<>> /\ Range(gpu_q) \subseteq Range(gpu_q') \cup {r}
  <2>1. r \in Runs /\ answered[r] = <<>>
    BY <1>1, <1>2, TakenRun DEF GpuInv
  <2>2. Range(gpu_q) \subseteq Range(Tail(gpu_q)) \cup {Head(gpu_q)}
    BY <1>2, <1>3, HeadOrTail
  <2> QED BY <1>1, <1>2, <2>1, <2>2
<1>5. ASSUME NEW e, RecordIn(e), \A k \in 1..Len(stream_) : k \in 1..Len(stream_') /\ stream_'[k] = stream_[k]
      PROVE  RecordIn(e)'
  <2>1. PICK k \in 1..Len(stream_) : Records(k, e)
    BY <1>5 DEF RecordIn
  <2>2. Records(k, e)'
    BY <1>5, <2>1 DEF Records
  <2> QED BY <1>5, <2>2 DEF RecordIn
<1>8. ops \in Seq(Commands) /\ Len(ops) \in Nat
  <2>1. Works[r] \in Nat
    BY <1>4, WorksAssumption DEF Runs
  <2>2. PICK room : room = Len(memory) + Works[r] - Pooled(Works[r])
    OBVIOUS
  <2>3. room \in Nat /\ blocks \in Seq(1..room)
    BY <1>1, <2>1, <2>2, BlocksAre DEF GpuInv
  <2>4. blocks \in Seq(Nat)
    BY <2>3
  <2> QED BY <1>1, <1>4, <2>4, OperationsAre
<1>6. CASE WorkThrows(r, ops, blocks)
  <2>1. /\ answered' = [answered EXCEPT ![r] = Append(<<>>, "exception")]
        /\ UNCHANGED <<recorded, pending_>>
    BY <1>4, <1>6 DEF WorkThrows
  <2>2. answered'[r] # <<>> /\ \A x \in Runs : x # r => answered'[x] = answered[x]
    BY <1>3, <1>4, <2>1
  <2>3. \A x \in asked : Heard(x)'
    <3> SUFFICES ASSUME NEW x \in asked, x # r PROVE Heard(x)'
      BY <2>2 DEF Heard
    <3>1. x \in Runs
      BY DEF GpuInv, GpuTypeOK
    <3> QED BY <1>4, <2>1, <2>2, <3>1 DEF WaitInv, Heard
  <2>4. PICK m \in 0..Len(ops) : stream_' = stream_ \o SubSeq(ops, 1, m)
    BY <1>6 DEF WorkThrows
  <2>6. \A k \in 1..Len(stream_) : k \in 1..Len(stream_') /\ stream_'[k] = stream_[k]
    <3>1. PICK ext : ext = SubSeq(ops, 1, m)
      OBVIOUS
    <3>2. ext \in Seq(Commands) /\ Len(ext) \in Nat
      BY <1>8, <2>4, <3>1
    <3> QED BY <1>3, <2>4, <3>1, <3>2, ConcatIs
  <2> QED BY <1>2, <1>5, <2>1, <2>3, <2>6 DEF WaitInv
<1>7. CASE WorkDone(r, ops)
  <2>1. PICK e : e = Event
    OBVIOUS
  <2>2. /\ stream_' = stream_ \o RecordedBehind(ops, e)
        /\ recorded' = [x \in DOMAIN recorded \cup {e} |-> x = e \/ recorded[x]]
        /\ pending_' = Append(pending_, <<e, r>>) /\ answered' = answered
    BY <1>7, <2>1 DEF WorkDone
  <2>3. /\ e \in DOMAIN recorded' /\ Len(recorded') \in Nat /\ Len(recorded) \in Nat
        /\ \A x \in 1..Len(recorded') : x = e \/ (x \in 1..Len(recorded) /\ (recorded'[x] => recorded[x]))
    <3>1. DOMAIN recorded = 1..Len(recorded) /\ DOMAIN recorded' = 1..Len(recorded') /\ recorded' \in Seq(BOOLEAN)
      BY <1>3, DrainKeeps DEF GpuInv, GpuTypeOK
    <3>2. PICK D : D = 1..Len(recorded) /\ DOMAIN recorded' = D \cup {e} /\ recorded' = [x \in D \cup {e} |-> x = e \/ recorded[x]]
      BY <2>2, <3>1
    <3>3. \A x \in D \cup {e} : x = e \/ (x \in D /\ (recorded'[x] => recorded[x]))
      BY <3>2
    <3>4. Len(recorded') \in Nat /\ Len(recorded) \in Nat /\ D \cup {e} = 1..Len(recorded')
      <4>1. \A z \in Seq(BOOLEAN) : Len(z) \in Nat
        OBVIOUS
      <4>2. D \cup {e} = 1..Len(recorded')
        BY <3>1, <3>2, Zenon
      <4> QED BY <1>3, <3>1, <4>1, <4>2, Zenon
    <3>5. e \in DOMAIN recorded'
      BY <3>2
    <3>6. \A x \in 1..Len(recorded') : x \in D \cup {e}
      BY <3>4
    <3>7. ASSUME NEW x \in 1..Len(recorded')
          PROVE  x = e \/ (x \in D /\ (recorded'[x] => recorded[x]))
      BY <3>3, <3>6, Zenon
    <3>8. \A x \in 1..Len(recorded') : x = e \/ (x \in 1..Len(recorded) /\ (recorded'[x] => recorded[x]))
      BY <3>2, <3>7, Zenon
    <3> QED BY <3>4, <3>5, <3>8, Zenon
  <2>4. PICK t : t = <<[op |-> "event", event |-> e]>>
    OBVIOUS
  <2>5. t \in Seq(Commands) /\ Len(t) = 1 /\ t[1].op = "event" /\ t[1].event = e
    <3>1. e \in Nat
      BY <2>1, EventIs DEF GpuInv
    <3> QED BY <2>4, <3>1 DEF Commands
  <2>6. PICK ext : ext = ops \o t
    OBVIOUS
  <2>7. ext \in Seq(Commands) /\ Len(ext) = Len(ops) + 1 /\ ext[Len(ops) + 1] = t[1]
    BY <1>8, <2>5, <2>6, ConcatIs
  <2>8. /\ stream_' \in Seq(Commands) /\ Len(stream_') = Len(stream_) + Len(ext)
        /\ \A k \in 1..Len(stream_) : stream_'[k] = stream_[k]
        /\ \A k \in 1..Len(ext) : stream_'[Len(stream_) + k] = ext[k]
    <3>1. stream_' = stream_ \o ext
      BY <2>2, <2>4, <2>6 DEF RecordedBehind
    <3>2. PICK a : a = stream_ /\ a \in Seq(Commands)
      BY <1>3
    <3>3. /\ a \o ext \in Seq(Commands) /\ Len(a \o ext) = Len(a) + Len(ext)
          /\ \A k \in 1..Len(a) : (a \o ext)[k] = a[k]
          /\ \A k \in 1..Len(ext) : (a \o ext)[Len(a) + k] = ext[k]
      <4>1. ext \in Seq(Commands)
        BY <2>7
      <4> QED BY <3>2, <4>1, ConcatIs
    <3>4. PICK z : z = a \o ext
      OBVIOUS
    <3>5. z = stream_'
      BY <3>1, <3>2, <3>4
    <3>6. /\ z \in Seq(Commands) /\ Len(z) = Len(a) + Len(ext)
          /\ \A k \in 1..Len(a) : z[k] = a[k]
          /\ \A k \in 1..Len(ext) : z[Len(a) + k] = ext[k]
      BY <3>3, <3>4
    <3> QED BY <3>2, <3>5, <3>6
  <2>9. \A k \in 1..Len(stream_) : k \in 1..Len(stream_') /\ stream_'[k] = stream_[k]
    BY <1>3, <1>8, <2>7, <2>8
  <2>10. RecordIn(e)'
    <3>1. PICK k : k = Len(stream_) + (Len(ops) + 1)
      OBVIOUS
    <3>2. k \in 1..Len(stream_') /\ Len(ops) + 1 \in 1..Len(ext)
      BY <1>3, <1>8, <2>7, <2>8, <3>1
    <3>3. stream_'[k] = t[1]
      BY <2>7, <2>8, <3>1, <3>2
    <3> QED BY <2>5, <3>2, <3>3 DEF RecordIn, Records
  <2>11. \A x \in 1..Len(recorded') : recorded'[x] => RecordIn(x)'
    BY <1>5, <2>3, <2>9, <2>10 DEF WaitInv
  <2>12. PICK P \in Nat : /\ P = Len(pending_) /\ Len(pending_') = P + 1 /\ pending_'[P + 1] = <<e, r>>
                          /\ \A i \in 1..P : pending_'[i] = pending_[i]
    <3>1. PICK S, T : S = Nat \X Runs /\ T = (1..Len(recorded)) \X Runs
      OBVIOUS
    <3>2. pending_ \in Seq(S) /\ <<e, r>> \in S
      <4>1. e \in Nat
        BY <2>1, EventIs DEF GpuInv
      <4>2. T \subseteq S /\ <<e, r>> \in S
        BY <1>3, <1>4, <3>1, <4>1
      <4>3. pending_ \in Seq(T)
        BY <1>3, <3>1
      <4> QED BY <4>2, <4>3, WiderSeq
    <3> QED BY <2>2, <3>2, AppendAt
  <2>13. ASSUME NEW x \in asked PROVE Heard(x)'
    <3>1. CASE x = r
      <4>1. P + 1 \in 1..Len(pending_') /\ pending_'[P + 1][2] = r
        BY <2>12
      <4> QED BY <3>1, <4>1 DEF Heard
    <3>2. CASE x # r
      <4>1. \A i \in 1..P : i \in 1..Len(pending_') /\ pending_'[i] = pending_[i]
        BY <2>12
      <4> QED BY <1>4, <2>2, <2>12, <3>2, <4>1 DEF WaitInv, Heard
    <3> QED BY <3>1, <3>2
  <2> QED BY <1>2, <2>11, <2>13 DEF WaitInv
<1> QED BY <1>2, <1>6, <1>7

LEMMA ExecuteHeard == ASSUME GpuInv, WaitInv, ExecuteNext PROVE WaitInv'
<1>1. /\ stream_ # <<>> /\ stream_' = Tail(stream_) /\ stream_ \in Seq(Commands) /\ recorded \in Seq(BOOLEAN)
      /\ recorded' = IF Head(stream_).op = "event" THEN [recorded EXCEPT ![Head(stream_).event] = FALSE] ELSE recorded
      /\ UNCHANGED <<gpu_q, pending_, answered, asked>>
  BY DEF ExecuteNext, GpuInv, GpuTypeOK
<1>2. \A x : Heard(x)' <=> Heard(x)
  BY <1>1 DEF Heard
<1>3. PICK L \in Nat \ {0} : /\ L = Len(stream_) /\ Len(stream_') = L - 1 /\ Head(stream_) = stream_[1]
                            /\ \A j \in 1..L - 1 : stream_'[j] = stream_[j + 1]
  BY <1>1, TailAt
<1>4. PICK N \in Nat : N = Len(recorded) /\ Len(recorded') = N /\ DOMAIN recorded = 1..N
  BY <1>1
<1>5. ASSUME NEW e \in 1..N, recorded'[e] PROVE RecordIn(e)'
  <2>1. recorded[e] /\ ~Records(1, e)
    BY <1>1, <1>3, <1>4, <1>5 DEF Records
  <2>2. PICK k \in 1..L : Records(k, e)
    BY <1>3, <1>4, <2>1 DEF WaitInv, RecordIn
  <2>3. k - 1 \in 1..L - 1 /\ k - 1 + 1 = k
    BY <2>1, <2>2
  <2>4. Records(k - 1, e)'
    BY <1>3, <2>2, <2>3 DEF Records
  <2> QED BY <1>3, <2>3, <2>4 DEF RecordIn
<1> QED BY <1>1, <1>2, <1>4, <1>5 DEF WaitInv

LEMMA PollHeard ==
  ASSUME GpuInv, WaitInv, NEW i \in DOMAIN pending_, PollEvent(i)
  PROVE  WaitInv'
<1>1. PICK r, P : r = pending_[i][2] /\ P = Len(pending_)
  OBVIOUS
<1>2. /\ pending_ \in Seq((1..Len(recorded)) \X Runs) /\ P \in Nat /\ i \in 1..P /\ r \in Runs
      /\ answered \in [Runs -> {<<>>, <<"value">>, <<"exception">>}]
      /\ \A x \in asked : x \in Runs
  BY <1>1 DEF GpuInv, GpuTypeOK
<1>3. /\ answered' = [answered EXCEPT ![r] = Append(@, "value")]
      /\ pending_' = RemoveAt(pending_, i)
      /\ UNCHANGED <<gpu_q, stream_, recorded, asked>>
  BY <1>1 DEF PollEvent, PendingErased
<1>4. answered'[r] # <<>> /\ \A x \in Runs : x # r => answered'[x] = answered[x]
  <2>1. answered[r] = <<>>
    BY <1>1, <1>2 DEF GpuInv, AnswerInv
  <2> QED BY <1>2, <1>3, <2>1
<1>5. /\ Len(pending_') = P - 1
      /\ \A j \in 1..P - 1 : pending_'[j] = pending_[IF j < i THEN j ELSE j + 1]
  <2>1. PICK S : S = (1..Len(recorded)) \X Runs
    OBVIOUS
  <2>2. pending_ \in Seq(S) /\ i \in 1..Len(pending_)
    BY <1>1, <1>2, <2>1
  <2> QED BY <1>1, <1>3, <2>2, RemoveAtIs
<1>6. ASSUME NEW h \in 1..P, h # i PROVE \E j \in 1..Len(pending_') : pending_'[j] = pending_[h]
  <2>1. PICK j : j = IF h < i THEN h ELSE h - 1
    OBVIOUS
  <2>2. j \in 1..P - 1 /\ h = IF j < i THEN j ELSE j + 1
    BY <1>2, <1>6, <2>1
  <2> QED BY <1>5, <2>2
<1>7. ASSUME NEW x \in asked PROVE Heard(x)'
  <2>1. CASE x = r
    BY <1>4, <2>1 DEF Heard
  <2>2. CASE x # r
    <3>1. \A h \in 1..P : pending_[h][2] = x => h # i
      BY <1>1, <2>2
    <3> QED BY <1>1, <1>2, <1>3, <1>4, <1>6, <2>2, <3>1 DEF WaitInv, Heard
  <2> QED BY <2>1, <2>2
<1>8. \A e : RecordIn(e)' <=> RecordIn(e)
  BY <1>3 DEF RecordIn, Records
<1> QED BY <1>3, <1>7, <1>8 DEF WaitInv

LEMMA WaitStep == ASSUME GpuInv, WaitInv, [GpuNext]_gvars PROVE WaitInv'
<1>1. CASE UNCHANGED gvars
  <2>1. UNCHANGED <<stream_, recorded, pending_, answered, asked, gpu_q>>
    BY <1>1 DEF gvars
  <2>2. (\A x : Heard(x)' <=> Heard(x)) /\ \A e : RecordIn(e)' <=> RecordIn(e)
    BY <2>1 DEF Heard, RecordIn, Records
  <2> QED BY <2>1, <2>2 DEF WaitInv
<1> QED BY <1>1, ScheduleHeard, DrainHeard, ExecuteHeard, PollHeard DEF GpuNext, GpuAdvance

(* A run that the queue took is answered, queued, or waits for an event    *)
(* whose record is still in the stream: with the queue and the stream      *)
(* empty, no event is left to wait for, and so nobody.                     *)
THEOREM NoRunIsLeft == GpuSpec => []NoneWaits
<1>1. GpuInit => WaitInv
  <2>1. Len(<<>>) = 0 /\ 1..0 = {}
    OBVIOUS
  <2> QED BY <2>1 DEF GpuInit, WaitInv
<1>2. GpuInv /\ WaitInv => NoneWaits
  <2> SUFFICES ASSUME GpuInv, WaitInv, GpuQuiet, NEW r \in asked PROVE answered[r] # <<>>
    BY DEF NoneWaits
  <2>1. 1..Len(stream_) = {} /\ Range(gpu_q) = {}
    BY DEF GpuQuiet, Range
  <2>2. \A i \in 1..Len(pending_) : pending_[i][1] \in 1..Len(recorded) /\ i \in DOMAIN pending_
    BY DEF GpuInv, GpuTypeOK
  <2>3. 1..Len(pending_) = {}
    BY <2>1, <2>2 DEF GpuQuiet, WaitInv, RecordIn
  <2> QED BY <2>1, <2>3 DEF WaitInv, Heard
<1> QED BY <1>1, <1>2, GpuInvHolds, WaitStep, PTL DEF GpuSpec

-----------------------------------------------------------------------------
(* The pipelines.                                                          *)

TryBlock == [at : Nat, scope : Nat, context : Seq(Nat), catches : SUBSET {"std", "other"}]

PipeType ==
  /\ line \in Lines
  /\ at \in 1 .. Len(line) + 1
  /\ signal \in {"value", "exception", "skip", "none"}
  /\ inside \in BOOLEAN /\ handed \in BOOLEAN
  /\ tries \in Seq(TryBlock)
  /\ context \in Seq(Nat)
  /\ received \in Seq({"value", "exception", "skip"})

\* The scopes: the root's until the receiver is called, and an inner one
\* while the signal is inside.
ScopesHeld ==
  /\ inside => at <= Len(line) /\ line[at] \in Scoped
  /\ handed => inside
  /\ IF signal = "none"
     THEN /\ scopes = {} /\ received # <<>> /\ Len(received) = 1
          /\ at = Len(line) + 1 /\ ~inside
     ELSE /\ scopes = IF inside THEN {0, at} ELSE {0}
          /\ received = <<>>

\* The contexts that live are those the signal carries, in the order they
\* were pushed, and the pop_context of each is still to come.
AwaitsPop(l, i, p) == \E r \in Pops(l) : Matching(l)[r] = i /\ r >= p
ContextsCarried ==
  /\ contexts = {context[i] : i \in 1 .. Len(context)}
  /\ \A i \in 1 .. Len(context) :
        context[i] \in Pushes(line) /\ context[i] < at /\ AwaitsPop(line, context[i], at)
  /\ \A i, j \in 1 .. Len(context) : i < j => context[i] < context[j]

\* Up to a function that may throw uncaught, a value or a skip is within the
\* try block of a then that took the contexts there are.
Surrounded(q) ==
  /\ tries # <<>>
  /\ LET t == tries[Len(tries)] IN
       /\ t.at \in q .. at - 1
       /\ t.scope = 0 /\ t.context = context /\ "other" \in t.catches
Guarded ==
  \A p \in DOMAIN line, q \in 1 .. Len(line) :
     (<<line, line[p]>> \in Uncaught /\ Guards(line, q, p) /\ at <= p /\ ~inside) =>
        /\ at <= q => signal # "skip"
        /\ at > q /\ signal \in {"value", "skip"} => Surrounded(q)

PipeInv == PipeType /\ ~misused /\ ScopesHeld /\ ContextsCarried /\ Guarded

LEMMA LineIs ==
  ASSUME NEW l \in Lines
  PROVE  /\ Len(l) \in Nat /\ DOMAIN l = 1 .. Len(l)
         /\ \A i \in 1 .. Len(l) : l[i] \in LinearOps
         /\ Pops(l) \subseteq 1 .. Len(l) /\ Pushes(l) \subseteq 1 .. Len(l)
  <1>1. l \in Seq(LinearOps)  BY LinesNest
  <1>2. QED  BY <1>1 DEF Pops, Pushes

LEMMA MatchingNests ==
  ASSUME NEW l \in Lines
  PROVE  Matching(l) \in [Pops(l) -> Pushes(l)] /\ Nests(l, Matching(l))
  <1>1. \E m \in [Pops(l) -> Pushes(l)] : Nests(l, m)  BY LinesNest
  <1>2. QED  BY <1>1 DEF Matching

\* Where a step leaves the contexts alone.
LEMMA StepPast ==
  ASSUME PipeInv, at \in 1 .. Len(line), line[at] # "pop_context",
         line' = line, at' = at + 1, context' = context, contexts' = contexts
  PROVE  ContextsCarried'
  <1> USE DEF PipeInv, PipeType
  <1>1. ASSUME NEW i \in 1 .. Len(context)
        PROVE  context[i] < at + 1 /\ AwaitsPop(line, context[i], at + 1)
    <2>1. context[i] < at /\ AwaitsPop(line, context[i], at)
      BY DEF ContextsCarried
    <2>2. PICK r \in Pops(line) : Matching(line)[r] = context[i] /\ r >= at
      BY <2>1 DEF AwaitsPop
    <2>3. r # at /\ r \in 1 .. Len(line)
      BY LineIs DEF Pops
    <2>4. r >= at + 1  BY <2>2, <2>3, LineIs
    <2>5. context[i] \in Nat  OBVIOUS
    <2>6. AwaitsPop(line, context[i], at + 1)
      BY <2>2, <2>4 DEF AwaitsPop
    <2>7. at \in Nat  BY LineIs
    <2>8. QED  BY <2>1, <2>5, <2>6, <2>7
  <1>2. QED  BY <1>1 DEF ContextsCarried

\* A step that the ops on a guarded way take: the signal before and after.
LEMMA GuardedWalk ==
  ASSUME PipeInv, at \in 1 .. Len(line), ~inside, line' = line, at' = at + 1,
         NEW p \in DOMAIN line, NEW q \in 1 .. Len(line),
         <<line, line[p]>> \in Uncaught, Guards(line, q, p), at' <= p
  PROVE  /\ at < q => line[at] \in Simple \cup {"push_context", "pop_context"}
                        /\ signal # "skip"
         /\ at = q => line[at] = "then" /\ signal # "skip"
         /\ at > q => line[at] \in Simple \cup {"maybe"}
                        /\ (signal \in {"value", "skip"} => Surrounded(q))
  <1>1. p \in 1 .. Len(line) /\ Len(line) \in Nat /\ at <= p
    BY LineIs DEF PipeInv, PipeType
  <1>2. /\ at <= q => signal # "skip"
        /\ at > q /\ signal \in {"value", "skip"} => Surrounded(q)
    BY <1>1 DEF PipeInv, Guarded
  <1>3. QED  BY <1>1, <1>2 DEF Guards

\* What a guarded function that throws finds: the try block of a then behind
\* its guard, in the root scope, with the contexts there are.
LEMMA EscapeIs ==
  ASSUME PipeInv, Escapes
  PROVE  \E q \in 1 .. Len(line) :
            /\ Guards(line, q, at) /\ at \in 1 .. Len(line)
            /\ line[at] = "when_skipped" /\ signal = "skip" /\ ~inside
            /\ Surrounded(q)
            /\ Catching("other") # {}
            /\ Innermost(Catching("other")) = Len(tries)
  <1>1. at \in 1 .. Len(line) /\ DOMAIN line = 1 .. Len(line) /\ Len(line) \in Nat
    BY LineIs DEF Escapes, Arrives, PipeInv, PipeType
  <1>2. line[at] \in LinearOps /\ <<line, line[at]>> \in Uncaught /\ ~inside
    BY <1>1, LineIs DEF Escapes, Arrives, Op, PipeInv, PipeType
  <1>3. line[at] = "when_skipped"
    BY <1>1, <1>2, UncaughtIsGuarded DEF PipeInv, PipeType
  <1>4. signal = "skip"
    BY <1>3 DEF Escapes, Arrives, Op
  <1>5. PICK q \in 1 .. at - 1 : Guards(line, q, at)
    BY <1>1, <1>2, <1>3, UncaughtIsGuarded DEF PipeInv, PipeType
  <1>6. Surrounded(q)
    BY <1>1, <1>2, <1>4, <1>5 DEF PipeInv, Guarded
  <1>7. Len(tries) \in Catching("other")
    BY <1>6 DEF Surrounded, Catching, PipeInv, PipeType
  <1>8. Catching("other") \subseteq 1 .. Len(tries) /\ Len(tries) \in Nat
    BY DEF Catching, PipeInv, PipeType
  <1>9. \A i \in Catching("other") :
           (\A j \in Catching("other") : j <= i) => i = Len(tries)
    BY <1>7, <1>8
  <1>10. \A j \in Catching("other") : j <= Len(tries)
    BY <1>8
  <1>11. Innermost(Catching("other")) = Len(tries)
    BY <1>7, <1>9, <1>10 DEF Innermost
  <1>12. QED
    BY <1>1, <1>2, <1>3, <1>4, <1>5, <1>6, <1>7, <1>11

\* Every step: the signal has not been given to the receiver yet.
LEMMA StillUnderWay ==
  ASSUME PipeInv, PipelineNext
  PROVE  signal # "none" /\ received = <<>> /\ line' = line
         /\ scopes = IF inside THEN {0, at} ELSE {0}
  <1>1. signal # "none"
    BY DEF PipeInv, ScopesHeld, PipelineNext, PassOn, Then, Visit, Maybe, PushContext, GetContext,
           PopContext, Enter, InnerAnswers, HandOver, Resume, Escapes, Rethrow, Receive, Arrives
  <1>2. line' = line
    BY DEF PipelineNext, PassOn, Then, Visit, Maybe, PushContext, GetContext,
           PopContext, Enter, InnerAnswers, HandOver, Resume, Escapes, Rethrow, Receive
  <1>3. QED  BY <1>1, <1>2 DEF PipeInv, ScopesHeld

LEMMA PopPusherIs ==
  ASSUME NEW kind, PopPusher(kind)
  PROVE  scopes' = scopes \ {at} /\ inside' = FALSE /\ at' = at + 1 /\ signal' = kind
  BY DEF PopPusher, Forward

LEMMA TypeStep ==
  ASSUME PipeInv, PipelineNext
  PROVE  PipeType'
  <1> USE DEF PipeInv, PipeType
  <1>0. /\ Len(line) \in Nat /\ at \in Nat /\ line' = line /\ signal # "none"
        /\ inside => at <= Len(line)
    BY LineIs, StillUnderWay DEF ScopesHeld
  <1>1. CASE PassOn \/ Visit \/ Maybe \/ GetContext \/ Rethrow
    BY <1>0, <1>1 DEF PassOn, Visit, Maybe, GetContext, Rethrow, Arrives, Forward
  <1>2. CASE Then
    <2>1. Try(0, {"std", "other"}) \in TryBlock
      BY <1>0 DEF Try, TryBlock
    <2>2. Append(tries, Try(0, {"std", "other"})) \in Seq(TryBlock)
      BY <2>1
    <2>3. tries' \in {tries, Append(tries, Try(0, {"std", "other"}))}
      BY <1>2 DEF Then
    <2>4. at <= Len(line) /\ at' = at + 1 /\ signal' \in {"value", "exception"}
      BY <1>2 DEF Then, Arrives, Forward
    <2>5. UNCHANGED <<inside, handed, context, received>>
      BY <1>2 DEF Then
    <2>6. tries' \in Seq(TryBlock)  BY <2>2, <2>3
    <2>7. QED  BY <1>0, <2>4, <2>5, <2>6
  <1>3. CASE PushContext
    <2>1. context' \in Seq(Nat)  BY <1>0, <1>3 DEF PushContext
    <2>2. QED  BY <1>0, <1>3, <2>1 DEF PushContext, Arrives, Forward
  <1>4. CASE PopContext
    <2>1. Front(context) \in Seq(Nat) \/ context = <<>>
      <3>1. context \in Seq(Nat)
        OBVIOUS
      <3> HIDE DEF PipeInv, PipeType
      <3> QED BY <3>1 DEF Front
    <2>2. context' \in Seq(Nat)
      <3>1. CASE context = <<>>
        BY <1>4, <3>1 DEF PopContext, Range
      <3>2. QED  BY <1>4, <2>1, <3>1 DEF PopContext
    <2>3. at' \in 1 .. Len(line') + 1 /\ signal' \in {"value", "exception", "skip", "none"}
      BY <1>0, <1>4 DEF PopContext, Arrives, Forward
    <2>4. QED  BY <1>0, <1>4, <2>2, <2>3 DEF PopContext
  <1>5. CASE Enter
    <2>1. Try(0, {"std"}) \in TryBlock  BY <1>0 DEF Try, TryBlock
    <2>2. tries' \in Seq(TryBlock)  BY <1>5, <2>1 DEF Enter
    <2>3. QED  BY <1>0, <1>5, <2>2 DEF Enter
  <1>6. CASE InnerAnswers
    <2>1. Try(at, {"std", "other"}) \in TryBlock  BY <1>0 DEF Try, TryBlock
    <2>2. Append(tries, Try(at, {"std", "other"})) \in Seq(TryBlock)
      BY <2>1
    <2>3. tries' \in {tries, Append(tries, Try(at, {"std", "other"}))}
      BY <1>6 DEF InnerAnswers
    <2>4. /\ inside /\ inside' = FALSE /\ at' = at + 1
          /\ signal' \in {"value", "exception", "skip"}
      BY <1>6, PopPusherIs DEF InnerAnswers
    <2>5. UNCHANGED <<handed, context, received>>
      BY <1>6 DEF InnerAnswers
    <2>6. tries' \in Seq(TryBlock)  BY <2>2, <2>3
    <2>7. inside' \in BOOLEAN /\ handed' \in BOOLEAN
      BY <2>4, <2>5
    <2>8. at' \in 1 .. Len(line') + 1  BY <1>0, <2>4
    <2>9. QED  BY <1>0, <2>4, <2>5, <2>6, <2>7, <2>8
  <1>7. CASE HandOver
    BY <1>0, <1>7 DEF HandOver
  <1>8. CASE Resume
    <2>1. /\ handed /\ handed' = FALSE /\ inside' = FALSE /\ at' = at + 1
          /\ signal' \in {"value", "exception"}
      BY <1>8, PopPusherIs DEF Resume
    <2>2. UNCHANGED <<tries, context, received>>
      BY <1>8 DEF Resume
    <2>3. inside /\ tries' \in Seq(TryBlock)
      BY <2>1, <2>2 DEF ScopesHeld
    <2>4. inside' \in BOOLEAN /\ handed' \in BOOLEAN
      BY <2>1
    <2>5. at' \in 1 .. Len(line') + 1  BY <1>0, <2>1, <2>3
    <2>6. QED  BY <1>0, <2>1, <2>2, <2>3, <2>4, <2>5
  <1>9. CASE Escapes
    <2>1. PICK q \in 1 .. Len(line) :
            /\ Surrounded(q) /\ at \in 1 .. Len(line)
            /\ Catching("other") # {} /\ Innermost(Catching("other")) = Len(tries)
      BY <1>9, EscapeIs
    <2>2. /\ at' = tries[Len(tries)].at + 1 /\ signal' = "exception"
          /\ context' = tries[Len(tries)].context
          /\ tries' = SubSeq(tries, 1, Len(tries) - 1)
      BY <1>9, <2>1 DEF Escapes
    <2>3. Len(tries) \in 1 .. Len(tries)
      BY <2>1 DEF Surrounded
    <2>4. tries[Len(tries)] \in TryBlock  BY <2>3
    <2>5. SubSeq(tries, 1, Len(tries) - 1) \in Seq(TryBlock)
      BY <2>3
    <2>6. at' \in 1 .. Len(line) + 1
      <3> DEFINE z == tries[Len(tries)].at
      <3>1. z \in q .. at - 1
        BY <2>1 DEF Surrounded
      <3>2. at' = z + 1
        BY <2>2
      <3> HIDE DEF z
      <3> QED BY <1>0, <2>1, <3>1, <3>2
    <2>7. context' \in Seq(Nat)  BY <2>2, <2>4 DEF TryBlock
    <2>8. QED  BY <1>0, <1>9, <2>2, <2>5, <2>6, <2>7 DEF Escapes
  <1>10. CASE Receive
    <2>1. received' \in Seq({"value", "exception", "skip"})
      BY <1>0, <1>10 DEF Receive
    <2>2. tries' \in Seq(TryBlock)  BY <1>10 DEF Receive
    <2>3. QED  BY <1>0, <1>10, <2>1, <2>2 DEF Receive
  <1>11. QED
    BY <1>1, <1>2, <1>3, <1>4, <1>5, <1>6, <1>7, <1>8, <1>9, <1>10 DEF PipelineNext

LEMMA ScopesStep ==
  ASSUME PipeInv, PipelineNext
  PROVE  ScopesHeld'
  <1> USE DEF PipeInv, PipeType
  <1>0. /\ Len(line) \in Nat /\ at \in 1 .. Len(line) + 1 /\ line' = line /\ signal # "none"
        /\ received = <<>> /\ scopes = IF inside THEN {0, at} ELSE {0}
        /\ inside => at <= Len(line)
        /\ handed => inside
    BY LineIs, StillUnderWay DEF ScopesHeld
  <1>1. CASE PassOn \/ Visit \/ Maybe \/ GetContext \/ Rethrow \/ Then
    BY <1>0, <1>1 DEF PassOn, Visit, Maybe, GetContext, Rethrow, Then, Arrives, Forward, ScopesHeld
  <1>2. CASE PushContext \/ PopContext
    BY <1>0, <1>2 DEF PushContext, PopContext, Arrives, Forward, ScopesHeld
  <1>3. CASE Enter
    BY <1>0, <1>3 DEF Enter, Arrives, ScopesHeld, Op, Scoped
  <1>4. CASE InnerAnswers
    BY <1>0, <1>4 DEF InnerAnswers, PopPusher, Forward, ScopesHeld
  <1>5. CASE HandOver
    BY <1>0, <1>5 DEF HandOver, ScopesHeld
  <1>6. CASE Resume
    BY <1>0, <1>6 DEF Resume, PopPusher, Forward, ScopesHeld
  <1>7. CASE Escapes
    BY <1>0, <1>7, EscapeIs DEF Escapes, ScopesHeld
  <1>8. CASE Receive
    <2>1. ~inside  BY <1>0, <1>8 DEF Receive
    <2>2. Len(received') = 1 /\ received' # <<>>
      BY <1>0, <1>8 DEF Receive
    <2>3. QED  BY <1>0, <1>8, <2>1, <2>2 DEF Receive, ScopesHeld
  <1>9. QED
    BY <1>1, <1>2, <1>3, <1>4, <1>5, <1>6, <1>7, <1>8 DEF PipelineNext

LEMMA NotMisused ==
  ASSUME PipeInv, PipelineNext
  PROVE  ~misused'
  <1> USE DEF PipeInv, PipeType
  <1>0. /\ Len(line) \in Nat /\ at \in 1 .. Len(line) + 1
        /\ scopes = IF inside THEN {0, at} ELSE {0}
    BY LineIs, StillUnderWay
  <1>1. contexts = {context[i] : i \in 1 .. Len(context)} /\ DOMAIN context = 1 .. Len(context)
    BY DEF ContextsCarried
  <1>2. Living(context)
    BY <1>1 DEF Living
  <1>3. CASE GetContext
    BY <1>2, <1>3 DEF GetContext
  <1>4. CASE PopContext
    <2>1. CASE Matching(line)[at] \in Range(context)
      <3>1. Len(context) \in 1 .. Len(context)
        BY <1>1, <2>1 DEF Range
      <3>2. Last(context) \in contexts
        BY <1>1, <3>1 DEF Last
      <3>3. QED  BY <1>4, <2>1, <3>2 DEF PopContext
    <2>2. QED  BY <1>4, <2>1 DEF PopContext
  <1>5. ASSUME NEW kind, PopPusher(kind), inside
        PROVE  ~misused'
    BY <1>0, <1>5 DEF PopPusher
  <1>6. CASE InnerAnswers
    BY <1>5, <1>6 DEF InnerAnswers
  <1>7. CASE Resume
    BY <1>5, <1>7 DEF Resume, ScopesHeld
  <1>8. CASE Escapes
    BY <1>0, <1>2, <1>8, EscapeIs DEF Escapes, Surrounded
  <1>9. CASE Receive
    BY <1>0, <1>9 DEF Receive
  <1>10. QED
    BY <1>3, <1>4, <1>6, <1>7, <1>8, <1>9 DEF PipelineNext, PassOn, Then, Visit, Maybe,
       PushContext, Enter, HandOver, Rethrow

LEMMA ContextsStep ==
  ASSUME PipeInv, PipelineNext
  PROVE  ContextsCarried'
  <1> USE DEF PipeInv, PipeType
  <1>0. /\ Len(line) \in Nat /\ at \in 1 .. Len(line) + 1 /\ line' = line
        /\ inside => at <= Len(line) /\ line[at] \in Scoped
        /\ handed => inside
        /\ DOMAIN line = 1 .. Len(line)
    BY LineIs, StillUnderWay DEF ScopesHeld
  <1>1. CASE PassOn \/ Visit \/ Maybe \/ GetContext \/ Rethrow \/ Then
    <2>1. /\ at <= Len(line) /\ line[at] # "pop_context" /\ at' = at + 1
          /\ context' = context /\ contexts' = contexts
      BY <1>1 DEF PassOn, Visit, Maybe, GetContext, Rethrow, Then, Arrives, Forward, Op
    <2>2. QED  BY <1>0, <2>1, StepPast
  <1>2. CASE InnerAnswers \/ Resume
    <2>1. inside /\ at' = at + 1 /\ context' = context /\ contexts' = contexts
      BY <1>0, <1>2, PopPusherIs DEF InnerAnswers, Resume
    <2>2. QED  BY <1>0, <2>1, StepPast DEF Scoped
  <1>3. CASE PushContext
    <2>1. /\ at \in Pushes(line) /\ at' = at + 1
          /\ contexts' = contexts \cup {at} /\ context' = Append(context, at)
      BY <1>0, <1>3 DEF PushContext, Arrives, Forward, Op, Pushes
    <2>2. PICK r \in Pops(line) : Matching(line)[r] = at
      BY <2>1, MatchingNests DEF Nests
    <2>3. r > at /\ r \in Nat
      BY <2>2, LineIs, MatchingNests DEF Nests
    <2>4. AwaitsPop(line, at, at + 1)
      BY <1>0, <2>2, <2>3 DEF AwaitsPop
    <2>5. ASSUME NEW i \in 1 .. Len(context)
          PROVE  context[i] \in Pushes(line) /\ context[i] < at /\ context[i] \in Nat
                 /\ AwaitsPop(line, context[i], at + 1)
      <3>1. context[i] \in Pushes(line) /\ context[i] < at /\ AwaitsPop(line, context[i], at)
        BY DEF ContextsCarried
      <3>2. PICK z \in Pops(line) : Matching(line)[z] = context[i] /\ z >= at
        BY <3>1 DEF AwaitsPop
      <3>3. z # at /\ z \in Nat
        BY <2>1, LineIs DEF Pops, Pushes
      <3>4. z >= at + 1
        BY <1>0, <3>2, <3>3
      <3>5. AwaitsPop(line, context[i], at + 1)
        BY <3>2, <3>4 DEF AwaitsPop
      <3>6. context[i] \in Nat
        BY <3>1, LineIs DEF Pushes
      <3>7. QED  BY <3>1, <3>5, <3>6
    <2>6. PICK n \in Nat : n = Len(context)
      OBVIOUS
    <2>7. /\ Len(context') = n + 1 /\ context'[n + 1] = at
          /\ \A i \in 1 .. n : context'[i] = context[i]
      BY <1>0, <2>1, <2>6
    <2>8. \A i \in 1 .. n + 1 : i \in 1 .. n \/ i = n + 1
      OBVIOUS
    <2>9. contexts' = {context'[i] : i \in 1 .. n + 1}
      <3>1. contexts = {context[i] : i \in 1 .. n}
        BY <2>6 DEF ContextsCarried
      <3>2. {context'[i] : i \in 1 .. n + 1} = {context[i] : i \in 1 .. n} \cup {at}
        <4>1. \A i \in 1 .. n + 1 : context'[i] \in {context[j] : j \in 1 .. n} \cup {at}
          BY <2>7, <2>8
        <4>2. \A i \in 1 .. n : i \in 1 .. n + 1
          OBVIOUS
        <4>3. \A i \in 1 .. n : context[i] \in {context'[j] : j \in 1 .. n + 1}
          BY <2>7, <4>2
        <4>4. at \in {context'[j] : j \in 1 .. n + 1}
          <5>1. n + 1 \in 1 .. n + 1  OBVIOUS
          <5>2. QED  BY <2>7, <5>1
        <4>5. QED  BY <4>1, <4>3, <4>4
      <3>3. QED  BY <2>1, <3>1, <3>2
    <2>10. \A i \in 1 .. n + 1 :
             context'[i] \in Pushes(line) /\ context'[i] < at + 1
             /\ AwaitsPop(line, context'[i], at + 1)
      BY <1>0, <2>1, <2>4, <2>5, <2>6, <2>7, <2>8
    <2>11. \A i, j \in 1 .. n + 1 : i < j => context'[i] < context'[j]
      <3>1. \A i, j \in 1 .. n : i < j => context'[i] < context'[j]
        BY <2>6, <2>7 DEF ContextsCarried
      <3>2. \A i, j \in 1 .. n + 1 : i < j => i \in 1 .. n /\ (j \in 1 .. n \/ j = n + 1)
        OBVIOUS
      <3>3. QED  BY <2>5, <2>6, <2>7, <3>1, <3>2
    <2>12. QED  BY <1>0, <2>1, <2>7, <2>9, <2>10, <2>11 DEF ContextsCarried
  <1>4. CASE PopContext
    <2>1. at \in Pops(line) /\ at' = at + 1
      BY <1>0, <1>4 DEF PopContext, Arrives, Forward, Op, Pops
    <2>2. PICK m : m = Matching(line)  OBVIOUS
    <2>3. m \in [Pops(line) -> Pushes(line)] /\ Nests(line, m)
      BY <2>2, MatchingNests
    <2>4. PICK n \in Nat : n = Len(context)
      OBVIOUS
    <2>5. \A i \in 1 .. n :
             /\ context[i] \in Nat /\ context[i] \in Pushes(line) /\ context[i] < at
             /\ \E r \in Pops(line) : m[r] = context[i] /\ r >= at
      BY <2>2, <2>4 DEF ContextsCarried, AwaitsPop
    <2>6. \A i, j \in 1 .. n : i < j => context[i] < context[j]
      BY <2>4 DEF ContextsCarried
    <2>7. \A r \in Pops(line) : r \in Nat /\ m[r] \in Nat
      BY <2>3, LineIs
    \* What stays is still awaited.
    <2>8. ASSUME NEW i \in 1 .. n, context[i] # m[at]
          PROVE  AwaitsPop(line, context[i], at + 1)
      <3>1. PICK r \in Pops(line) : m[r] = context[i] /\ r >= at
        BY <2>5
      <3>2. r # at  BY <2>8, <3>1
      <3>3. QED  BY <1>0, <2>2, <2>7, <3>1, <3>2 DEF AwaitsPop
    <2>9. CASE m[at] \in Range(context)
      <3>1. PICK k \in 1 .. n : context[k] = m[at]
        BY <2>4, <2>9 DEF Range
      <3>2. k = n
        <4>1. SUFFICES ASSUME k < n PROVE FALSE
          BY <3>1
        <4>2. n \in 1 .. n /\ context[k] < context[n] /\ context[n] < at
          BY <2>5, <2>6, <4>1
        <4>3. PICK r \in Pops(line) : m[r] = context[n] /\ r >= at
          BY <2>5, <4>2
        <4>4. r < at
          BY <2>1, <2>3, <3>1, <4>2, <4>3 DEF Nests
        <4>5. QED  BY <1>0, <2>7, <4>3, <4>4
      <3>3. context' = SubSeq(context, 1, n - 1) /\ contexts' = contexts \ {context[n]}
        BY <1>4, <2>2, <2>4, <2>9 DEF PopContext, Last, Front
      <3>4. Len(context') = n - 1 /\ \A i \in 1 .. n - 1 : context'[i] = context[i]
        BY <2>4, <3>1, <3>2, <3>3
      <3>5. \A i \in 1 .. n - 1 : i \in 1 .. n /\ context[i] < context[n] /\ context[i] # context[n]
        BY <2>5, <2>6, <3>1, <3>2
      <3>6. contexts' = {context'[i] : i \in 1 .. n - 1}
        <4>1. contexts = {context[i] : i \in 1 .. n}
          BY <2>4 DEF ContextsCarried
        <4>2. \A i \in 1 .. n : i \in 1 .. n - 1 \/ i = n
          OBVIOUS
        <4>3. QED  BY <3>3, <3>4, <3>5, <4>1, <4>2
      <3>7. ASSUME NEW i \in 1 .. n - 1
            PROVE  context'[i] \in Pushes(line) /\ context'[i] < at + 1
                   /\ AwaitsPop(line, context'[i], at + 1)
        <4>1. i \in 1 .. n /\ context[i] # m[at] /\ context'[i] = context[i]
          BY <3>1, <3>2, <3>4, <3>5
        <4>2. AwaitsPop(line, context[i], at + 1)
          BY <2>8, <4>1
        <4>3. context[i] \in Pushes(line) /\ context[i] < at /\ context[i] \in Nat
          BY <2>5, <4>1
        <4>4. QED  BY <1>0, <4>1, <4>2, <4>3
      <3>8. \A i, j \in 1 .. n - 1 : i < j => context'[i] < context'[j]
        BY <2>6, <3>4, <3>5
      <3>9. QED  BY <1>0, <2>1, <3>4, <3>6, <3>7, <3>8 DEF ContextsCarried
    <2>10. CASE m[at] \notin Range(context)
      <3>1. context' = context /\ contexts' = contexts
        BY <1>4, <2>2, <2>10 DEF PopContext
      <3>2. \A i \in 1 .. n : context[i] # m[at]
        <4>1. DOMAIN context = 1 .. n  BY <2>4
        <4>2. QED  BY <2>10, <4>1 DEF Range
      <3>3. \A i \in 1 .. n :
              context[i] \in Pushes(line) /\ context[i] < at + 1
              /\ AwaitsPop(line, context[i], at + 1)
        BY <1>0, <2>5, <2>8, <3>2
      <3>4. QED  BY <1>0, <2>1, <2>4, <3>1, <3>3 DEF ContextsCarried
    <2>11. QED  BY <2>9, <2>10
  <1>5. CASE Enter \/ HandOver \/ Receive
    BY <1>0, <1>5 DEF Enter, HandOver, Receive, ContextsCarried
  <1>6. CASE Escapes
    <2>1. PICK q \in 1 .. Len(line) :
            /\ Guards(line, q, at) /\ Surrounded(q) /\ at <= Len(line)
            /\ Catching("other") # {} /\ Innermost(Catching("other")) = Len(tries)
      BY <1>6, EscapeIs
    <2>2. PICK a : a = tries[Len(tries)].at
      OBVIOUS
    <2>3. a \in q .. at - 1 /\ at' = a + 1 /\ context' = context /\ contexts' = contexts
      BY <1>6, <2>1, <2>2 DEF Escapes, Surrounded
    <2>4. ASSUME NEW i \in 1 .. Len(context)
          PROVE  /\ context[i] \in Pushes(line) /\ context[i] < a + 1
                 /\ AwaitsPop(line, context[i], a + 1)
      <3>1. /\ context[i] \in Pushes(line) /\ context[i] < at /\ context[i] \in 1 .. Len(line)
            /\ AwaitsPop(line, context[i], at)
        BY LineIs DEF ContextsCarried
      <3>2. context[i] < q
        <4>1. line[context[i]] = "push_context"
          BY <3>1 DEF Pushes
        <4>2. context[i] # q
          BY <2>1, <4>1 DEF Guards
        <4>3. \A r \in q + 1 .. at - 1 : line[r] # "push_context"
          BY <2>1 DEF Guards, Simple
        <4>4. QED  BY <1>0, <3>1, <4>1, <4>2, <4>3
      <3>3. PICK r \in Pops(line) : Matching(line)[r] = context[i] /\ r >= at
        BY <3>1 DEF AwaitsPop
      <3>4. r >= a + 1
        BY <1>0, <2>3, <3>3, LineIs
      <3>5. QED  BY <1>0, <2>3, <3>1, <3>2, <3>3, <3>4 DEF AwaitsPop
    <2>5. QED  BY <1>0, <2>3, <2>4 DEF ContextsCarried
  <1>7. QED
    BY <1>1, <1>2, <1>3, <1>4, <1>5, <1>6 DEF PipelineNext

LEMMA GuardedStep ==
  ASSUME PipeInv, PipelineNext
  PROVE  Guarded'
  <1> USE DEF PipeInv, PipeType
  <1>0. /\ Len(line) \in Nat /\ at \in 1 .. Len(line) + 1 /\ line' = line
        /\ inside => at <= Len(line) /\ line[at] \in Scoped
        /\ handed => inside
        /\ DOMAIN line = 1 .. Len(line)
    BY LineIs, StillUnderWay DEF ScopesHeld
  <1>1. SUFFICES ASSUME NEW p \in DOMAIN line, NEW q \in 1 .. Len(line),
                        <<line, line[p]>> \in Uncaught, Guards(line, q, p),
                        at' <= p, ~inside'
                 PROVE  /\ at' <= q => signal' # "skip"
                        /\ at' > q /\ signal' \in {"value", "skip"} => Surrounded(q)'
    BY <1>0 DEF Guarded
  <1>2. q < p /\ line[q] = "then" /\ p \in 1 .. Len(line)
    BY <1>0, <1>1 DEF Guards
  <1>3. ASSUME ~inside, at <= Len(line), at' = at + 1
        PROVE  /\ at < q => line[at] \in Simple \cup {"push_context", "pop_context"}
                             /\ signal # "skip"
               /\ at = q => line[at] = "then" /\ signal # "skip"
               /\ at > q => line[at] \in Simple \cup {"maybe"}
                              /\ (signal \in {"value", "skip"} => Surrounded(q))
    BY <1>0, <1>1, <1>3, GuardedWalk
  <1>4. ASSUME Surrounded(q), tries' = tries, context' = context, at' = at + 1
        PROVE  Surrounded(q)'
    BY <1>0, <1>4 DEF Surrounded
  <1>5. CASE PassOn \/ Visit \/ Maybe \/ GetContext
    <2>1. /\ ~inside /\ at <= Len(line) /\ at' = at + 1
          /\ tries' = tries /\ context' = context
      BY <1>5 DEF PassOn, Visit, Maybe, GetContext, Arrives, Forward
    <2>2. CASE at < q
      <3>1. line[at] # "maybe" /\ signal # "skip"
        BY <1>3, <2>1, <2>2 DEF Simple
      <3>2. signal' # "skip"
        BY <1>5, <3>1 DEF PassOn, Visit, Maybe, GetContext, Arrives, Forward, Op
      <3>3. QED  BY <1>0, <2>1, <2>2, <3>2
    <2>3. CASE at = q
      <3>1. line[at] = "then" /\ signal # "skip"
        BY <1>3, <2>1, <2>3
      <3>2. signal' = "exception"
        BY <1>5, <3>1 DEF PassOn, Visit, Maybe, GetContext, Arrives, Forward, Op
      <3>3. QED  BY <1>0, <2>1, <2>3, <3>2
    <2>4. CASE at > q
      <3>1. signal \in {"value", "skip"} => Surrounded(q)'
        BY <1>3, <1>4, <2>1, <2>4
      <3>2. signal' \in {"value", "skip"} => signal \in {"value", "skip"}
        BY <1>5 DEF PassOn, Visit, Maybe, GetContext, Arrives, Forward
      <3>3. QED  BY <1>0, <2>1, <2>4, <3>1, <3>2
    <2>5. QED  BY <1>0, <2>2, <2>3, <2>4
  <1>6. CASE Then
    <2>1. /\ ~inside /\ at <= Len(line) /\ at' = at + 1 /\ context' = context
          /\ signal' \in {"value", "exception"}
          /\ signal' = "value" => tries' = Append(tries, Try(0, {"std", "other"}))
      BY <1>6 DEF Then, Arrives, Forward
    <2>2. ASSUME at >= q, signal' = "value"
          PROVE  Surrounded(q)'
      <3>1. Try(0, {"std", "other"}) \in TryBlock  BY <1>0 DEF Try, TryBlock
      <3>2. /\ tries' # <<>>
            /\ tries'[Len(tries')] = Try(0, {"std", "other"})
        BY <2>1, <2>2, <3>1
      <3>3. QED  BY <1>0, <2>1, <2>2, <3>2 DEF Surrounded, Try
    <2>3. QED  BY <1>0, <2>1, <2>2
  <1>7. CASE PushContext \/ PopContext
    <2>1. /\ ~inside /\ at <= Len(line) /\ at' = at + 1
          /\ line[at] \in {"push_context", "pop_context"}
          /\ signal' = signal
      BY <1>7 DEF PushContext, PopContext, Arrives, Forward, Op
    <2>2. at < q  BY <1>0, <1>3, <2>1 DEF Simple
    <2>3. QED  BY <1>0, <1>3, <2>1, <2>2
  <1>8. CASE Enter \/ HandOver
    BY <1>0, <1>1, <1>8 DEF Enter, HandOver
  <1>9. CASE InnerAnswers \/ Resume \/ Rethrow
    <2>1. at' = at + 1 /\ at <= Len(line) /\ line[at] \in Scoped
      BY <1>0, <1>9, PopPusherIs DEF InnerAnswers, Resume, Rethrow, Arrives, Forward, Op, Scoped
    <2>2. at < p  BY <1>0, <1>1, <2>1
    <2>3. line[at] \notin Scoped
      <3>1. \A r \in 1 .. q - 1 : line[r] \notin Scoped
        BY <1>1 DEF Guards, Simple, Scoped
      <3>2. \A r \in q + 1 .. p - 1 : line[r] \notin Scoped
        BY <1>1 DEF Guards, Simple, Scoped
      <3>3. line[q] \notin Scoped
        BY <1>2 DEF Scoped
      <3>4. at \in 1 .. q - 1 \/ at = q \/ at \in q + 1 .. p - 1
        BY <1>0, <1>2, <2>2
      <3>5. QED  BY <3>1, <3>2, <3>3, <3>4
    <2>4. QED  BY <2>1, <2>3
  <1>10. CASE Escapes
    <2>1. signal' = "exception"
      BY <1>10, EscapeIs DEF Escapes
    <2>2. QED  BY <2>1
  <1>11. CASE Receive
    BY <1>0, <1>1, <1>2, <1>11 DEF Receive
  <1>12. QED
    BY <1>5, <1>6, <1>7, <1>8, <1>9, <1>10, <1>11 DEF PipelineNext

LEMMA PipeStart == PipelineInit => PipeInv
  <1> SUFFICES ASSUME PipelineInit PROVE PipeInv
    OBVIOUS
  <1>0. Len(line) \in Nat /\ line \in Lines
    BY LineIs DEF PipelineInit
  <1>1. PipeType
    <2>1. inside \in BOOLEAN /\ handed \in BOOLEAN
      BY DEF PipelineInit
    <2>2. at \in 1 .. Len(line) + 1  BY <1>0 DEF PipelineInit
    <2>3. tries \in Seq(TryBlock) /\ context \in Seq(Nat)
          /\ received \in Seq({"value", "exception", "skip"})
      BY DEF PipelineInit
    <2>4. signal \in {"value", "exception", "skip", "none"}
      BY DEF PipelineInit
    <2>5. QED  BY <1>0, <2>1, <2>2, <2>3, <2>4 DEF PipeType
  <1>5. ScopesHeld /\ ~misused
    BY DEF PipelineInit, ScopesHeld
  <1>2. ContextsCarried
    BY DEF PipelineInit, ContextsCarried
  <1>3. Guarded
    BY DEF PipelineInit, Guarded
  <1>4. QED  BY <1>1, <1>2, <1>3, <1>5 DEF PipeInv

\* The receiver is behind every pop_context.
LEMMA AllFreed == PipeInv => SignalledOnce
  <1> SUFFICES ASSUME PipeInv PROVE SignalledOnce
    OBVIOUS
  <1>1. CASE signal # "none"
    BY <1>1 DEF PipeInv, ScopesHeld, SignalledOnce
  <1>2. CASE signal = "none"
    <2>1. at = Len(line) + 1 /\ scopes = {} /\ Len(received) = 1
      BY <1>2 DEF PipeInv, ScopesHeld
    <2>2. contexts = {}
      <3>1. \A i \in 1 .. Len(context) : \E r \in Pops(line) : r >= at
        BY DEF PipeInv, ContextsCarried, AwaitsPop
      <3>2. \A r \in Pops(line) : ~(r >= at)
        BY <2>1, LineIs DEF PipeInv, PipeType
      <3>3. QED  BY <3>1, <3>2 DEF PipeInv, ContextsCarried
    <2>3. QED  BY <1>2, <2>1, <2>2 DEF SignalledOnce, PipeInv
  <1>3. QED  BY <1>1, <1>2

\* Every step keeps all of it.
LEMMA PipeInvHolds == PipelineSpec => []PipeInv
  <1>1. PipeInv /\ [PipelineNext]_lvars => PipeInv'
    <2>1. PipeInv /\ PipelineNext => PipeInv'
      BY TypeStep, ScopesStep, NotMisused, ContextsStep, GuardedStep DEF PipeInv
    <2>2. PipeInv /\ UNCHANGED lvars => PipeInv'
      <3> SUFFICES ASSUME PipeInv, UNCHANGED lvars PROVE PipeInv'
        OBVIOUS
      <3>1. PipeType' /\ ~misused'
        BY DEF PipeInv, PipeType, lvars
      <3>2. ScopesHeld'
        BY DEF PipeInv, ScopesHeld, lvars
      <3>3. ContextsCarried'
        BY DEF PipeInv, ContextsCarried, lvars
      <3>4. Guarded'
        BY DEF PipeInv, Guarded, Surrounded, lvars
      <3>5. QED  BY <3>1, <3>2, <3>3, <3>4 DEF PipeInv
    <2>3. QED  BY <2>1, <2>2
  <1>2. QED  BY PipeStart, <1>1, PTL DEF PipelineSpec

\* Whatever the functions of a pipeline do, its receiver is called at most
\* once, after every inner scope and pushed context has been freed, and no
\* op uses one that was (then.hh, pop_context.hh, pop_pusher_scope_op).
THEOREM OneSignal == PipelineSpec => []SignalledOnce
BY PipeInvHolds, AllFreed, PTL

(* Whatever the ops of a pipeline do, its calls end at the receiver: there *)
(* is no signal that an op, an inner sender or a scheduler keeps.          *)
THEOREM CallsEndAtReceiver == PipelineSpec => []ReceiverCalled
<1>1. PipeInv => ReceiverCalled
  <2> SUFFICES ASSUME PipeInv, CallsOver PROVE signal = "none"
    BY DEF ReceiverCalled, PipeInv, ScopesHeld
  <2> SUFFICES ASSUME signal \in {"value", "exception", "skip"} PROVE FALSE
    BY DEF PipeInv, PipeType
  <2>1. at \in 1 .. Len(line) /\ Len(line) \in Nat
    BY LineIs DEF CallsOver, PipeInv, PipeType
  <2>2. line[at] \in LinearOps
    BY <2>1, LineIs DEF PipeInv, PipeType
  <2> QED BY <2>1, <2>2 DEF CallsOver, Arrives, Op, LinearOps, Simple, Scoped
<1> QED BY <1>1, PipeInvHolds, PTL

-----------------------------------------------------------------------------
(* The runtime.                                                            *)

\* What holds of 0 and goes on from each number to the next holds up to n.
LEMMA UpTo ==
  ASSUME NEW n \in Nat, NEW S, 0 \in S, \A i \in 1 .. n : i - 1 \in S => i \in S
  PROVE  \A i \in 0 .. n : i \in S
<1> DEFINE Below == {pair \in Nat \X Nat : pair[1] < pair[2]}
           Bad == {i \in 0 .. n : i \notin S}
<1>1. IsWellFoundedOn(Below, Nat)
  BY NatLessThanWellFounded DEF OpToRel
<1>2. Bad \subseteq Nat
  OBVIOUS
<1>3. CASE Bad # {}
  <2>1. PICK x \in Bad : \A y \in Bad : <<y, x>> \notin Below
    <3> HIDE DEF Bad, Below
    <3> QED BY <1>1, <1>2, <1>3, WFMin
  <2>2. x \in 1 .. n /\ x - 1 \notin S
    OBVIOUS
  <2>3. x - 1 \in Bad
    BY <2>2
  <2>4. <<x - 1, x>> \in Below
    BY <2>2
  <2> QED BY <2>1, <2>3, <2>4
<1> QED BY <1>3

\* A run of m steps over a set.
IsRun(f, m, S, a, step) ==
  f \in [0 .. m -> S] /\ f[0] = a /\ \A i \in 1 .. m : f[i] = step[i][f[i - 1]]

\* Steps that stay in a set can be run from any of its elements.
LEMMA Iterates ==
  ASSUME NEW n \in Nat, NEW S, NEW a \in S, NEW step,
         \A i \in 1 .. n : \A x \in S : step[i][x] \in S
  PROVE  \E f : IsRun(f, n, S, a, step)
<1> USE DEF IsRun
<1> DEFINE Goes(f, m) == IsRun(f, m, S, a, step)
           Far == {m \in 0 .. n : \E f : Goes(f, m)}
<1>1. 0 \in Far
  <2> DEFINE f == [i \in 0 .. 0 |-> a]
  <2>1. Goes(f, 0)
    OBVIOUS
  <2> HIDE DEF Goes, f
  <2>2. \E g : Goes(g, 0)
    BY <2>1
  <2> QED BY <2>2
<1>2. ASSUME NEW m \in 1 .. n, m - 1 \in Far PROVE m \in Far
  <2>1. PICK f : Goes(f, m - 1)
    BY <1>2
  <2> DEFINE g == [i \in 0 .. m |-> IF i = m THEN step[m][f[m - 1]] ELSE f[i]]
  <2>2. f[m - 1] \in S /\ step[m][f[m - 1]] \in S
    BY <2>1
  <2>3. g \in [0 .. m -> S]
    BY <2>1, <2>2
  <2>4. ASSUME NEW i \in 1 .. m PROVE g[i] = step[i][g[i - 1]]
    <3>1. CASE i = m
      BY <3>1
    <3>2. CASE i # m
      <4>1. i \in 1 .. m - 1 /\ i - 1 # m /\ i \in 0 .. m /\ i - 1 \in 0 .. m
        BY <3>2
      <4>2. g[i] = f[i] /\ g[i - 1] = f[i - 1]
        BY <4>1, <3>2
      <4>3. f[i] = step[i][f[i - 1]]
        BY <2>1, <4>1
      <4> QED BY <4>2, <4>3
    <3> QED BY <3>1, <3>2
  <2>5. g[0] = a
    BY <2>1
  <2>6. Goes(g, m)
    BY <2>3, <2>4, <2>5
  <2>7. m \in 0 .. n
    OBVIOUS
  <2> HIDE DEF IsRun, Goes, g
  <2>8. \E h : Goes(h, m)
    BY <2>6
  <2> QED BY <2>7, <2>8
<1>3. \A m \in 0 .. n : m \in Far
  <2> HIDE DEF Far
  <2> QED BY <1>1, <1>2, UpTo
<1> HIDE DEF IsRun, Goes, Far
<1>4. n \in Far
  BY <1>3
<1>5. \E f : Goes(f, n)
  BY <1>4 DEF Far
<1> QED BY <1>5 DEF Goes

Entries == Cores \X Reqs

\* Nobody holds r, and it has not run.
Fresh(r, qs, ts, rn) ==
  /\ rn[r] = <<>>
  /\ \A q \in Queues : \A e \in qs[q] : e[2] # r
  /\ \A c \in Cores : r \notin ts[c]

\* The cores that may hold or run r.
MayRun(c, r) == Post[r].to \in {c, Shared}

\* A request is in one queue, in one timer_set, or has run, and there once.
OnePlace(qs, ts, rn) ==
  /\ qs \in [Queues -> SUBSET Entries] /\ ts \in [Cores -> SUBSET Reqs] /\ rn \in [Reqs -> Seq(Cores)]
  /\ \A q \in Queues : \A e \in qs[q] :
       /\ Post[e[2]].to = q /\ rn[e[2]] = <<>>
       /\ \A c \in Cores : e[2] \notin ts[c]
       /\ \A f \in qs[q] : e[2] = f[2] => e = f
  /\ \A c \in Cores : \A r \in ts[c] :
       /\ MayRun(c, r) /\ rn[r] = <<>> /\ ~IsTask(r)
       /\ \A d \in Cores : r \in ts[d] => c = d
  /\ \A r \in Reqs : rn[r] = <<>> \/ \E c \in Cores : rn[r] = <<c>> /\ MayRun(c, r)

\* There is a lowest one among the timers.
Finite(qs, ts) == (\A q \in Queues : IsFiniteSet(qs[q])) /\ \A c \in Cores : IsFiniteSet(ts[c])

\* What is still to be posted is nowhere yet.
ToCome(qs, ts, rn, lp) ==
  /\ \A c \in Cores : lp[c] = "new" => \A i \in DOMAIN OnInit[c] : Fresh(OnInit[c][i], qs, ts, rn)
  /\ \A r \in Reqs : rn[r] = <<>> => \A i \in DOMAIN Follow[r] : Fresh(Follow[r][i], qs, ts, rn)

RtInv ==
  /\ loop \in [Cores -> {"new", "running", "left"}]
  /\ OnePlace(request_q, timer_set, ran)
  /\ ToCome(request_q, timer_set, ran, loop)
  /\ Finite(request_q, timer_set)

\* A finite set of timers has a lowest one.
LEMMA Lowest ==
  ASSUME NEW T, IsFiniteSet(T), T # {}, \A x \in T : Address[x] \in Int
  PROVE  \E x \in T : \A y \in T : Address[x] <= Address[y]
<1> DEFINE HasLowest(U) == \E x \in U : \A y \in U : Address[x] <= Address[y]
           Bad == {U \in SUBSET T : U # {} /\ ~HasLowest(U)}
           Sizes == {Cardinality(U) : U \in Bad}
           Below == {pair \in Nat \X Nat : pair[1] < pair[2]}
<1>1. \A U \in SUBSET T : IsFiniteSet(U) /\ Cardinality(U) \in Nat
  BY FS_Subset, FS_CardinalityType
<1>2. IsWellFoundedOn(Below, Nat)
  BY NatLessThanWellFounded DEF OpToRel
<1>3. Sizes \subseteq Nat
  BY <1>1
<1>4. CASE Bad # {}
  <2>1. Sizes # {}
    BY <1>4
  <2>2. PICK n \in Sizes : \A m \in Sizes : <<m, n>> \notin Below
    <3> HIDE DEF Sizes, Below
    <3> QED BY <1>2, <1>3, <2>1, WFMin
  <2>3. PICK U \in Bad : n = Cardinality(U)
    OBVIOUS
  <2> HIDE DEF HasLowest
  <2>4. PICK x \in U : TRUE
    OBVIOUS
  <2>5. Cardinality(U \ {x}) = Cardinality(U) - 1
    BY <1>1, FS_RemoveElement
  <2>6. U \ {x} \notin Bad
    <3>1. Cardinality(U) \in Nat /\ Cardinality(U \ {x}) \in Nat /\ U \ {x} \in SUBSET T
      BY <1>1
    <3>2. <<Cardinality(U \ {x}), n>> \in Below
      BY <2>3, <2>5, <3>1
    <3>3. Cardinality(U \ {x}) \notin Sizes
      BY <2>2, <3>2
    <3> QED BY <3>3
  <2>7. CASE U \ {x} = {}
    BY <2>3, <2>4, <2>7 DEF HasLowest
  <2>8. CASE HasLowest(U \ {x})
    <3>1. PICK z \in U \ {x} : \A y \in U \ {x} : Address[z] <= Address[y]
      BY <2>8 DEF HasLowest
    <3>2. CASE Address[x] <= Address[z]
      <4>1. \A y \in U : Address[x] <= Address[y]
        BY <3>1, <3>2
      <4> QED BY <2>3, <4>1 DEF HasLowest
    <3>3. CASE ~(Address[x] <= Address[z])
      <4>1. \A y \in U : Address[z] <= Address[y]
        BY <3>1, <3>3
      <4> QED BY <2>3, <3>1, <4>1 DEF HasLowest
    <3> QED BY <3>2, <3>3
  <2> QED BY <2>6, <2>7, <2>8
<1>5. CASE Bad = {}
  <2>1. T \in SUBSET T
    OBVIOUS
  <2>2. HasLowest(T)
    <3> HIDE DEF HasLowest
    <3> QED BY <1>5, <2>1
  <2> QED BY <2>2
<1> QED BY <1>4, <1>5

\* One request goes into its queue, or nowhere.
LEMMA ScheduledIs ==
  ASSUME NEW qs \in [Queues -> SUBSET Entries], NEW c \in Cores, NEW r \in Reqs
  PROVE  /\ ScheduleOp(qs, c, r) \in [Queues -> SUBSET Entries]
         /\ \A q \in Queues : /\ qs[q] \subseteq ScheduleOp(qs, c, r)[q]
                              /\ \A e \in ScheduleOp(qs, c, r)[q] :
                                   e \in qs[q] \/ (e = <<c, r>> /\ Post[r].to = q)
                              /\ IsFiniteSet(qs[q]) => IsFiniteSet(ScheduleOp(qs, c, r)[q])
<1>1. Post[r].to \in Queues
  BY RuntimeAssumption DEF Queues, Reqs
<1>2. ScheduleOp(qs, c, r) = qs \/ ScheduleOp(qs, c, r) = [qs EXCEPT ![Post[r].to] = @ \cup {<<c, r>>}]
  BY DEF ScheduleOp
<1>3. <<c, r>> \in Entries
  BY DEF Entries
<1>4. CASE ScheduleOp(qs, c, r) = qs
  BY <1>4
<1>5. CASE ScheduleOp(qs, c, r) = [qs EXCEPT ![Post[r].to] = @ \cup {<<c, r>>}]
  <2>1. \A q \in Queues : IsFiniteSet(qs[q]) => IsFiniteSet(qs[q] \cup {<<c, r>>})
    BY FS_AddElement
  <2> QED BY <1>1, <1>3, <1>5, <2>1
<1> QED BY <1>2, <1>4, <1>5

\* What posting the requests of rs may leave of the queues.
Between(qs, out, c, rs) ==
  /\ out \in [Queues -> SUBSET Entries]
  /\ \A q \in Queues : /\ qs[q] \subseteq out[q]
                       /\ \A e \in out[q] : e \in qs[q] \/ (e[1] = c /\ Post[e[2]].to = q /\
                                                           \E i \in DOMAIN rs : e[2] = rs[i])
                       /\ IsFiniteSet(qs[q]) => IsFiniteSet(out[q])

LEMMA AllScheduled ==
  ASSUME NEW qs \in [Queues -> SUBSET Entries], NEW c \in Cores, NEW rs \in Seq(Reqs)
  PROVE  Between(qs, ScheduleAll(qs, c, rs), c, rs)
<1> DEFINE n == Len(rs)
           S == {out \in [Queues -> SUBSET Entries] : Between(qs, out, c, rs)}
           step == [i \in 1 .. n |-> [out \in S |-> ScheduleOp(out, c, rs[i])]]
           body(p) == [i \in 0 .. n |-> IF i = 0 THEN qs ELSE ScheduleOp(p[i - 1], c, rs[i])]
           posted == CHOOSE p : p = body(p)
<1>1. n \in Nat /\ \A i \in 1 .. n : rs[i] \in Reqs /\ i \in DOMAIN rs
  OBVIOUS
<1>2. ScheduleAll(qs, c, rs) = posted[n]
  BY DEF ScheduleAll
<1>3. qs \in S
  BY DEF Between
<1>4. ASSUME NEW i \in 1 .. n, NEW out \in S PROVE ScheduleOp(out, c, rs[i]) \in S
  <2> DEFINE new == ScheduleOp(out, c, rs[i])
  <2>1. rs[i] \in Reqs /\ i \in DOMAIN rs
    BY <1>1
  <2>2. out \in [Queues -> SUBSET Entries] /\ Between(qs, out, c, rs)
    OBVIOUS
  <2>3. /\ new \in [Queues -> SUBSET Entries]
        /\ \A q \in Queues : /\ out[q] \subseteq new[q]
                             /\ \A e \in new[q] : e \in out[q] \/ (e = <<c, rs[i]>> /\ Post[rs[i]].to = q)
                             /\ IsFiniteSet(out[q]) => IsFiniteSet(new[q])
    BY <2>1, <2>2, ScheduledIs
  <2> HIDE DEF new
  <2>4. Between(qs, new, c, rs)
    BY <2>1, <2>2, <2>3 DEF Between
  <2> QED BY <2>3, <2>4 DEF new
<1>5. \A i \in 1 .. n : \A out \in S : step[i][out] = ScheduleOp(out, c, rs[i]) /\ step[i][out] \in S
  <2> HIDE DEF S
  <2> QED BY <1>4
<1>6. PICK f : IsRun(f, n, S, qs, step)
  <2> HIDE DEF S, step, n
  <2> QED BY <1>1, <1>3, <1>5, Iterates
<1>7. f \in [0 .. n -> S] /\ f[0] = qs /\ \A i \in 1 .. n : f[i] = ScheduleOp(f[i - 1], c, rs[i])
  <2>1. f \in [0 .. n -> S] /\ f[0] = qs /\ \A i \in 1 .. n : f[i] = step[i][f[i - 1]]
    BY <1>6 DEF IsRun
  <2> HIDE DEF S, step
  <2>2. ASSUME NEW i \in 1 .. n PROVE f[i] = ScheduleOp(f[i - 1], c, rs[i])
    <3>1. i - 1 \in 0 .. n
      BY <1>1
    <3> QED BY <2>1, <3>1, <1>5
  <2> QED BY <2>1, <2>2
<1> HIDE DEF step
<1>8. f = body(f)
  <2> HIDE DEF S
  <2>1. \A i \in 0 .. n : f[i] = body(f)[i]
    BY <1>1, <1>7
  <2> QED BY <1>7, <2>1
<1>9. posted = body(posted)
  <2> HIDE DEF body
  <2> QED BY <1>8
<1> HIDE DEF posted
<1> DEFINE Good == {i \in 0 .. n : posted[i] = f[i]}
<1>10. 0 \in Good
  BY <1>1, <1>7, <1>9
<1>11. ASSUME NEW i \in 1 .. n, i - 1 \in Good PROVE i \in Good
  <2>1. i \in 0 .. n /\ i # 0
    BY <1>1
  <2>2. posted[i] = ScheduleOp(posted[i - 1], c, rs[i])
    BY <1>9, <2>1
  <2> QED BY <1>7, <1>11, <2>1, <2>2
<1>12. posted[n] = f[n]
  <2> HIDE DEF Good
  <2>1. \A i \in 0 .. n : i \in Good
    BY <1>1, <1>10, <1>11, UpTo
  <2>2. n \in 0 .. n
    BY <1>1
  <2> QED BY <2>1, <2>2 DEF Good
<1>13. f[n] \in S
  <2> HIDE DEF S
  <2> QED BY <1>1, <1>7
<1> QED BY <1>2, <1>12, <1>13

\* Requests that were nowhere, once posted, are in one place.
LEMMA PostedKeeps ==
  ASSUME NEW qs, NEW ts, NEW rn, OnePlace(qs, ts, rn), NEW c \in Cores, NEW rs \in Seq(Reqs), NEW out,
         Between(qs, out, c, rs), \A i \in DOMAIN rs : Fresh(rs[i], qs, ts, rn)
  PROVE  /\ OnePlace(out, ts, rn)
         /\ \A r : (\A i \in DOMAIN rs : rs[i] # r) /\ Fresh(r, qs, ts, rn) => Fresh(r, out, ts, rn)
<1>1. /\ out \in [Queues -> SUBSET Entries] /\ ts \in [Cores -> SUBSET Reqs] /\ rn \in [Reqs -> Seq(Cores)]
      /\ qs \in [Queues -> SUBSET Entries]
  BY DEF Between, OnePlace
<1>2. ASSUME NEW q \in Queues, NEW e \in out[q]
      PROVE  /\ Post[e[2]].to = q /\ rn[e[2]] = <<>>
             /\ \A d \in Cores : e[2] \notin ts[d]
             /\ \A f \in out[q] : e[2] = f[2] => e = f
  <2>1. e \in qs[q] \/ (e[1] = c /\ Post[e[2]].to = q /\ \E i \in DOMAIN rs : e[2] = rs[i])
    BY DEF Between
  <2>2. CASE e \in qs[q]
    <3>1. /\ Post[e[2]].to = q /\ rn[e[2]] = <<>>
          /\ \A d \in Cores : e[2] \notin ts[d]
          /\ \A f \in qs[q] : e[2] = f[2] => e = f
      BY <2>2 DEF OnePlace
    <3>2. ASSUME NEW f \in out[q], e[2] = f[2] PROVE e = f
      <4>1. f \in qs[q] \/ \E i \in DOMAIN rs : f[2] = rs[i]
        BY DEF Between
      <4>2. \A i \in DOMAIN rs : e[2] # rs[i]
        BY <2>2 DEF Fresh
      <4> QED BY <3>1, <3>2, <4>1, <4>2
    <3> QED BY <3>1, <3>2
  <2>3. CASE e \notin qs[q]
    <3>1. PICK i \in DOMAIN rs : e[2] = rs[i]
      BY <2>1, <2>3
    <3>2. e[1] = c /\ Post[e[2]].to = q
      BY <2>1, <2>3
    <3>3. Fresh(e[2], qs, ts, rn)
      BY <3>1
    <3>4. ASSUME NEW f \in out[q], e[2] = f[2] PROVE e = f
      <4>1. f \in qs[q] \/ f[1] = c
        BY DEF Between
      <4>2. f \notin qs[q]
        BY <3>3, <3>4 DEF Fresh
      <4>3. e \in Cores \X Reqs /\ f \in Cores \X Reqs
        BY <1>1 DEF Entries
      <4>4. e = <<e[1], e[2]>> /\ f = <<f[1], f[2]>>
        BY <4>3
      <4> QED BY <3>2, <3>4, <4>1, <4>2, <4>4
    <3> QED BY <3>2, <3>3, <3>4 DEF Fresh
  <2> QED BY <2>2, <2>3
<1>3. /\ \A d \in Cores : \A r \in ts[d] : /\ MayRun(d, r) /\ rn[r] = <<>> /\ ~IsTask(r)
                                           /\ \A x \in Cores : r \in ts[x] => d = x
      /\ \A r \in Reqs : rn[r] = <<>> \/ \E d \in Cores : rn[r] = <<d>> /\ MayRun(d, r)
  BY DEF OnePlace
<1>4. OnePlace(out, ts, rn)
  BY <1>1, <1>2, <1>3 DEF OnePlace
<1>5. ASSUME NEW r, \A i \in DOMAIN rs : rs[i] # r, Fresh(r, qs, ts, rn) PROVE Fresh(r, out, ts, rn)
  <2>1. ASSUME NEW q \in Queues, NEW e \in out[q] PROVE e[2] # r
    <3>1. e \in qs[q] \/ \E i \in DOMAIN rs : e[2] = rs[i]
      BY DEF Between
    <3> QED BY <1>5, <3>1 DEF Fresh
  <2> QED BY <1>5, <2>1 DEF Fresh
<1> QED BY <1>4, <1>5

\* A request that was nowhere has run, once.
LEMMA RanKeeps ==
  ASSUME NEW qs, NEW ts, NEW rn, OnePlace(qs, ts, rn), NEW c \in Cores, NEW r \in Reqs, MayRun(c, r),
         Fresh(r, qs, ts, rn)
  PROVE  /\ OnePlace(qs, ts, [rn EXCEPT ![r] = Append(@, c)])
         /\ \A s \in Reqs : s # r /\ Fresh(s, qs, ts, rn) => Fresh(s, qs, ts, [rn EXCEPT ![r] = Append(@, c)])
<1> DEFINE new == [rn EXCEPT ![r] = Append(@, c)]
<1>1. rn \in [Reqs -> Seq(Cores)] /\ rn[r] = <<>>
  BY DEF OnePlace, Fresh
<1>2. Append(rn[r], c) = <<c>> /\ <<c>> \in Seq(Cores)
  BY <1>1
<1>3. /\ new \in [Reqs -> Seq(Cores)] /\ new[r] = <<c>>
      /\ \A s \in Reqs : s # r => new[s] = rn[s]
  BY <1>1, <1>2
<1> HIDE DEF new
<1>4. ASSUME NEW q \in Queues, NEW e \in qs[q] PROVE new[e[2]] = <<>>
  <2>1. rn[e[2]] = <<>> /\ qs[q] \subseteq Cores \X Reqs
    BY DEF OnePlace, Entries
  <2>2. e[2] # r /\ e[2] \in Reqs
    BY <2>1 DEF Fresh
  <2> QED BY <1>3, <2>1, <2>2
<1>5. ASSUME NEW d \in Cores, NEW s \in ts[d] PROVE new[s] = <<>>
  <2>1. rn[s] = <<>> /\ s \in Reqs /\ s # r
    BY DEF OnePlace, Fresh
  <2> QED BY <1>3, <2>1
<1>6. ASSUME NEW s \in Reqs PROVE new[s] = <<>> \/ \E d \in Cores : new[s] = <<d>> /\ MayRun(d, s)
  <2>1. CASE s = r
    BY <1>3, <2>1
  <2>2. CASE s # r
    BY <1>3, <2>2 DEF OnePlace
  <2> QED BY <2>1, <2>2
<1>7. OnePlace(qs, ts, new)
  BY <1>3, <1>4, <1>5, <1>6 DEF OnePlace
<1>8. ASSUME NEW s \in Reqs, s # r, Fresh(s, qs, ts, rn) PROVE Fresh(s, qs, ts, new)
  BY <1>3, <1>8 DEF Fresh
<1> QED BY <1>7, <1>8 DEF new

\* A request that has left its queue or timer_set runs, and posts others.
LEMMA CallKeeps ==
  ASSUME NEW qs, NEW ts, OnePlace(qs, ts, ran), ToCome(qs, ts, ran, loop),
         NEW c \in Cores, NEW r \in Reqs, MayRun(c, r), Fresh(r, qs, ts, ran), Call(qs, c, r),
         \A d \in Cores : loop[d] = "new" => \A i \in DOMAIN OnInit[d] : OnInit[d][i] # r,
         \A s \in Reqs : ran[s] = <<>> => \A i \in DOMAIN Follow[s] : Follow[s][i] # r, Finite(qs, ts)
  PROVE  OnePlace(request_q', ts, ran') /\ ToCome(request_q', ts, ran', loop) /\ Finite(request_q', ts)
<1>1. ran' = [ran EXCEPT ![r] = Append(@, c)] /\ request_q' = ScheduleAll(qs, c, Follow[r])
  BY DEF Call, Posts
<1>2. Follow[r] \in Seq(Reqs) /\ qs \in [Queues -> SUBSET Entries] /\ ran \in [Reqs -> Seq(Cores)]
  BY RuntimeAssumption DEF OnePlace, Reqs
<1>3. Between(qs, request_q', c, Follow[r])
  BY <1>1, <1>2, AllScheduled
<1>4. OnePlace(qs, ts, ran') /\ \A s \in Reqs : s # r /\ Fresh(s, qs, ts, ran) => Fresh(s, qs, ts, ran')
  BY <1>1, RanKeeps
<1>5. ran[r] = <<>>
  BY DEF Fresh
<1>6. ASSUME NEW i \in DOMAIN Follow[r] PROVE Follow[r][i] \in Reqs /\ Fresh(Follow[r][i], qs, ts, ran')
  <2>1. Follow[r][i] \in Reqs /\ Follow[r][i] # r
    BY <1>2, <1>5
  <2>2. Fresh(Follow[r][i], qs, ts, ran)
    BY <1>5 DEF ToCome
  <2> QED BY <1>4, <2>1, <2>2
<1>7. /\ OnePlace(request_q', ts, ran')
      /\ \A s : (\A i \in DOMAIN Follow[r] : Follow[r][i] # s) /\ Fresh(s, qs, ts, ran')
                   => Fresh(s, request_q', ts, ran')
  <2> HIDE DEF OnePlace, Fresh, Between
  <2> QED BY <1>2, <1>3, <1>4, <1>6, PostedKeeps
<1>8. ASSUME NEW d \in Cores, loop[d] = "new", NEW i \in DOMAIN OnInit[d]
      PROVE  Fresh(OnInit[d][i], request_q', ts, ran')
  <2> DEFINE s == OnInit[d][i]
  <2>1. OnInit[d] \in Seq(Reqs)
    BY RuntimeAssumption DEF Reqs
  <2>2. s \in Reqs /\ s # r /\ s \in ToSet(OnInit[d])
    BY <1>8, <2>1 DEF ToSet
  <2>3. Fresh(s, qs, ts, ran)
    BY <1>8 DEF ToCome
  <2>4. \A j \in DOMAIN Follow[r] : Follow[r][j] # s
    <3>1. \A j \in DOMAIN Follow[r] : Follow[r][j] \in ToSet(Follow[r])
      BY DEF ToSet
    <3>2. ToSet(OnInit[d]) \cap ToSet(Follow[r]) = {}
      BY PostedOnce DEF Reqs
    <3> HIDE DEF s
    <3> QED BY <2>2, <3>1, <3>2
  <2> HIDE DEF s
  <2> QED BY <1>4, <1>7, <2>2, <2>3, <2>4 DEF s
<1>9. ASSUME NEW x \in Reqs, ran'[x] = <<>>, NEW i \in DOMAIN Follow[x]
      PROVE  Fresh(Follow[x][i], request_q', ts, ran')
  <2> DEFINE s == Follow[x][i]
  <2>1. x # r /\ ran[x] = <<>>
    BY <1>1, <1>2, <1>5, <1>9
  <2>2. Follow[x] \in Seq(Reqs)
    BY RuntimeAssumption DEF Reqs
  <2>3. s \in Reqs /\ s # r
    BY <2>1, <2>2
  <2>4. Fresh(s, qs, ts, ran)
    BY <2>1 DEF ToCome
  <2>5. \A j \in DOMAIN Follow[r] : Follow[r][j] # s
    BY <2>1, PostedOnce DEF Reqs
  <2> HIDE DEF s
  <2> QED BY <1>4, <1>7, <2>3, <2>4, <2>5 DEF s
<1>10. Finite(request_q', ts)
  BY <1>3 DEF Finite, Between
<1> QED BY <1>7, <1>8, <1>9, <1>10 DEF ToCome

\* One that waits is not still to be posted.
LEMMA WaitsNotToCome ==
  ASSUME NEW qs, NEW ts, ToCome(qs, ts, ran, loop), NEW r, ~Fresh(r, qs, ts, ran)
  PROVE  /\ \A d \in Cores : loop[d] = "new" => \A i \in DOMAIN OnInit[d] : OnInit[d][i] # r
         /\ \A s \in Reqs : ran[s] = <<>> => \A i \in DOMAIN Follow[s] : Follow[s][i] # r
BY DEF ToCome

\* Fewer places holds keep what is asked of them.
LEMMA LessHeld ==
  ASSUME NEW qs, NEW ts, NEW rn, NEW lp, OnePlace(qs, ts, rn), ToCome(qs, ts, rn, lp),
         Finite(qs, ts), NEW less, NEW fewer,
         less \in [Queues -> SUBSET Entries], \A q \in Queues : less[q] \subseteq qs[q],
         fewer \in [Cores -> SUBSET Reqs], \A c \in Cores : fewer[c] \subseteq ts[c]
  PROVE  OnePlace(less, fewer, rn) /\ ToCome(less, fewer, rn, lp) /\ Finite(less, fewer)
<1>1. \A r : Fresh(r, qs, ts, rn) => Fresh(r, less, fewer, rn)
  BY DEF Fresh
<1>2. OnePlace(less, fewer, rn)
  BY DEF OnePlace
<1>3. Finite(less, fewer)
  BY FS_Subset DEF Finite
<1> HIDE DEF Fresh
<1> QED BY <1>1, <1>2, <1>3 DEF ToCome

\* Timers that a core takes from a queue are in its timer_set.
LEMMA DrainedKeeps ==
  ASSUME NEW qs, NEW ts, NEW rn, NEW lp, OnePlace(qs, ts, rn), ToCome(qs, ts, rn, lp),
         Finite(qs, ts), NEW c \in Cores, NEW q \in Queues, q \in {c, Shared}, NEW es \in SUBSET qs[q],
         \A e \in es : ~IsTask(e[2]), NEW left, NEW holds,
         left = [qs EXCEPT ![q] = @ \ es], holds = [ts EXCEPT ![c] = @ \cup {e[2] : e \in es}]
  PROVE  OnePlace(left, holds, rn) /\ ToCome(left, holds, rn, lp) /\ Finite(left, holds)
<1>1. /\ qs \in [Queues -> SUBSET Entries] /\ ts \in [Cores -> SUBSET Reqs] /\ rn \in [Reqs -> Seq(Cores)]
  BY DEF OnePlace
<1>2. es \subseteq Cores \X Reqs /\ \A e \in es : e[2] \in Reqs
  BY <1>1 DEF Entries
<1>3. /\ left \in [Queues -> SUBSET Entries] /\ left[q] = qs[q] \ es
      /\ \A p \in Queues : left[p] \subseteq qs[p]
  BY <1>1
<1>4. /\ holds \in [Cores -> SUBSET Reqs] /\ holds[c] = ts[c] \cup {e[2] : e \in es}
      /\ \A d \in Cores : d # c => holds[d] = ts[d]
  BY <1>1, <1>2
<1>5. \A r : Fresh(r, qs, ts, rn) => Fresh(r, left, holds, rn)
  <2> SUFFICES ASSUME NEW r, Fresh(r, qs, ts, rn) PROVE Fresh(r, left, holds, rn)
    OBVIOUS
  <2>1. r \notin {e[2] : e \in es}
    BY DEF Fresh
  <2>2. \A d \in Cores : r \notin holds[d]
    BY <1>4, <2>1 DEF Fresh
  <2>3. \A p \in Queues : \A e \in left[p] : e[2] # r
    BY <1>3 DEF Fresh
  <2> QED BY <2>2, <2>3 DEF Fresh
<1>6. ToCome(left, holds, rn, lp)
  <2> HIDE DEF Fresh
  <2> QED BY <1>5 DEF ToCome
<1>7. ASSUME NEW p \in Queues, NEW e \in left[p]
      PROVE  /\ Post[e[2]].to = p /\ rn[e[2]] = <<>>
             /\ \A d \in Cores : e[2] \notin holds[d]
             /\ \A f \in left[p] : e[2] = f[2] => e = f
  <2>1. e \in qs[p] /\ left[p] \subseteq qs[p]
    BY <1>3
  <2>2. /\ Post[e[2]].to = p /\ rn[e[2]] = <<>>
        /\ \A d \in Cores : e[2] \notin ts[d]
        /\ \A f \in qs[p] : e[2] = f[2] => e = f
    BY <2>1 DEF OnePlace
  <2>3. e[2] \notin {f[2] : f \in es}
    <3> SUFFICES ASSUME NEW f \in es, f[2] = e[2] PROVE FALSE
      OBVIOUS
    <3>1. Post[f[2]].to = q
      BY DEF OnePlace
    <3>2. p = q /\ e = f
      BY <2>2, <3>1
    <3> QED BY <1>3, <3>2
  <2> QED BY <1>4, <2>1, <2>2, <2>3
<1>8. ASSUME NEW d \in Cores, NEW r \in holds[d]
      PROVE  /\ MayRun(d, r) /\ rn[r] = <<>> /\ ~IsTask(r)
             /\ \A x \in Cores : r \in holds[x] => d = x
  <2>1. CASE \E e \in es : r = e[2]
    <3>1. PICK e \in es : r = e[2]
      BY <2>1
    <3>2. Post[r].to = q /\ rn[r] = <<>> /\ ~IsTask(r) /\ \A x \in Cores : r \notin ts[x]
      BY <3>1 DEF OnePlace
    <3>3. \A x \in Cores : r \in holds[x] => x = c
      BY <1>4, <3>2
    <3>4. d = c
      BY <3>3
    <3> QED BY <3>2, <3>3, <3>4 DEF MayRun
  <2>2. CASE ~\E e \in es : r = e[2]
    <3>1. \A x \in Cores : r \in holds[x] => r \in ts[x]
      BY <1>4, <2>2
    <3> QED BY <3>1 DEF OnePlace
  <2> QED BY <2>1, <2>2
<1>9. \A r \in Reqs : rn[r] = <<>> \/ \E d \in Cores : rn[r] = <<d>> /\ MayRun(d, r)
  BY DEF OnePlace
<1>10. OnePlace(left, holds, rn)
  BY <1>1, <1>3, <1>4, <1>7, <1>8, <1>9 DEF OnePlace
<1>11. Finite(left, holds)
  <2>1. \A p \in Queues : IsFiniteSet(left[p])
    BY <1>3, FS_Subset DEF Finite
  <2>2. IsFiniteSet({e[2] : e \in es})
    <3> DEFINE f == [e \in es |-> e[2]]
    <3>1. IsFiniteSet(es)
      BY FS_Subset DEF Finite
    <3>2. f \in Surjection(es, {e[2] : e \in es})
      BY DEF Surjection
    <3> QED BY <3>1, <3>2, FS_Surjection
  <2>3. IsFiniteSet(holds[c])
    BY <1>4, <2>2, FS_Union DEF Finite
  <2>4. \A d \in Cores : IsFiniteSet(holds[d])
    BY <1>4, <2>3 DEF Finite
  <2> QED BY <2>1, <2>4 DEF Finite
<1> QED BY <1>6, <1>10, <1>11

\* A task that leaves queue q and runs.
LEMMA TaskKeeps ==
  ASSUME RtInv, NEW c \in Cores, NEW q \in Queues, q \in {c, Shared}, NEW e \in request_q[q],
         Call([request_q EXCEPT ![q] = @ \ {e}], c, e[2]), UNCHANGED <<loop, timer_set>>
  PROVE  RtInv'
<1> DEFINE left == [request_q EXCEPT ![q] = @ \ {e}]  r == e[2]
<1>1. /\ OnePlace(request_q, timer_set, ran) /\ ToCome(request_q, timer_set, ran, loop)
      /\ Finite(request_q, timer_set)
  BY DEF RtInv
<1>2. request_q \in [Queues -> SUBSET Entries] /\ timer_set \in [Cores -> SUBSET Reqs] /\ ran \in [Reqs -> Seq(Cores)]
  BY <1>1 DEF OnePlace
<1>3. left \in [Queues -> SUBSET Entries] /\ left[q] = request_q[q] \ {e} /\ \A p \in Queues : left[p] \subseteq request_q[p]
  BY <1>2
<1> HIDE DEF left
<1>4. OnePlace(left, timer_set, ran) /\ ToCome(left, timer_set, ran, loop) /\ Finite(left, timer_set)
  BY <1>1, <1>2, <1>3, LessHeld
<1>5. r \in Reqs /\ MayRun(c, r) /\ ~Fresh(r, request_q, timer_set, ran)
  BY <1>1, <1>2 DEF OnePlace, Entries, MayRun, Fresh
<1>6. Fresh(r, left, timer_set, ran)
  <2>1. /\ Post[r].to = q /\ ran[r] = <<>> /\ \A d \in Cores : r \notin timer_set[d]
        /\ \A f \in request_q[q] : r = f[2] => e = f
    BY <1>1 DEF OnePlace
  <2>2. ASSUME NEW p \in Queues, NEW f \in left[p] PROVE f[2] # r
    <3>1. f \in request_q[p] /\ Post[f[2]].to = p
      BY <1>1, <1>3 DEF OnePlace
    <3> QED BY <1>3, <2>1, <3>1
  <2> QED BY <2>1, <2>2 DEF Fresh
<1>7. Call(left, c, r)
  BY DEF left
<1>8. /\ \A d \in Cores : loop[d] = "new" => \A i \in DOMAIN OnInit[d] : OnInit[d][i] # r
      /\ \A s \in Reqs : ran[s] = <<>> => \A i \in DOMAIN Follow[s] : Follow[s][i] # r
  <2> HIDE DEF r
  <2> QED BY <1>1, <1>5, WaitsNotToCome
<1> HIDE DEF r
<1>9. /\ OnePlace(request_q', timer_set, ran') /\ ToCome(request_q', timer_set, ran', loop)
      /\ Finite(request_q', timer_set)
  BY <1>4, <1>5, <1>6, <1>7, <1>8, CallKeeps
<1> QED BY <1>9 DEF RtInv

\* A timer that is due leaves timer_set and runs.
LEMMA TimerKeeps == ASSUME RtInv, NEW c \in Cores, RunTimer(c) PROVE RtInv'
<1> DEFINE r == FrontTimer(c)  left == [timer_set EXCEPT ![c] = @ \ {r}]
<1>1. /\ OnePlace(request_q, timer_set, ran) /\ ToCome(request_q, timer_set, ran, loop)
      /\ Finite(request_q, timer_set)
  BY DEF RtInv
<1>2. request_q \in [Queues -> SUBSET Entries] /\ timer_set \in [Cores -> SUBSET Reqs] /\ ran \in [Reqs -> Seq(Cores)]
  BY <1>1 DEF OnePlace
<1>3. Call(request_q, c, r) /\ timer_set' = left /\ loop' = loop /\ Due(c)
  BY DEF RunTimer
<1>4. r \in timer_set[c]
  <2>1. \A x \in timer_set[c] : Address[x] \in Int
    BY <1>1, RuntimeAssumption DEF OnePlace, IsTask, Reqs
  <2>2. IsFiniteSet(timer_set[c]) /\ timer_set[c] # {}
    BY <1>1, <1>3 DEF Finite, Due
  <2>3. \E x \in timer_set[c] : \A y \in timer_set[c] : Address[x] <= Address[y]
    BY <2>1, <2>2, Lowest
  <2> QED BY <2>3 DEF FrontTimer
<1>5. left \in [Cores -> SUBSET Reqs] /\ left[c] = timer_set[c] \ {r} /\ \A d \in Cores : left[d] \subseteq timer_set[d]
  BY <1>2
<1> HIDE DEF left
<1>6. OnePlace(request_q, left, ran) /\ ToCome(request_q, left, ran, loop) /\ Finite(request_q, left)
  BY <1>1, <1>2, <1>5, LessHeld
<1> HIDE DEF r
<1>7. r \in Reqs /\ MayRun(c, r) /\ ~Fresh(r, request_q, timer_set, ran)
  BY <1>1, <1>2, <1>4 DEF OnePlace, Fresh
<1>8. Fresh(r, request_q, left, ran)
  <2>1. /\ ran[r] = <<>> /\ \A d \in Cores : r \in timer_set[d] => c = d
    BY <1>1, <1>4 DEF OnePlace
  <2>2. \A d \in Cores : r \notin left[d]
    BY <1>5, <2>1
  <2>3. \A q \in Queues : \A e \in request_q[q] : e[2] # r
    BY <1>1, <1>4 DEF OnePlace
  <2> QED BY <2>1, <2>2, <2>3 DEF Fresh
<1>9. /\ \A d \in Cores : loop[d] = "new" => \A i \in DOMAIN OnInit[d] : OnInit[d][i] # r
      /\ \A s \in Reqs : ran[s] = <<>> => \A i \in DOMAIN Follow[s] : Follow[s][i] # r
  BY <1>1, <1>7, WaitsNotToCome
<1>10. /\ OnePlace(request_q', left, ran') /\ ToCome(request_q', left, ran', loop)
       /\ Finite(request_q', left)
  BY <1>3, <1>6, <1>7, <1>8, <1>9, CallKeeps
<1> QED BY <1>3, <1>10 DEF RtInv

\* on_init posts what was nowhere.
LEMMA RunKeeps == ASSUME RtInv, NEW c \in Cores, Run(c) PROVE RtInv'
<1> DEFINE rs == OnInit[c]
<1>1. /\ loop \in [Cores -> {"new", "running", "left"}]
      /\ OnePlace(request_q, timer_set, ran) /\ ToCome(request_q, timer_set, ran, loop)
      /\ Finite(request_q, timer_set)
  BY DEF RtInv
<1>2. loop[c] = "new" /\ loop' = [loop EXCEPT ![c] = "running"] /\ UNCHANGED <<timer_set, ran>>
  BY DEF Run
<1>3. rs \in Seq(Reqs) /\ request_q \in [Queues -> SUBSET Entries] /\ request_q' = ScheduleAll(request_q, c, rs)
  BY <1>1, RuntimeAssumption DEF Run, Posts, OnePlace, Reqs
<1>4. Between(request_q, request_q', c, rs)
  BY <1>3, AllScheduled
<1>5. \A i \in DOMAIN rs : Fresh(rs[i], request_q, timer_set, ran)
  BY <1>1, <1>2 DEF ToCome
<1> HIDE DEF rs
<1>6. /\ OnePlace(request_q', timer_set, ran)
      /\ \A s : (\A i \in DOMAIN rs : rs[i] # s) /\ Fresh(s, request_q, timer_set, ran)
                   => Fresh(s, request_q', timer_set, ran)
  <2> HIDE DEF OnePlace, Fresh, Between
  <2> QED BY <1>1, <1>3, <1>4, <1>5, PostedKeeps
<1>7. ASSUME NEW d \in Cores, loop'[d] = "new", NEW i \in DOMAIN OnInit[d]
      PROVE  Fresh(OnInit[d][i], request_q', timer_set, ran)
  <2>1. d # c /\ loop[d] = "new"
    BY <1>1, <1>2, <1>7
  <2>2. Fresh(OnInit[d][i], request_q, timer_set, ran)
    BY <1>1, <2>1 DEF ToCome
  <2>3. \A j \in DOMAIN rs : rs[j] # OnInit[d][i]
    BY <2>1, PostedOnce DEF rs
  <2> QED BY <1>6, <2>2, <2>3
<1>8. ASSUME NEW s \in Reqs, ran[s] = <<>>, NEW i \in DOMAIN Follow[s]
      PROVE  Fresh(Follow[s][i], request_q', timer_set, ran)
  <2>1. Fresh(Follow[s][i], request_q, timer_set, ran)
    BY <1>1, <1>8 DEF ToCome
  <2>2. \A j \in DOMAIN rs : rs[j] # Follow[s][i]
    <3>1. Follow[s][i] \in ToSet(Follow[s]) /\ \A j \in DOMAIN rs : rs[j] \in ToSet(rs)
      BY DEF ToSet
    <3>2. ToSet(rs) \cap ToSet(Follow[s]) = {}
      BY PostedOnce DEF Reqs, rs
    <3> QED BY <3>1, <3>2
  <2> QED BY <1>6, <2>1, <2>2
<1>9. ToCome(request_q', timer_set, ran, loop')
  <2> HIDE DEF Fresh
  <2> QED BY <1>7, <1>8 DEF ToCome
<1>10. loop' \in [Cores -> {"new", "running", "left"}]
  BY <1>1, <1>2
<1>11. Finite(request_q', timer_set)
  BY <1>1, <1>4 DEF Finite, Between
<1> QED BY <1>2, <1>6, <1>9, <1>10, <1>11 DEF RtInv

\* The steps that move no request.
LEMMA OthersKeep ==
  ASSUME RtInv, UNCHANGED <<request_q, timer_set, ran>>,
         UNCHANGED loop \/ \E c \in Cores : loop' = [loop EXCEPT ![c] = "left"]
  PROVE  RtInv'
<1>1. /\ loop \in [Cores -> {"new", "running", "left"}]
      /\ OnePlace(request_q, timer_set, ran) /\ ToCome(request_q, timer_set, ran, loop)
      /\ Finite(request_q, timer_set)
  BY DEF RtInv
<1>2. loop' \in [Cores -> {"new", "running", "left"}] /\ \A d \in Cores : loop'[d] = "new" => loop[d] = "new"
  BY <1>1
<1>3. ToCome(request_q, timer_set, ran, loop')
  BY <1>1, <1>2 DEF ToCome
<1> QED BY <1>1, <1>2, <1>3 DEF RtInv

\* Every step keeps the invariant.
LEMMA RtStep == ASSUME RtInv, [RtNext]_rtvars PROVE RtInv'
<1>1. /\ OnePlace(request_q, timer_set, ran) /\ ToCome(request_q, timer_set, ran, loop)
      /\ Finite(request_q, timer_set)
  BY DEF RtInv
<1>2. \A c \in Cores : c \in Queues /\ Shared \in Queues
  BY DEF Queues
<1>3. ASSUME NEW c \in Cores, HandleTimer(c) PROVE RtInv'
  <2> DEFINE es == Waiting(c, FALSE)
  <2>1. es \in SUBSET request_q[c] /\ \A e \in es : ~IsTask(e[2])
    BY DEF Waiting
  <2>2. /\ timer_set' = [timer_set EXCEPT ![c] = @ \cup {e[2] : e \in es}]
        /\ request_q' = [request_q EXCEPT ![c] = @ \ es] /\ UNCHANGED <<loop, ran>>
    BY <1>3 DEF HandleTimer
  <2> HIDE DEF es
  <2>3. /\ OnePlace(request_q', timer_set', ran) /\ ToCome(request_q', timer_set', ran, loop)
        /\ Finite(request_q', timer_set')
    BY <1>1, <1>2, <2>1, <2>2, DrainedKeeps
  <2> QED BY <2>2, <2>3 DEF RtInv
<1>4. ASSUME NEW c \in Cores, HandleTasks(c) PROVE RtInv'
  <2>1. PICK e \in Waiting(c, TRUE) : Call([request_q EXCEPT ![c] = @ \ {e}], c, e[2])
    BY <1>4 DEF HandleTasks
  <2>2. e \in request_q[c] /\ UNCHANGED <<loop, timer_set>>
    BY <1>4, <2>1 DEF HandleTasks, Waiting
  <2> QED BY <1>2, <2>1, <2>2, TaskKeeps
<1>5. ASSUME NEW c \in Cores, HandlePreemptive(c) PROVE RtInv'
  <2>1. UNCHANGED loop
    BY <1>5 DEF HandlePreemptive
  <2>2. CASE \E e \in Waiting(Shared, TRUE) : /\ Call([request_q EXCEPT ![Shared] = @ \ {e}], c, e[2])
                                            /\ UNCHANGED timer_set
    <3>1. PICK e \in Waiting(Shared, TRUE) : /\ Call([request_q EXCEPT ![Shared] = @ \ {e}], c, e[2])
                                            /\ UNCHANGED timer_set
      BY <2>2
    <3>2. e \in request_q[Shared]
      BY DEF Waiting
    <3> QED BY <1>2, <2>1, <3>1, <3>2, TaskKeeps
  <2>3. CASE \E e \in Waiting(Shared, FALSE) :
                /\ request_q' = [request_q EXCEPT ![Shared] = @ \ {e}]
                /\ timer_set' = [timer_set EXCEPT ![c] = @ \cup {e[2]}]
                /\ UNCHANGED ran
    <3>1. PICK e \in request_q[Shared] :
                /\ ~IsTask(e[2])
                /\ request_q' = [request_q EXCEPT ![Shared] = @ \ {e}]
                /\ timer_set' = [timer_set EXCEPT ![c] = @ \cup {e[2]}]
                /\ UNCHANGED ran
      BY <2>3 DEF Waiting
    <3> DEFINE es == {e}
    <3>2. {f[2] : f \in es} = {e[2]} /\ es \in SUBSET request_q[Shared] /\ \A f \in es : ~IsTask(f[2])
      BY <3>1
    <3> HIDE DEF es
    <3>3. /\ request_q' = [request_q EXCEPT ![Shared] = @ \ es]
          /\ timer_set' = [timer_set EXCEPT ![c] = @ \cup {f[2] : f \in es}]
      BY <3>1, <3>2 DEF es
    <3>4. /\ OnePlace(request_q', timer_set', ran) /\ ToCome(request_q', timer_set', ran, loop)
          /\ Finite(request_q', timer_set')
      BY <1>1, <1>2, <3>2, <3>3, DrainedKeeps
    <3> QED BY <2>1, <3>1, <3>4 DEF RtInv
  <2> QED BY <1>5, <2>2, <2>3 DEF HandlePreemptive
<1>6. ASSUME NEW c \in Cores, Leave(c) PROVE RtInv'
  BY <1>6, OthersKeep DEF Leave
<1>7. ASSUME NEW c \in Cores, NothingOwn(c) PROVE RtInv'
  BY <1>7, OthersKeep DEF NothingOwn
<1>8. ASSUME NEW c \in Cores, Stop(c) PROVE RtInv'
  BY <1>8, OthersKeep DEF Stop
<1>9. ASSUME Tick PROVE RtInv'
  BY <1>9, OthersKeep DEF Tick
<1>10. ASSUME UNCHANGED rtvars PROVE RtInv'
  BY <1>10, OthersKeep DEF rtvars
<1> QED BY <1>3, <1>4, <1>5, <1>6, <1>7, <1>8, <1>9, <1>10, RunKeeps, TimerKeeps DEF RtNext, CoreStep

\* At the start nothing is posted.
LEMMA RtStarts == ASSUME RtInit PROVE RtInv
<1>1. /\ request_q = [q \in Queues |-> {}] /\ timer_set = [c \in Cores |-> {}]
      /\ ran = [r \in Reqs |-> <<>>] /\ loop = [c \in Cores |-> "new"]
  BY DEF RtInit
<1>2. \A r \in Reqs : Fresh(r, request_q, timer_set, ran)
  BY <1>1 DEF Fresh
<1>3. OnePlace(request_q, timer_set, ran)
  <2>1. ran \in [Reqs -> Seq(Cores)] /\ \A r \in Reqs : ran[r] = <<>>
    BY <1>1
  <2> QED BY <1>1, <2>1 DEF OnePlace
<1>4. \A c \in Cores : \A i \in DOMAIN OnInit[c] : OnInit[c][i] \in Reqs
  BY RuntimeAssumption DEF Reqs
<1>5. \A r \in Reqs : \A i \in DOMAIN Follow[r] : Follow[r][i] \in Reqs
  BY RuntimeAssumption DEF Reqs
<1>6. ToCome(request_q, timer_set, ran, loop)
  <2> HIDE DEF Fresh
  <2> QED BY <1>2, <1>4, <1>5 DEF ToCome
<1>7. loop \in [Cores -> {"new", "running", "left"}]
  BY <1>1
<1>8. Finite(request_q, timer_set)
  BY <1>1, FS_EmptySet DEF Finite
<1> QED BY <1>3, <1>6, <1>7, <1>8 DEF RtInv

(* A request waits in one queue or timer_set, there once, or has run; what *)
(* is still to be posted is nowhere yet.                                   *)
THEOREM RtInvHolds == RtSpec => []RtInv
BY RtStarts, RtStep, PTL DEF RtSpec

(* A callback runs at most once, on the core it was posted to, and one     *)
(* from the preemptive queues on one core, a timer included that moved to  *)
(* the timer_set of the core that took it.                                 *)
THEOREM RequestsRunOnce == RtSpec => []RunOnce
<1>1. RtInv => RunOnce
  <2> SUFFICES ASSUME RtInv, NEW r \in Reqs
               PROVE  /\ Len(ran[r]) <= 1
                      /\ ran[r] # <<>> /\ Post[r].to # Shared => Head(ran[r]) = Post[r].to
    BY DEF RunOnce
  <2>1. ran[r] = <<>> \/ \E c \in Cores : ran[r] = <<c>> /\ MayRun(c, r)
    BY DEF RtInv, OnePlace
  <2>2. CASE ran[r] = <<>>
    BY <2>2
  <2>3. CASE \E c \in Cores : ran[r] = <<c>> /\ MayRun(c, r)
    <3>1. PICK c \in Cores : ran[r] = <<c>> /\ MayRun(c, r)
      BY <2>3
    <3> QED BY <3>1 DEF MayRun
  <2> QED BY <2>1, <2>2, <2>3
<1> QED BY <1>1, RtInvHolds, PTL

\* Who was accepted waits somewhere or has run.
Taken(rs, qs, ts, rn) == rs \subseteq Reqs /\ \A r \in rs : ~Fresh(r, qs, ts, rn)
AcceptInv == clock \in Nat /\ Taken(accepted, request_q, timer_set, ran)

\* What is posted joins, and nobody is put out.
LEMMA PostsTake ==
  ASSUME NEW qs \in [Queues -> SUBSET Entries], NEW ts, NEW rn, NEW c \in Cores, NEW rs \in Seq(Reqs),
         Taken(accepted, qs, ts, rn), Posts(qs, c, rs)
  PROVE  Taken(accepted', request_q', ts, rn)
<1>1. Between(qs, request_q', c, rs)
  BY AllScheduled DEF Posts
<1>2. \A r : ~Fresh(r, qs, ts, rn) => ~Fresh(r, request_q', ts, rn)
  BY <1>1 DEF Between, Fresh
<1>3. ASSUME NEW r \in accepted', r \notin accepted PROVE r \in Reqs /\ ~Fresh(r, request_q', ts, rn)
  <2>1. r \in ToSet(rs) /\ \E q \in Queues : <<c, r>> \in request_q'[q]
    BY <1>3 DEF Posts
  <2>2. r \in Reqs
    BY <2>1 DEF ToSet
  <2>3. <<c, r>>[2] = r
    OBVIOUS
  <2> QED BY <2>1, <2>2, <2>3 DEF Fresh
<1> QED BY <1>2, <1>3 DEF Taken

\* A request that leaves its place by being called has run.
LEMMA CallTakes ==
  ASSUME RtInv, Taken(accepted, request_q, timer_set, ran), NEW c \in Cores, NEW r \in Reqs,
         NEW qs \in [Queues -> SUBSET Entries], NEW ts, Call(qs, c, r),
         \A q \in Queues : \A e \in request_q[q] : e \in qs[q] \/ e[2] = r,
         \A d \in Cores : \A x \in timer_set[d] : x \in ts[d] \/ x = r
  PROVE  Taken(accepted', request_q', ts, ran')
<1>1. /\ ran \in [Reqs -> Seq(Cores)] /\ ran' = [ran EXCEPT ![r] = Append(@, c)]
      /\ Posts(qs, c, Follow[r]) /\ Follow[r] \in Seq(Reqs)
  BY RuntimeAssumption DEF RtInv, OnePlace, Call, Reqs
<1>2. ran'[r] # <<>> /\ \A x \in Reqs : x # r => ran'[x] = ran[x]
  <2>1. ran[r] \in Seq(Cores)
    BY <1>1
  <2>2. Append(ran[r], c) # <<>>
    BY <2>1
  <2> QED BY <1>1, <2>2
<1>3. Taken(accepted, qs, ts, ran')
  <2> SUFFICES ASSUME NEW x \in accepted, Fresh(x, qs, ts, ran'), x \in Reqs PROVE FALSE
    BY DEF Taken
  <2>1. x # r
    BY <1>2 DEF Fresh
  <2>2. Fresh(x, request_q, timer_set, ran)
    BY <1>2, <2>1 DEF Fresh
  <2> QED BY <2>2 DEF Taken
<1> QED BY <1>1, <1>3, PostsTake

\* A step that neither posts nor runs.
LEMMA MovedTaken ==
  ASSUME NEW qs, NEW ts, NEW rn, NEW left, NEW holds, NEW rs, Taken(rs, qs, ts, rn),
         \A q \in Queues : \A e \in qs[q] : e \in left[q] \/ \E c \in Cores : e[2] \in holds[c],
         \A c \in Cores : ts[c] \subseteq holds[c]
  PROVE  Taken(rs, left, holds, rn)
BY DEF Taken, Fresh

LEMMA AcceptStep == ASSUME RtInv, AcceptInv, [RtNext]_rtvars PROVE AcceptInv'
<1>1. /\ request_q \in [Queues -> SUBSET Entries] /\ timer_set \in [Cores -> SUBSET Reqs]
      /\ ran \in [Reqs -> Seq(Cores)] /\ \A c \in Cores : c \in Queues /\ Shared \in Queues
  BY DEF RtInv, OnePlace, Queues
<1>2. clock' \in Nat
  <2>1. clock' = clock \/ clock' = clock + 1
    BY DEF RtNext, CoreStep, Run, Leave, HandleTimer, RunTimer, HandleTasks, NothingOwn, HandlePreemptive,
           Tick, Stop, rtvars
  <2> QED BY <2>1 DEF AcceptInv
<1>3. ASSUME UNCHANGED <<request_q, timer_set, ran, accepted>> PROVE AcceptInv'
  BY <1>2, <1>3 DEF AcceptInv
<1>4. ASSUME NEW c \in Cores, Run(c) PROVE AcceptInv'
  <2>1. Posts(request_q, c, OnInit[c]) /\ OnInit[c] \in Seq(Reqs) /\ UNCHANGED <<timer_set, ran>>
    BY <1>4, RuntimeAssumption DEF Run, Reqs
  <2>2. Taken(accepted', request_q', timer_set, ran)
    BY <1>1, <2>1, PostsTake DEF AcceptInv
  <2> QED BY <1>2, <2>1, <2>2 DEF AcceptInv
<1>5. ASSUME NEW c \in Cores, NEW q \in Queues, NEW e \in request_q[q],
             Call([request_q EXCEPT ![q] = @ \ {e}], c, e[2]), UNCHANGED timer_set
      PROVE  AcceptInv'
  <2>1. PICK qs : qs = [request_q EXCEPT ![q] = @ \ {e}]
    OBVIOUS
  <2>2. qs \in [Queues -> SUBSET Entries] /\ e[2] \in Reqs
    BY <1>1, <2>1 DEF Entries
  <2>3. \A p \in Queues : \A f \in request_q[p] : f \in qs[p] \/ f[2] = e[2]
    BY <1>1, <2>1
  <2>4. Taken(accepted', request_q', timer_set, ran')
    BY <1>5, <2>1, <2>2, <2>3, CallTakes DEF AcceptInv
  <2> QED BY <1>2, <1>5, <2>4 DEF AcceptInv
<1>6. ASSUME NEW c \in Cores, RunTimer(c) PROVE AcceptInv'
  <2>1. PICK r : r = FrontTimer(c)
    OBVIOUS
  <2>2. Call(request_q, c, r) /\ timer_set' = [timer_set EXCEPT ![c] = @ \ {r}] /\ Due(c)
    BY <1>6, <2>1 DEF RunTimer
  <2>3. r \in Reqs
    <3>1. \A x \in timer_set[c] : Address[x] \in Int
      BY RuntimeAssumption DEF RtInv, OnePlace, IsTask, Reqs
    <3>2. IsFiniteSet(timer_set[c]) /\ timer_set[c] # {}
      BY <2>2 DEF RtInv, Finite, Due
    <3>3. \E x \in timer_set[c] : \A y \in timer_set[c] : Address[x] <= Address[y]
      BY <3>1, <3>2, Lowest
    <3> QED BY <1>1, <2>1, <3>3 DEF FrontTimer
  <2>4. \A d \in Cores : \A x \in timer_set[d] : x \in timer_set'[d] \/ x = r
    BY <1>1, <2>2
  <2>5. Taken(accepted', request_q', timer_set', ran')
    BY <1>1, <2>2, <2>3, <2>4, CallTakes DEF AcceptInv
  <2> QED BY <1>2, <2>5 DEF AcceptInv
<1>7. ASSUME NEW c \in Cores, HandleTimer(c) PROVE AcceptInv'
  <2>1. /\ timer_set' = [timer_set EXCEPT ![c] = @ \cup {e[2] : e \in Waiting(c, FALSE)}]
        /\ request_q' = [request_q EXCEPT ![c] = @ \ Waiting(c, FALSE)] /\ UNCHANGED <<ran, accepted>>
    BY <1>7 DEF HandleTimer
  <2>2. \A q \in Queues : \A e \in request_q[q] : e \in request_q'[q] \/ e[2] \in timer_set'[c]
    BY <1>1, <2>1
  <2>3. \A d \in Cores : timer_set[d] \subseteq timer_set'[d]
    BY <1>1, <2>1
  <2>4. Taken(accepted, request_q', timer_set', ran)
    BY <2>2, <2>3, MovedTaken DEF AcceptInv
  <2> QED BY <1>2, <2>1, <2>4 DEF AcceptInv
<1>8. ASSUME NEW c \in Cores, HandlePreemptive(c) PROVE AcceptInv'
  <2>1. CASE \E e \in Waiting(Shared, TRUE) : /\ Call([request_q EXCEPT ![Shared] = @ \ {e}], c, e[2])
                                            /\ UNCHANGED timer_set
    <3>1. PICK e \in request_q[Shared] : /\ Call([request_q EXCEPT ![Shared] = @ \ {e}], c, e[2])
                                         /\ UNCHANGED timer_set
      BY <2>1 DEF Waiting
    <3> QED BY <1>1, <1>5, <3>1
  <2>2. CASE /\ UNCHANGED <<ran, accepted>>
             /\ \E e \in Waiting(Shared, FALSE) :
                  /\ request_q' = [request_q EXCEPT ![Shared] = @ \ {e}]
                  /\ timer_set' = [timer_set EXCEPT ![c] = @ \cup {e[2]}]
    <3>1. PICK e \in Waiting(Shared, FALSE) :
                  /\ request_q' = [request_q EXCEPT ![Shared] = @ \ {e}]
                  /\ timer_set' = [timer_set EXCEPT ![c] = @ \cup {e[2]}]
      BY <2>2
    <3>2. \A q \in Queues : \A f \in request_q[q] : f \in request_q'[q] \/ f[2] \in timer_set'[c]
      BY <1>1, <3>1
    <3>3. \A d \in Cores : timer_set[d] \subseteq timer_set'[d]
      BY <1>1, <3>1
    <3>4. Taken(accepted, request_q', timer_set', ran)
      BY <3>2, <3>3, MovedTaken DEF AcceptInv
    <3> QED BY <1>2, <2>2, <3>4 DEF AcceptInv
  <2> QED BY <1>8, <2>1, <2>2 DEF HandlePreemptive
<1>9. ASSUME NEW c \in Cores, HandleTasks(c) PROVE AcceptInv'
  <2>1. PICK e \in request_q[c] : Call([request_q EXCEPT ![c] = @ \ {e}], c, e[2]) /\ UNCHANGED timer_set
    BY <1>9 DEF HandleTasks, Waiting
  <2> QED BY <1>1, <1>5, <2>1
<1>10. ASSUME NEW c \in Cores, Leave(c) \/ NothingOwn(c) \/ Stop(c) PROVE AcceptInv'
  BY <1>3, <1>10 DEF Leave, NothingOwn, Stop
<1>11. CASE Tick \/ UNCHANGED rtvars
  BY <1>3, <1>11 DEF Tick, rtvars
<1> QED BY <1>4, <1>6, <1>7, <1>8, <1>9, <1>10, <1>11 DEF RtNext, CoreStep

(* A request that a queue accepted has run by the time the cores rest:     *)
(* nobody's queue or timer_set keeps one while its loop runs, and a timer  *)
(* is due as soon as it is held, as make_op() gives it the time 0.         *)
THEOREM AcceptedRequestsRun == RtSpec => []AcceptedRun
<1>1. RtInit => AcceptInv
  BY DEF RtInit, AcceptInv, Taken
<1>2. RtInv /\ AcceptInv => AcceptedRun
  <2> SUFFICES ASSUME RtInv, AcceptInv, CoresQuiet, NEW r \in accepted, ran[r] = <<>>,
                      NEW d \in Cores, loop[d] # "left"
               PROVE  \E c \in Cores : KeptBy(c, r) /\ loop[c] = "left"
    BY DEF AcceptedRun
  <2>1. \A c \in Cores : loop[c] \in {"running", "left"}
    BY DEF RtInv, CoresQuiet
  <2>2. request_q[Shared] = {}
    BY <2>1 DEF CoresQuiet
  <2>3. \E c \in Cores : r \in timer_set[c] \/ \E e \in request_q[c] : e[2] = r
    <3>1. (\E q \in Queues : \E e \in request_q[q] : e[2] = r) \/ \E c \in Cores : r \in timer_set[c]
      BY DEF AcceptInv, Taken, Fresh
    <3> QED BY <2>2, <3>1 DEF Queues
  <2>4. ASSUME NEW c \in Cores, loop[c] = "running" PROVE request_q[c] = {} /\ timer_set[c] = {}
    <3>1. request_q[c] = {} /\ ~Due(c)
      BY <2>4 DEF CoresQuiet
    <3> QED BY <3>1 DEF Due, Stamp, AcceptInv
  <2> QED BY <2>1, <2>3, <2>4 DEF KeptBy
<1> QED BY <1>1, <1>2, RtInvHolds, AcceptStep, PTL DEF RtSpec

==============================================================================
