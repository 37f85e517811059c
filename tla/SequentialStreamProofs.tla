------------------------ MODULE SequentialStreamProofs ------------------------
(***************************************************************************)
(* sequential pushes one element at a time, in the order in which the      *)
(* elements claimed their slots, for any number of elements, any bound,    *)
(* cache size and set of asynchronous elements.                            *)
(*                                                                         *)
(* The right to push is with one runner, or with two between the push of   *)
(* an asynchronous element and its answer: the drainer on its way out, and *)
(* the thread that answers.  drain_flag tells these cases apart.           *)
(*                                                                         *)
(* Where the cache has room for every element, none is lost: one that has  *)
(* not been reduced is in the cache or has not been counted, and done is   *)
(* reported after the last count.                                          *)
(***************************************************************************)
EXTENDS SequentialStream, SequenceTheorems, FiniteSetTheorems, TLAPS

InsideRight == {"enter", "dequeue", "activate", "reduce", "release", "look",
                "late", "finish", "toIdle"}
Outside     == {"out", "recheck", "recheckState", "reBusy"}

\* Where a process of the engine may be.
SPlaces == Places \cup {"publish", "tryBusy", "draining", "finishing"}
Fresh   == {"idle", "flight"}
Within  == {"draining", "finishing"}

SType ==
  /\ pc \in [Procs -> SPlaces]
  /\ push_count \in Nat
  /\ cache \in Seq([item : Elements, ready : BOOLEAN])
  /\ state \in {IDLE, BUSY, DONE, TERMINAL}
  /\ drain_flag \in SUBSET {"active", "requested"}
  /\ at \in [Runners -> InsideRight \cup Outside]
  /\ item \in [Runners -> Elements \cup {None}]

\* An element is launched once, and a process is in drain_single only from
\* where it calls it.
LaunchInv ==
  /\ \A e \in Elements : e > push_count => pc[e] = "idle"
  /\ \A p \in Procs : at[p] # "out" => pc[p] \in Within

InCache(x)  == \E k \in DOMAIN cache : cache[k].item = x
Taken(x)    == \E q \in Runners : at[q] = "activate" /\ item[q] = x

\* An element is before the cache, in it, about to be pushed, or past that;
\* its answering thread runs only then.
ItemInv ==
  /\ \A j, k \in DOMAIN cache : cache[j].item = cache[k].item => j = k
  /\ \A x \in Elements : InCache(x) => pc[x] \notin Fresh /\ ~Taken(x)
  /\ \A x \in Elements : Taken(x) => pc[x] \notin Fresh
  /\ \A q \in Runners : at[q] = "activate" => item[q] \in Elements
  /\ \A x \in Elements : at[Downstream(x)] # "out" =>
       pc[x] \notin Fresh /\ ~InCache(x) /\ ~Taken(x)

\* r answers an asynchronous element while q is on its way out.
Answering(q, r) ==
  /\ at[q] = "release"
  /\ \/ at[r] = "enter"
     \/ at[r] = "reduce" /\ item[r] \in Async
  /\ drain_flag = {"active"}

HasRight(q) == at[q] \in InsideRight
Alone(q)    == \A r \in Runners : HasRight(r) => r = q

RightInv ==
  /\ \A q, r \in Runners : HasRight(q) /\ HasRight(r) /\ q # r =>
       Answering(q, r) \/ Answering(r, q)
  /\ \A q \in Runners : HasRight(q) => state # IDLE
  /\ (\A q \in Runners : ~HasRight(q)) => drain_flag = {}

FlagInv ==
  \A q \in Runners :
    /\ at[q] \in {"dequeue", "activate", "look", "late", "finish", "toIdle"} =>
         drain_flag = {}
    /\ at[q] = "reduce" /\ item[q] \notin Async => drain_flag = {"active"}
    /\ at[q] = "enter" \/ (at[q] = "reduce" /\ item[q] \in Async) =>
         drain_flag = {} \/ \E r \in Runners : r # q /\ Answering(r, q)
    /\ at[q] = "release" =>
         \/ drain_flag = {"active", "requested"}
         \/ drain_flag = {"active"} /\ \E r \in Runners : r # q /\ Answering(q, r)

PushInv == SType /\ LaunchInv /\ ItemInv /\ RightInv /\ FlagInv

-----------------------------------------------------------------------------
LEMMA RunnerFacts ==
  /\ N \in Nat /\ Async \subseteq Elements
  /\ Procs \subseteq Runners /\ Elements \subseteq Procs
  /\ \A x \in Elements : Downstream(x) \in Runners /\ Downstream(x) \notin Procs
  /\ \A x, y \in Elements : Downstream(x) = Downstream(y) => x = y
<1>1. N \in Nat /\ Async \subseteq Elements
  BY SizesAssumption, CacheAssumption
<1> QED BY <1>1 DEF Runners, Answers, Procs, Elements, Downstream

LEMMA InitPushInv == SInit => PushInv
<1> SUFFICES ASSUME SInit PROVE PushInv
  OBVIOUS
<1>1. SType
  BY RunnerFacts DEF SInit, Init, SType, SPlaces, Places, Running, Holding, Outside,
     IDLE, None
<1>2. LaunchInv /\ ItemInv
  BY RunnerFacts DEF SInit, Init, LaunchInv, ItemInv, InCache, Taken, Elements, Procs,
     StartProc
<1>3. RightInv /\ FlagInv
  BY DEF SInit, RightInv, FlagInv, HasRight, InsideRight
<1> QED BY <1>1, <1>2, <1>3 DEF PushInv

\* What a step of the engine upstream does to the processes.
LEMMA UpstreamPlaces ==
  ASSUME SType, LaunchInv, NEW p \in Procs, Upstream(p)
  PROVE  /\ UNCHANGED cacheVars
         /\ push_count' \in Nat /\ push_count' >= push_count
         /\ pc' \in [Procs -> SPlaces]
         /\ \A x \in Procs : pc'[x] = pc[x] \/ (pc[x] \notin Fresh \cup Within /\ pc'[x] \notin Fresh)
              \/ (pc[x] = "idle" /\ pc'[x] = "flight" /\ x = push_count' /\ push_count' > push_count)
<1>1. UNCHANGED cacheVars
  BY DEF Upstream
<1> USE DEF SType
<1>2. CASE Launch(p)
  <2>1. push_count + 1 \in Elements /\ pc[push_count + 1] = "idle"
    BY <1>2, RunnerFacts DEF Launch, LaunchInv, Elements
  <2>2. pc' = [pc EXCEPT ![p] = "pushed", ![push_count + 1] = "flight"]
        /\ push_count' = push_count + 1 /\ pc[p] = "loop"
    BY <1>2 DEF Launch
  <2> QED BY <1>1, <2>1, <2>2, RunnerFacts DEF SPlaces, Places, Running, Holding, Fresh, Within
<1>3. ASSUME push_count' = push_count, pc[p] \notin Fresh \cup Within,
             NEW place \in SPlaces \ Fresh, pc' = [pc EXCEPT ![p] = place]
      PROVE  /\ push_count' \in Nat /\ push_count' >= push_count
             /\ pc' \in [Procs -> SPlaces]
             /\ \A x \in Procs : pc'[x] = pc[x] \/ (pc[x] \notin Fresh \cup Within /\ pc'[x] \notin Fresh)
  BY <1>3
<1>4. \A place : Goto(p, place) => pc' = [pc EXCEPT ![p] = place]
  BY DEF Goto
<1>5. AfterPoll(p) \in {"gone", "count"}
  BY DEF AfterPoll
<1> DEFINE Moved(places) == /\ push_count' = push_count /\ pc[p] \notin Fresh \cup Within
                            /\ \E place \in places : pc' = [pc EXCEPT ![p] = place]
<1>6. ASSUME Moved({"total", "loop", "gone", "count", "nested", "consume", "lastTotal",
                    "lastCount"})
      PROVE  \E place \in SPlaces \ Fresh : pc' = [pc EXCEPT ![p] = place]
  BY <1>6 DEF SPlaces, Places, Running, Holding, Fresh, Within
<1>7. CASE EndOfRange(p) \/ Consume(p)
  <2>1. Moved({"total", "loop", "gone", "count", "nested", "consume", "lastTotal", "lastCount"})
    BY <1>5, <1>7 DEF EndOfRange, Consume, Goto, Fresh, Within
  <2> QED BY <1>1, <1>3, <1>6, <2>1
<1>8. CASE Add(p) \/ Repoll(p)
  <2>1. Moved({"total", "loop", "gone", "count", "nested", "consume", "lastTotal", "lastCount"})
    BY <1>8 DEF Add, Repoll, TryAcquire, Goto, Fresh, Within
  <2> QED BY <1>1, <1>3, <1>6, <2>1
<1>9. CASE SetTotal(p) \/ (p = StartProc /\ Start)
  <2>1. Moved({"total", "loop", "gone", "count", "nested", "consume", "lastTotal", "lastCount"})
    BY <1>5, <1>9 DEF SetTotal, Start, TryAcquire, Goto, Fresh, Within
  <2> QED BY <1>1, <1>3, <1>6, <2>1
<1>10. CASE p \in Elements /\ Count(p)
  <2>1. Moved({"total", "loop", "gone", "count", "nested", "consume", "lastTotal", "lastCount"})
    BY <1>10 DEF Count, Goto, Fresh, Within
  <2> QED BY <1>1, <1>3, <1>6, <2>1
<1> QED BY <1>2, <1>7, <1>8, <1>9, <1>10 DEF Upstream

LEMMA LeaveFacts ==
  ASSUME SType, NEW q \in Runners, Leave(q)
  PROVE  /\ at' = [at EXCEPT ![q] = "out"]
         /\ \/ pc' = pc
            \/ q \in Procs /\ \E place \in {"count", "gone"} : pc' = [pc EXCEPT ![q] = place]
  BY RunnerFacts DEF Leave, Move, Goto, Runners


\* What taking from the cache leaves.
LEMMA DequeuedFacts ==
  ASSUME SType, NEW q \in Runners, NEW missing, Dequeued(q, "activate", missing)
  PROVE  \/ /\ cache # <<>>
            /\ cache' = Tail(cache)
            /\ Head(cache) = cache[1]
            /\ item' = [item EXCEPT ![q] = cache[1].item]
            /\ at' = [at EXCEPT ![q] = "activate"]
         \/ /\ UNCHANGED <<cache, item>>
            /\ at' = [at EXCEPT ![q] = missing]
  BY HeadTailProperties DEF Dequeued, Move, SType

\* The cache and its tail.
LEMMA TailFacts ==
  ASSUME SType, cache # <<>>
  PROVE  /\ cache[1].item \in Elements /\ 1 \in DOMAIN cache
         /\ Tail(cache) \in Seq([item : Elements, ready : BOOLEAN])
         /\ \A k \in DOMAIN Tail(cache) : k + 1 \in DOMAIN cache /\ Tail(cache)[k] = cache[k + 1]
<1> DEFINE Cells == [item : Elements, ready : BOOLEAN]
<1>1. cache \in Seq(Cells)
  BY DEF SType
<1> HIDE DEF Cells
<1>2. Len(cache) \in Nat /\ Len(cache) # 0 /\ DOMAIN cache = 1 .. Len(cache)
  BY <1>1, LenProperties, EmptySeq
<1>3. cache[1] \in Cells
  BY <1>1, <1>2, ElementOfSeq
<1>4. /\ Tail(cache) \in Seq(Cells) /\ Len(Tail(cache)) = Len(cache) - 1
      /\ \A k \in 1 .. Len(Tail(cache)) : Tail(cache)[k] = cache[k + 1]
  BY <1>1, HeadTailProperties
<1>5. DOMAIN Tail(cache) = 1 .. Len(cache) - 1
  BY <1>4, LenProperties
<1> QED BY <1>2, <1>3, <1>4, <1>5 DEF Cells

LEMMA TypeStep ==
  ASSUME PushInv, NEW q \in Runners, SStep(q)
  PROVE  SType'
<1> USE DEF PushInv
<1>1. CASE q \in Procs /\ Upstream(q)
  BY <1>1, UpstreamPlaces DEF SType, cacheVars
<1>2. CASE q \in Elements /\ Claim(q)
  <2>1. cache' \in Seq([item : Elements, ready : BOOLEAN])
    <3>1. CASE cache' = cache
      BY <3>1 DEF SType
    <3>2. CASE cache' = Append(cache, [item |-> q, ready |-> FALSE])
      BY <1>2, <3>2, AppendProperties DEF SType
    <3> QED BY <1>2, <3>1, <3>2 DEF Claim
  <2>2. pc' \in [Procs -> SPlaces]
    BY <1>2, RunnerFacts DEF Claim, Goto, SType, SPlaces
  <2> QED BY <1>2, <2>1, <2>2 DEF Claim, KeepStream, SType
<1>3. CASE q \in Elements /\ Publish(q)
  <2>1. cache' \in Seq([item : Elements, ready : BOOLEAN])
    <3> DEFINE Cells == [item : Elements, ready : BOOLEAN]
    <3>1. Len(cache) \in Nat /\ DOMAIN cache = 1 .. Len(cache)
      BY LenProperties DEF SType
    <3>2. \A k \in DOMAIN cache : cache[k] \in Cells
      BY <3>1, ElementOfSeq DEF SType
    <3>3. \A k \in DOMAIN cache : [cache[k] EXCEPT !.ready = TRUE] \in Cells
      BY <3>2
    <3>4. cache' = [k \in 1 .. Len(cache) |->
                      IF cache[k].item = q THEN [cache[k] EXCEPT !.ready = TRUE] ELSE cache[k]]
      BY <1>3, <3>1 DEF Publish
    <3> HIDE DEF Cells
    <3>5. cache' \in Seq(Cells)
      BY <3>1, <3>2, <3>3, <3>4, IsASeq
    <3> QED BY <3>5 DEF Cells
  <2>2. pc' \in [Procs -> SPlaces]
    BY <1>3, RunnerFacts DEF Publish, Goto, SType, SPlaces
  <2> QED BY <1>3, <2>1, <2>2 DEF Publish, KeepStream, SType
<1>4. CASE (q \in Elements /\ TryBusy(q)) \/ (q \in Procs /\ PushDone(q))
  BY <1>4, RunnerFacts
  DEF TryBusy, PushDone, KeepStream, Goto, Move, SType, SPlaces, Places, Running, Holding, InsideRight,
      IDLE, BUSY, DONE
<1>5. CASE Dequeue(q) \/ Late(q)
  <2>1. PICK missing \in {"look", "finish"} : Dequeued(q, "activate", missing)
    BY <1>5 DEF Dequeue, Late
  <2>2. CASE cache # <<>> /\ cache' = Tail(cache) /\ item' = [item EXCEPT ![q] = cache[1].item]
             /\ at' = [at EXCEPT ![q] = "activate"]
    <3>1. cache' \in Seq([item : Elements, ready : BOOLEAN]) /\ cache[1].item \in Elements
      BY <2>2, TailFacts
    <3> QED BY <1>5, <2>2, <3>1 DEF Dequeue, Late, KeepStream, SType, InsideRight
  <2>3. CASE UNCHANGED <<cache, item>> /\ at' = [at EXCEPT ![q] = missing]
    BY <1>5, <2>3 DEF Dequeue, Late, KeepStream, SType, InsideRight
  <2> QED BY <2>1, <2>2, <2>3, DequeuedFacts
<1>6. CASE Activate(q)
  <2>1. item[q] \in Elements /\ Downstream(item[q]) \in Runners
    BY <1>6, RunnerFacts DEF Activate, ItemInv
  <2> QED BY <1>6, <2>1 DEF Activate, KeepStream, Move, SType, InsideRight
<1>7. CASE Reduce(q) \/ Look(q) \/ ToIdle(q) \/ Recheck(q)
  BY <1>7 DEF Reduce, Look, ToIdle, Recheck, KeepStream, Move, SType, InsideRight, Outside,
              IDLE, BUSY, DONE
<1>8. ASSUME Leave(q) PROVE at' \in [Runners -> InsideRight \cup Outside] /\ pc' \in [Procs -> SPlaces]
  BY <1>8, LeaveFacts DEF SType, Outside, SPlaces, Places, Running
<1>9. CASE Enter(q) \/ Release(q)
  BY <1>8, <1>9 DEF Enter, Release, KeepStream, Move, SType, InsideRight
<1>10. CASE FinishCache(q) \/ RecheckState(q) \/ ReBusy(q)
  BY <1>8, <1>10 DEF FinishCache, RecheckState, ReBusy, KeepStream, Move, SType, InsideRight, Outside,
     IDLE, BUSY, DONE, TERMINAL
<1> QED BY <1>1, <1>2, <1>3, <1>4, <1>5, <1>6, <1>7, <1>9, <1>10, RunnerFacts DEF SStep, Push, Drain

\* A process past the cache's push stays past it.
LEMMA FreshStep ==
  ASSUME PushInv, NEW q \in Runners, SStep(q), NEW x \in Procs, pc[x] \notin Fresh
  PROVE  pc'[x] \notin Fresh
<1> USE DEF PushInv
<1>1. CASE q \in Procs /\ Upstream(q)
  BY <1>1, UpstreamPlaces DEF Fresh
<1>2. CASE q \in Procs /\ Push(q)
  BY <1>2, RunnerFacts DEF Push, Claim, Publish, TryBusy, PushDone, Goto, SType, Fresh
<1>3. ASSUME Leave(q) PROVE pc'[x] \notin Fresh
  BY <1>3, LeaveFacts DEF SType, Fresh
<1>4. CASE Drain(q)
  BY <1>3, <1>4 DEF Drain, Enter, Dequeue, Activate, Reduce, Release, Look, Late, FinishCache,
     ToIdle, Recheck, RecheckState, ReBusy
<1> QED BY <1>1, <1>2, <1>4 DEF SStep

\* A step changes where its own runner is, and that of the thread it answers on.
LEMMA PlaceStep ==
  ASSUME PushInv, NEW q \in Runners, SStep(q), NEW r \in Runners, at'[r] # at[r]
  PROVE  \/ r = q
         \/ /\ at[q] = "activate" /\ item[q] \in Async
            /\ r = Downstream(item[q]) /\ at'[r] = "reduce"
<1> USE DEF PushInv
<1>1. CASE q \in Procs /\ (Upstream(q) \/ Push(q))
  BY <1>1, RunnerFacts DEF Upstream, cacheVars, Push, Claim, Publish, TryBusy, PushDone, Move, SType
<1>2. ASSUME NEW place, Move(q, place) PROVE r = q
  BY <1>2 DEF Move, SType
<1>3. CASE Activate(q)
  <2>1. CASE item[q] \in Async
    BY <1>3, <2>1, RunnerFacts DEF Activate, SType
  <2>2. CASE item[q] \notin Async
    BY <1>2, <1>3, <2>2 DEF Activate
  <2> QED BY <2>1, <2>2
<1>4. CASE Drain(q) /\ ~Activate(q)
  BY <1>2, <1>4 DEF Drain, Enter, Dequeue, Dequeued, Reduce, Release, Look, Late, FinishCache,
     ToIdle, Recheck, RecheckState, ReBusy, Leave
<1> QED BY <1>1, <1>3, <1>4 DEF SStep

\* A process leaves the call of drain_single by returning from it.
LEMMA WithinStep ==
  ASSUME PushInv, NEW q \in Runners, SStep(q), NEW x \in Procs, pc[x] \in Within
  PROVE  pc'[x] = pc[x] \/ at'[x] = "out"
<1> USE DEF PushInv
<1>1. CASE q \in Procs /\ Upstream(q)
  BY <1>1, UpstreamPlaces DEF Fresh, Within
<1>2. CASE q \in Procs /\ Push(q)
  BY <1>2, RunnerFacts DEF Push, Claim, Publish, TryBusy, PushDone, Goto, SType, Within
<1>3. ASSUME Leave(q) PROVE pc'[x] = pc[x] \/ at'[x] = "out"
  BY <1>3, LeaveFacts, RunnerFacts DEF SType
<1>4. CASE Drain(q)
  BY <1>3, <1>4 DEF Drain, Enter, Dequeue, Activate, Reduce, Release, Look, Late, FinishCache,
     ToIdle, Recheck, RecheckState, ReBusy
<1> QED BY <1>1, <1>2, <1>4 DEF SStep

LEMMA LaunchStep ==
  ASSUME PushInv, NEW q \in Runners, SStep(q)
  PROVE  LaunchInv'
<1> USE DEF PushInv
<1>1. CASE q \in Procs /\ Upstream(q)
  BY <1>1, UpstreamPlaces, RunnerFacts DEF LaunchInv, cacheVars, SType, Elements, Fresh, Within
<1>2. ASSUME ~(q \in Procs /\ Upstream(q)) PROVE LaunchInv'
  <2>1. push_count' = push_count
    BY <1>2 DEF SStep, Push, Drain, Claim, Publish, TryBusy, PushDone, Enter, Dequeue, Activate, Reduce,
       Release, Look, Late, FinishCache, ToIdle, Recheck, RecheckState, ReBusy, KeepStream
  <2>2. \A e \in Elements : pc[e] = "idle" => pc'[e] = "idle"
    <3>1. CASE q \in Procs /\ Push(q)
      BY <3>1, RunnerFacts DEF Push, Claim, Publish, TryBusy, PushDone, Goto, SType
    <3>2. ASSUME Drain(q), Leave(q) PROVE \A e \in Elements : pc[e] = "idle" => pc'[e] = "idle"
      <4>1. at[q] # "out"
        BY <3>2 DEF Drain, Enter, Dequeue, Activate, Reduce, Release, Look, Late, FinishCache,
           ToIdle, Recheck, RecheckState, ReBusy
      <4>2. q \in Procs => pc[q] # "idle"
        BY <4>1 DEF LaunchInv, Within
      <4> QED BY <3>2, <4>2, LeaveFacts, RunnerFacts DEF SType
    <3>3. CASE Drain(q)
      BY <3>2, <3>3 DEF Drain, Enter, Dequeue, Activate, Reduce, Release, Look, Late, FinishCache,
         ToIdle, Recheck, RecheckState, ReBusy
    <3> QED BY <1>2, <3>1, <3>3 DEF SStep
  <2>3. ASSUME NEW p \in Procs, at'[p] # "out" PROVE pc'[p] \in Within
    <3>1. CASE at[p] # "out"
      BY <2>3, <3>1, WithinStep DEF LaunchInv
    <3>2. CASE at[p] = "out"
      <4>1. p = q
        BY <2>3, <3>2, PlaceStep, RunnerFacts DEF ItemInv
      <4>2. CASE Push(q)
        BY <2>3, <3>2, <4>1, <4>2, RunnerFacts DEF Push, Claim, Publish, TryBusy, PushDone, Goto, Move, SType, Within
      <4>3. ~Drain(q)
        BY <3>2, <4>1 DEF Drain, Enter, Dequeue, Activate, Reduce, Release, Look, Late, FinishCache,
           ToIdle, Recheck, RecheckState, ReBusy
      <4> QED BY <1>2, <4>2, <4>3 DEF SStep
    <3> QED BY <3>1, <3>2
  <2> QED BY <2>1, <2>2, <2>3 DEF LaunchInv
<1> QED BY <1>1, <1>2


\* ItemInv survives a step that brings no element into the cache or out of it
\* to be pushed, and starts no answering thread.
LEMMA ItemKept ==
  ASSUME PushInv, SType', NEW q \in Runners, SStep(q),
         \A j, k \in DOMAIN cache' : cache'[j].item = cache'[k].item => j = k,
         \A x \in Elements : InCache(x)' => InCache(x),
         \A x \in Elements : Taken(x)' => Taken(x) \/ (InCache(x) /\ ~InCache(x)'),
         \A r \in Runners : at'[r] = "activate" => item'[r] \in Elements,
         \A x \in Elements : at'[Downstream(x)] # "out" => at[Downstream(x)] # "out"
  PROVE  ItemInv'
<1>1. \A x \in Elements : pc[x] \notin Fresh => pc'[x] \notin Fresh
  BY FreshStep, RunnerFacts
<1>2. \A x \in Elements : InCache(x)' => ~Taken(x)'
  BY DEF PushInv, ItemInv
<1>3. \A x \in Elements : at'[Downstream(x)] # "out" => ~InCache(x)' /\ ~Taken(x)'
  BY DEF PushInv, ItemInv
<1> HIDE DEF InCache, Taken
<1> QED BY <1>1, <1>2, <1>3 DEF PushInv, ItemInv

\* At most one runner is about to push.
LEMMA OneTaker ==
  ASSUME PushInv, NEW q \in Runners, NEW r \in Runners, at[q] = "activate", at[r] = "activate"
  PROVE  q = r
  BY DEF PushInv, RightInv, HasRight, InsideRight, Answering

LEMMA ItemStep ==
  ASSUME PushInv, NEW q \in Runners, SStep(q)
  PROVE  ItemInv'
<1> USE DEF PushInv
<1>0. SType'
  BY TypeStep
<1>1. ASSUME UNCHANGED <<cache, item>>, at'[q] # "activate",
             \A x \in Elements : at'[Downstream(x)] # "out" => at[Downstream(x)] # "out"
      PROVE  ItemInv'
  <2>1. \A r \in Runners : at'[r] = "activate" => at[r] = "activate"
    BY <1>1, PlaceStep
  <2>2. \A x \in Elements : (InCache(x)' <=> InCache(x)) /\ (Taken(x)' => Taken(x))
    BY <1>1, <2>1 DEF InCache, Taken
  <2>3. /\ \A j, k \in DOMAIN cache' : cache'[j].item = cache'[k].item => j = k
        /\ \A r \in Runners : at'[r] = "activate" => item'[r] \in Elements
    BY <1>1, <2>1 DEF ItemInv
  <2> QED BY <1>0, <1>1, <2>2, <2>3, ItemKept
<1>2. CASE q \in Procs /\ Upstream(q)
  BY <1>2, FreshStep, RunnerFacts DEF Upstream, cacheVars, ItemInv, InCache, Taken
<1>3. CASE q \in Procs /\ (PushDone(q) \/ (q \in Elements /\ TryBusy(q)))
  <2>1. UNCHANGED <<cache, item>> /\ at' \in {at, [at EXCEPT ![q] = "enter"]}
    BY <1>3 DEF PushDone, TryBusy, KeepStream, Move
  <2>2. at[q] = "out"
    BY <1>3 DEF PushDone, TryBusy, LaunchInv, Within
  <2>3. at'[q] # "activate"
    BY <2>1, <2>2 DEF SType
  <2> QED BY <1>1, <1>3, <2>1, <2>3, RunnerFacts DEF SType
<1>4. CASE q \in Elements /\ Claim(q)
  <2>1. pc[q] = "flight" /\ UNCHANGED <<at, item>>
    BY <1>4 DEF Claim
  <2>2. ~InCache(q) /\ ~Taken(q) /\ at[Downstream(q)] = "out"
    BY <1>4, <2>1 DEF ItemInv, Fresh
  <2>3. CASE cache' = cache
    BY <1>0, <2>1, <2>3, ItemKept DEF InCache, Taken, ItemInv
  <2>4. CASE cache' = Append(cache, [item |-> q, ready |-> FALSE])
    <3>1. /\ DOMAIN cache = 1 .. Len(cache) /\ Len(cache) \in Nat
          /\ DOMAIN cache' = 1 .. Len(cache) + 1
          /\ \A k \in DOMAIN cache : cache'[k] = cache[k]
          /\ cache'[Len(cache) + 1].item = q
      <4> DEFINE Cells == [item : Elements, ready : BOOLEAN]
      <4>1. cache \in Seq(Cells) /\ [item |-> q, ready |-> FALSE] \in Cells
        BY <1>4 DEF SType
      <4> HIDE DEF Cells
      <4> QED BY <2>4, <4>1, AppendProperties, LenProperties
    <3>2. \A x \in Elements : InCache(x)' <=> InCache(x) \/ x = q
      BY <3>1 DEF InCache
    <3>3. \A j, k \in DOMAIN cache' : cache'[j].item = cache'[k].item => j = k
      BY <2>2, <3>1 DEF InCache, ItemInv
    <3>4. pc'[q] \notin Fresh
      BY <1>4, <2>4, <3>1, RunnerFacts DEF Claim, Goto, SType, Fresh
    <3>5. \A x \in Elements : pc[x] \notin Fresh => pc'[x] \notin Fresh
      BY FreshStep, RunnerFacts
    <3>6. \A x \in Elements : Taken(x)' <=> Taken(x)
      BY <2>1 DEF Taken
    <3> HIDE DEF InCache, Taken
    <3> QED BY <2>1, <2>2, <3>2, <3>3, <3>4, <3>5, <3>6 DEF ItemInv
  <2> QED BY <1>4, <2>3, <2>4 DEF Claim
<1>5. CASE q \in Elements /\ Publish(q)
  <2>1. UNCHANGED <<at, item>> /\ DOMAIN cache' = DOMAIN cache
    BY <1>5 DEF Publish
  <2>2. \A k \in DOMAIN cache : cache'[k].item = cache[k].item
    <3>1. \A k \in DOMAIN cache : cache[k] \in [item : Elements, ready : BOOLEAN]
      <4> DEFINE Cells == [item : Elements, ready : BOOLEAN]
      <4>1. cache \in Seq(Cells)
        BY DEF SType
      <4> HIDE DEF Cells
      <4>2. \A k \in DOMAIN cache : cache[k] \in Cells
        BY <4>1
      <4> QED BY <4>2 DEF Cells
    <3> QED BY <1>5, <3>1 DEF Publish
  <2> QED BY <1>0, <2>1, <2>2, ItemKept DEF InCache, Taken, ItemInv
<1>6. CASE Dequeue(q) \/ Late(q)
  <2>1. PICK missing \in {"look", "finish"} : Dequeued(q, "activate", missing)
    BY <1>6 DEF Dequeue, Late
  <2>2. at[q] \in {"dequeue", "late"}
    BY <1>6 DEF Dequeue, Late
  <2>3. CASE UNCHANGED <<cache, item>> /\ at' = [at EXCEPT ![q] = missing]
    <3>1. at'[q] # "activate"
      BY <2>3 DEF SType
    <3>2. \A x \in Elements : at'[Downstream(x)] # "out" => at[Downstream(x)] # "out"
      BY <2>2, <2>3 DEF SType
    <3> QED BY <1>1, <2>3, <3>1, <3>2
  <2>4. CASE cache # <<>> /\ cache' = Tail(cache) /\ item' = [item EXCEPT ![q] = cache[1].item]
             /\ at' = [at EXCEPT ![q] = "activate"]
    <3>1. \A j, k \in DOMAIN cache' : cache'[j].item = cache'[k].item => j = k
      BY <2>4, TailFacts DEF ItemInv
    <3>2. \A x \in Elements : InCache(x)' => InCache(x) /\ x # cache[1].item
      <4>1. DOMAIN cache' \subseteq Nat \ {0}
        BY <1>0, LenProperties DEF SType
      <4> QED BY <2>4, <4>1, TailFacts DEF InCache, ItemInv
    <3>3. InCache(cache[1].item) /\ cache[1].item \in Elements
      BY <2>4, TailFacts DEF InCache
    <3>4. /\ \A x \in Elements : Taken(x)' => Taken(x) \/ x = cache[1].item
          /\ \A r \in Runners : at'[r] = "activate" => item'[r] \in Elements
          /\ \A x \in Elements : at'[Downstream(x)] # "out" => at[Downstream(x)] # "out"
      BY <2>2, <2>4, <3>3 DEF Taken, ItemInv, SType
    <3> HIDE DEF InCache, Taken
    <3> QED BY <1>0, <3>1, <3>2, <3>3, <3>4, ItemKept
  <2> QED BY <2>1, <2>3, <2>4, DequeuedFacts
<1>7. CASE Activate(q)
  <2>1. at[q] = "activate" /\ item[q] \in Elements /\ Taken(item[q]) /\ cache' = cache
    BY <1>7 DEF Activate, ItemInv, Taken
  <2>2. at'[q] # "activate"
    BY <1>7, <2>1, RunnerFacts DEF Activate, Move, SType
  <2>3. CASE item[q] \notin Async
    <3>1. \A r \in Runners : at'[r] # at[r] => r = q
      BY <2>3, PlaceStep
    <3>2. \A x \in Elements : at'[Downstream(x)] # "out" => at[Downstream(x)] # "out"
      BY <2>1, <3>1, RunnerFacts
    <3>3. item' = item
      BY <1>7, <2>3 DEF Activate
    <3> QED BY <1>1, <2>1, <2>2, <3>2, <3>3
  <2>4. CASE item[q] \in Async
    <3> DEFINE y == item[q]
    <3>1. ~InCache(y) /\ pc[y] \notin Fresh
      BY <2>1 DEF ItemInv
    <3>2. \A r \in Runners : at'[r] # "activate"
      BY <2>1, <2>2, PlaceStep, OneTaker
    <3>3. \A x \in Elements : ~Taken(x)' /\ (InCache(x)' <=> InCache(x))
      BY <2>1, <3>2 DEF Taken, InCache
    <3>4. \A x \in Elements : at'[Downstream(x)] # "out" => x = y \/ at[Downstream(x)] # "out"
      BY <2>1, PlaceStep, RunnerFacts
    <3>5. \A x \in Elements : pc[x] \notin Fresh => pc'[x] \notin Fresh
      BY FreshStep, RunnerFacts
    <3> HIDE DEF InCache, Taken
    <3> QED BY <2>1, <3>1, <3>2, <3>3, <3>4, <3>5 DEF ItemInv
  <2> QED BY <2>3, <2>4
<1>8. CASE Drain(q) /\ ~(Dequeue(q) \/ Late(q) \/ Activate(q))
  <2>1. UNCHANGED <<cache, item>> /\ at[q] \notin {"out", "activate"}
    BY <1>8 DEF Drain, Enter, Reduce, Release, Look, FinishCache, ToIdle, Recheck, RecheckState,
       ReBusy, KeepStream
  <2>2. \A r \in Runners : at'[r] # at[r] => r = q
    BY <2>1, PlaceStep
  <2>3. at'[q] # "activate"
    BY <1>8 DEF Drain, Enter, Reduce, Release, Look, FinishCache, ToIdle, Recheck, RecheckState,
       ReBusy, Leave, Move, SType
  <2>4. \A x \in Elements : at'[Downstream(x)] # "out" => at[Downstream(x)] # "out"
    BY <2>1, <2>2, RunnerFacts
  <2> QED BY <1>1, <2>1, <2>3, <2>4
<1> QED BY <1>2, <1>3, <1>4, <1>5, <1>6, <1>7, <1>8 DEF SStep, Push


\* Only an answering pair shares the right: in every other place, or with
\* another drain_flag, the runner is alone.
LEMMA AloneFacts ==
  ASSUME SType, RightInv, FlagInv, NEW q \in Runners, HasRight(q)
  PROVE  /\ drain_flag # {"active"} => Alone(q)
         /\ at[q] \in {"dequeue", "activate", "look", "late", "finish", "toIdle"} =>
              drain_flag = {} /\ Alone(q)
         /\ at[q] = "reduce" /\ item[q] \notin Async => Alone(q)
  BY DEF RightInv, FlagInv, Alone, Answering

\* The right stays where it is.
LEMMA RightUnmoved ==
  ASSUME RightInv, FlagInv, UNCHANGED <<at, item, drain_flag>>,
         state' = state \/ state' # IDLE
  PROVE  RightInv' /\ FlagInv'
  BY DEF RightInv, FlagInv, HasRight, Answering

\* One runner has the right after the step, and no drain is active.
LEMMA RightAlone ==
  ASSUME SType', NEW q \in Runners, \A r \in Runners : HasRight(r)' => r = q,
         drain_flag' = {}, HasRight(q)' => state' # IDLE,
         at'[q] # "release", at'[q] = "reduce" => item'[q] \in Async
  PROVE  RightInv' /\ FlagInv'
  BY DEF RightInv, FlagInv, HasRight, InsideRight

\* A runner without the right moves on without it.
LEMMA RightElsewhere ==
  ASSUME SType, RightInv, FlagInv, NEW q \in Runners, ~HasRight(q), ~HasRight(q)',
         \A r \in Runners : at'[r] # at[r] => r = q, UNCHANGED <<item, drain_flag, state>>
  PROVE  RightInv' /\ FlagInv'
<1>1. \A r \in Runners : HasRight(r)' <=> HasRight(r)
  BY DEF HasRight
<1>2. \A r \in Runners : HasRight(r) => at'[r] = at[r]
  OBVIOUS
<1>3. \A r, w \in Runners : HasRight(r) /\ HasRight(w) => (Answering(r, w)' <=> Answering(r, w))
  BY <1>2 DEF Answering
<1>4. RightInv'
  BY <1>1, <1>3 DEF RightInv
<1>5. \A r, w \in Runners : Answering(r, w) => HasRight(r) /\ HasRight(w)
  BY DEF Answering, HasRight, InsideRight
<1>6. ASSUME NEW r \in Runners, HasRight(r)
      PROVE  /\ at'[r] = at[r]
             /\ (\E w \in Runners : w # r /\ Answering(w, r)) =>
                  (\E w \in Runners : w # r /\ Answering(w, r)')
             /\ (\E w \in Runners : w # r /\ Answering(r, w)) =>
                  (\E w \in Runners : w # r /\ Answering(r, w)')
  BY <1>2, <1>3, <1>5, <1>6
<1>7. FlagInv'
  <2> SUFFICES ASSUME NEW r \in Runners, HasRight(r)
      PROVE
        /\ at'[r] \in {"dequeue", "activate", "look", "late", "finish", "toIdle"} =>
             drain_flag' = {}
        /\ at'[r] = "reduce" /\ item'[r] \notin Async => drain_flag' = {"active"}
        /\ at'[r] = "enter" \/ (at'[r] = "reduce" /\ item'[r] \in Async) =>
             drain_flag' = {} \/ \E w \in Runners : w # r /\ Answering(w, r)'
        /\ at'[r] = "release" =>
             \/ drain_flag' = {"active", "requested"}
             \/ drain_flag' = {"active"} /\ \E w \in Runners : w # r /\ Answering(r, w)'
    BY <1>1 DEF FlagInv, HasRight, InsideRight
  <2>1. at'[r] = at[r] /\ UNCHANGED <<item, drain_flag>>
    BY <1>6
  <2>2. /\ (\E w \in Runners : w # r /\ Answering(w, r)) =>
             (\E w \in Runners : w # r /\ Answering(w, r)')
        /\ (\E w \in Runners : w # r /\ Answering(r, w)) =>
             (\E w \in Runners : w # r /\ Answering(r, w)')
    BY <1>6
  <2> HIDE DEF Answering
  <2> QED BY <2>1, <2>2 DEF FlagInv
<1> QED BY <1>4, <1>7

LEMMA RightStep ==
  ASSUME PushInv, NEW q \in Runners, SStep(q)
  PROVE  RightInv' /\ FlagInv'
<1> USE DEF PushInv
<1>0. SType'
  BY TypeStep
<1>1. CASE q \in Procs /\ (Upstream(q) \/ (q \in Elements /\ (Claim(q) \/ Publish(q))))
  BY <1>1, RightUnmoved DEF Upstream, cacheVars, Claim, Publish
<1>2. CASE q \in Procs /\ ((q \in Elements /\ TryBusy(q)) \/ PushDone(q))
  <2>1. CASE state = IDLE
    <3>1. \A r \in Runners : ~HasRight(r)
      BY <2>1 DEF RightInv
    <3>2. drain_flag = {}
      BY <3>1 DEF RightInv
    <3>3. at' = [at EXCEPT ![q] = "enter"] /\ drain_flag' = drain_flag /\ state' # IDLE
      BY <1>2, <2>1 DEF TryBusy, PushDone, Move, IDLE, BUSY, DONE
    <3>4. at'[q] = "enter" /\ \A r \in Runners : HasRight(r)' => r = q
      BY <3>1, <3>3 DEF HasRight, SType
    <3> QED BY <1>0, <3>2, <3>3, <3>4, RightAlone
  <2>2. CASE state # IDLE
    BY <1>2, <2>2, RightUnmoved DEF TryBusy, PushDone, IDLE, DONE
  <2> QED BY <2>1, <2>2
<1>3. CASE Drain(q) /\ at[q] \in {"dequeue", "look", "late", "finish", "toIdle"}
  <2>1. drain_flag = {} /\ Alone(q) /\ state # IDLE
    BY <1>3, AloneFacts DEF HasRight, InsideRight, RightInv
  <2>2. \A r \in Runners : HasRight(r)' => r = q
    BY <1>3, <2>1, PlaceStep DEF HasRight, Alone
  <2>3. drain_flag' = {}
    BY <1>3, <2>1 DEF Drain, Enter, Dequeue, Activate, Reduce, Release, Look, Late, FinishCache,
       ToIdle, Recheck, RecheckState, ReBusy
  <2>4. at'[q] \in {"activate", "look", "finish", "late", "toIdle", "dequeue", "recheck", "out"}
    <3>1. CASE Dequeue(q) \/ Late(q)
      BY <3>1 DEF Dequeue, Late, Dequeued, Move, SType
    <3>2. CASE Look(q) \/ FinishCache(q) \/ ToIdle(q)
      BY <3>2 DEF Look, FinishCache, ToIdle, Leave, Move, SType
    <3> QED BY <1>3, <3>1, <3>2 DEF Drain, Enter, Activate, Reduce, Release, Recheck,
            RecheckState, ReBusy
  <2>5. HasRight(q)' => state' # IDLE
    <3>1. CASE ToIdle(q)
      BY <2>1, <3>1 DEF ToIdle, Move, HasRight, InsideRight, SType
    <3>2. CASE ~ToIdle(q)
      BY <1>3, <2>1, <3>2 DEF Drain, Enter, Dequeue, Activate, Reduce, Release, Look, Late, FinishCache,
         Recheck, RecheckState, ReBusy, KeepStream, IDLE, TERMINAL
    <3> QED BY <3>1, <3>2
  <2> QED BY <1>0, <2>2, <2>3, <2>4, <2>5, RightAlone
<1>4. CASE Recheck(q) \/ RecheckState(q) \/ (ReBusy(q) /\ state # IDLE)
  <2>1. ~HasRight(q) /\ UNCHANGED <<item, drain_flag, state>>
    BY <1>4 DEF Recheck, RecheckState, ReBusy, HasRight, InsideRight
  <2>2. ~HasRight(q)'
    BY <1>4 DEF Recheck, RecheckState, ReBusy, HasRight, InsideRight, Move, Leave, SType
  <2>3. \A r \in Runners : at'[r] # at[r] => r = q
    BY <2>1, PlaceStep DEF HasRight, InsideRight
  <2> QED BY <2>1, <2>2, <2>3, RightElsewhere
<1>5. CASE ReBusy(q) /\ state = IDLE
  <2>1. \A r \in Runners : ~HasRight(r)
    BY <1>5 DEF RightInv
  <2>2. drain_flag = {}
    BY <2>1 DEF RightInv
  <2>3. at' = [at EXCEPT ![q] = "dequeue"] /\ drain_flag' = drain_flag /\ state' # IDLE
    BY <1>5 DEF ReBusy, Move, IDLE, BUSY
  <2>4. at'[q] = "dequeue" /\ \A r \in Runners : HasRight(r)' => r = q
    BY <2>1, <2>3 DEF HasRight, SType
  <2> QED BY <1>0, <2>2, <2>3, <2>4, RightAlone
<1>6. CASE Enter(q)
  <2>1. at[q] = "enter" /\ HasRight(q) /\ state # IDLE /\ UNCHANGED <<item, state>>
    BY <1>6 DEF Enter, HasRight, InsideRight, RightInv
  <2>2. \A r \in Runners : at'[r] # at[r] => r = q
    BY <2>1, PlaceStep
  <2>3. CASE "active" \in drain_flag
    <3>1. PICK r \in Runners : r # q /\ Answering(r, q)
      BY <2>1, <2>3 DEF FlagInv
    <3>2. at[r] = "release" /\ drain_flag = {"active"}
      BY <3>1 DEF Answering
    <3>3. at' = [at EXCEPT ![q] = "out"] /\ drain_flag' = {"active", "requested"}
      BY <1>6, <2>3, <3>2 DEF Enter, Leave, Move
    <3>4. \A w \in Runners : HasRight(w) => w = q \/ w = r
      BY <2>1, <3>1, <3>2 DEF RightInv, Answering, HasRight, InsideRight
    <3>5. \A w \in Runners : HasRight(w)' => w = r
      BY <3>3, <3>4 DEF HasRight, InsideRight, SType
    <3>6. at'[r] = "release"
      BY <3>1, <3>2, <3>3 DEF SType
    <3> QED BY <2>1, <3>3, <3>5, <3>6 DEF RightInv, FlagInv, HasRight, InsideRight
  <2>4. CASE "active" \notin drain_flag
    <3>1. drain_flag = {}
      BY <2>1, <2>4 DEF FlagInv, Answering
    <3>2. \A w \in Runners : HasRight(w)' => w = q
      BY <2>1, <2>2, <3>1, AloneFacts DEF HasRight, Alone
    <3>3. at'[q] = "dequeue" /\ drain_flag' = {}
      BY <1>6, <2>4, <3>1 DEF Enter, Move, SType
    <3> QED BY <1>0, <2>1, <3>2, <3>3, RightAlone
  <2> QED BY <2>3, <2>4
<1>7. CASE Activate(q)
  <2>1. at[q] = "activate" /\ HasRight(q) /\ Alone(q) /\ state # IDLE /\ state' = state
        /\ drain_flag' = {"active"}
    BY <1>7, AloneFacts DEF Activate, HasRight, InsideRight, RightInv
  <2>2. CASE item[q] \notin Async
    <3>1. at' = [at EXCEPT ![q] = "reduce"] /\ item' = item
      BY <1>7, <2>2 DEF Activate, Move
    <3>2. at'[q] = "reduce" /\ \A r \in Runners : HasRight(r)' => r = q
      BY <2>1, <3>1 DEF HasRight, Alone, SType
    <3> QED BY <2>1, <2>2, <3>1, <3>2 DEF RightInv, FlagInv, HasRight, InsideRight
  <2>3. CASE item[q] \in Async
    <3>1. item[q] \in Elements /\ Taken(item[q])
      BY <2>1 DEF ItemInv, Taken
    <3>2. PICK d \in Runners : d = Downstream(item[q]) /\ d # q
      BY <2>1, <3>1, RunnerFacts DEF ItemInv
    <3>3. at' = [at EXCEPT ![q] = "release", ![d] = "reduce"] /\ item' = [item EXCEPT ![d] = item[q]]
      BY <1>7, <2>3, <3>2 DEF Activate
    <3>4. /\ at'[q] = "release" /\ at'[d] = "reduce" /\ item'[d] \in Async
          /\ \A r \in Runners : HasRight(r)' => r = q \/ r = d
      BY <2>1, <2>3, <3>2, <3>3 DEF HasRight, Alone, SType
    <3>5. Answering(q, d)'
      BY <2>1, <3>4 DEF Answering
    <3>6. RightInv'
      BY <2>1, <3>2, <3>4, <3>5 DEF RightInv, HasRight, InsideRight
    <3>7. FlagInv'
      <4>1. \A r \in Runners : r = q \/ r = d \/ at'[r] \notin InsideRight
        BY <3>4 DEF HasRight
      <4> HIDE DEF Answering
      <4> QED BY <2>1, <3>2, <3>4, <3>5, <4>1 DEF FlagInv, InsideRight
    <3> QED BY <3>6, <3>7
  <2> QED BY <2>2, <2>3
<1>8. CASE Reduce(q)
  <2>1. at[q] = "reduce" /\ HasRight(q) /\ state # IDLE /\ UNCHANGED <<item, state>>
    BY <1>8 DEF Reduce, HasRight, InsideRight, RightInv
  <2>2. CASE item[q] \in Async
    <3>1. at' = [at EXCEPT ![q] = "enter"] /\ drain_flag' = drain_flag
      BY <1>8, <2>2 DEF Reduce, Move
    <3>2. \A r \in Runners : HasRight(r)' <=> HasRight(r)
      BY <2>1, <3>1 DEF HasRight, InsideRight, SType
    <3>3. \A r, w \in Runners : Answering(r, w)' <=> Answering(r, w)
      BY <2>1, <2>2, <3>1 DEF Answering, SType
    <3>4. RightInv'
      BY <2>1, <3>1, <3>2, <3>3 DEF RightInv
    <3>5. FlagInv'
      <4>1. at'[q] = "enter" /\ \A r \in Runners : r # q => at'[r] = at[r]
        BY <3>1 DEF SType
      <4> HIDE DEF Answering
      <4>2. drain_flag = {} \/ \E r \in Runners : r # q /\ Answering(r, q)'
        BY <2>1, <2>2, <3>3 DEF FlagInv
      <4>3. \A r \in Runners :
              /\ (\E w \in Runners : w # r /\ Answering(w, r)) =>
                   (\E w \in Runners : w # r /\ Answering(w, r)')
              /\ (\E w \in Runners : w # r /\ Answering(r, w)) =>
                   (\E w \in Runners : w # r /\ Answering(r, w)')
        BY <3>3
      <4> QED BY <2>1, <3>1, <4>1, <4>2, <4>3 DEF FlagInv
    <3> QED BY <3>4, <3>5
  <2>3. CASE item[q] \notin Async
    <3>1. Alone(q) /\ drain_flag = {"active"}
      BY <2>1, <2>3, AloneFacts DEF FlagInv
    <3>2. at' = [at EXCEPT ![q] = "release"] /\ drain_flag' = {"active", "requested"}
      BY <1>8, <2>3, <3>1 DEF Reduce, Move
    <3>3. at'[q] = "release" /\ \A r \in Runners : HasRight(r)' => r = q
      BY <3>1, <3>2 DEF HasRight, Alone, SType
    <3> QED BY <2>1, <3>2, <3>3 DEF RightInv, FlagInv, HasRight, InsideRight
  <2> QED BY <2>2, <2>3
<1>9. CASE Release(q)
  <2>1. at[q] = "release" /\ HasRight(q) /\ state # IDLE /\ UNCHANGED <<item, state>>
        /\ drain_flag' = {}
    BY <1>9 DEF Release, HasRight, InsideRight, RightInv
  <2>2. \A r \in Runners : at'[r] # at[r] => r = q
    BY <2>1, PlaceStep
  <2>3. CASE "requested" \in drain_flag
    <3>1. Alone(q)
      BY <2>1, <2>3, AloneFacts
    <3>2. at'[q] = "dequeue" /\ \A r \in Runners : HasRight(r)' => r = q
      BY <1>9, <2>2, <2>3, <3>1 DEF Release, Move, HasRight, Alone, SType
    <3> QED BY <1>0, <2>1, <3>2, RightAlone
  <2>4. CASE "requested" \notin drain_flag
    <3>1. PICK r \in Runners : r # q /\ Answering(q, r)
      BY <2>1, <2>4 DEF FlagInv
    <3>2. at'[q] = "out"
      BY <1>9, <2>4 DEF Release, Leave, Move, SType
    <3>3. \A w \in Runners : HasRight(w) => w = q \/ w = r
      BY <2>1, <3>1 DEF RightInv, Answering, HasRight, InsideRight
    <3>4. \A w \in Runners : HasRight(w)' => w = r
      BY <2>2, <3>2, <3>3 DEF HasRight, InsideRight
    <3>5. at'[r] = at[r] /\ (at[r] = "enter" \/ (at[r] = "reduce" /\ item[r] \in Async))
      BY <2>2, <3>1 DEF Answering
    <3> QED BY <1>0, <2>1, <3>4, <3>5, RightAlone
  <2> QED BY <2>3, <2>4
<1>10. CASE Drain(q)
  <2>1. CASE Dequeue(q) \/ Look(q) \/ Late(q) \/ FinishCache(q) \/ ToIdle(q)
    <3>1. at[q] \in {"dequeue", "look", "late", "finish", "toIdle"}
      BY <2>1 DEF Dequeue, Look, Late, FinishCache, ToIdle
    <3> QED BY <1>3, <1>10, <3>1
  <2>2. CASE ~(Dequeue(q) \/ Look(q) \/ Late(q) \/ FinishCache(q) \/ ToIdle(q))
    BY <1>4, <1>5, <1>6, <1>7, <1>8, <1>9, <1>10, <2>2 DEF Drain
  <2> QED BY <2>1, <2>2
<1> QED BY <1>1, <1>2, <1>10 DEF SStep, Push


-----------------------------------------------------------------------------
(* PushInv holds throughout: it is what the places in drain_single mean.   *)
THEOREM PushInvHolds == SSpec => []PushInv
<1>1. SInit => PushInv
  BY InitPushInv
<1>2. PushInv /\ [SNext]_allVars => PushInv'
  <2> SUFFICES ASSUME PushInv, [SNext]_allVars PROVE PushInv'
    OBVIOUS
  <2>1. CASE SNext
    <3>1. PICK q \in Runners : SStep(q)
      BY <2>1 DEF SNext
    <3> QED BY <3>1, TypeStep, LaunchStep, ItemStep, RightStep DEF PushInv
  <2>2. CASE UNCHANGED allVars
    BY <2>2 DEF allVars, vars, cacheVars, PushInv, SType, LaunchInv, ItemInv, InCache, Taken,
       RightInv, FlagInv, HasRight, Answering
  <2> QED BY <2>1, <2>2
<1> QED BY <1>1, <1>2, PTL DEF SSpec

(* sequential pushes one element at a time, for any number of elements,    *)
(* any bound on the concurrency, any cache size and any set of elements    *)
(* that are answered on another thread.                                    *)
THEOREM OnePushAtATime == SSpec => []OneDownstream
<1>1. PushInv => OneDownstream
  BY DEF PushInv, RightInv, OneDownstream, Busy, HasRight, InsideRight, Answering
<1> QED BY <1>1, PushInvHolds, PTL

(* While the state word says idle nobody is in the part of drain_single    *)
(* that takes from the cache and pushes: taking the word is taking the     *)
(* right.                                                                  *)
THEOREM IdleMeansNobody ==
  SSpec => [](state = IDLE => \A q \in Runners : at[q] \notin InsideRight)
<1>1. PushInv => (state = IDLE => \A q \in Runners : at[q] \notin InsideRight)
  BY DEF PushInv, RightInv, HasRight
<1> QED BY <1>1, PushInvHolds, PTL


-----------------------------------------------------------------------------
(***************************************************************************)
(* The order of the pushes.  The elements that claimed a slot are, oldest  *)
(* first, those reduced, the one downstream if there is one, and those in  *)
(* the cache.                                                              *)
(***************************************************************************)
Taking == IF \E q \in Runners : Busy(q) THEN 1 ELSE 0

OrderInv ==
  /\ arrivals \in Seq(Elements) /\ order \in Seq(Elements)
  /\ \A q \in Runners : Busy(q) => item[q] \in Elements
  /\ Len(arrivals) = Len(order) + Taking + Len(cache)
  /\ \A k \in 1 .. Len(order) : arrivals[k] = order[k]
  /\ \A q \in Runners : Busy(q) => arrivals[Len(order) + 1] = item[q]
  /\ \A k \in 1 .. Len(cache) : arrivals[Len(order) + Taking + k] = cache[k].item

LEMMA LengthFacts ==
  ASSUME PushInv, OrderInv
  PROVE  /\ Len(arrivals) \in Nat /\ Len(order) \in Nat /\ Len(cache) \in Nat
         /\ Taking \in {0, 1} /\ DOMAIN cache = 1 .. Len(cache)
<1>1. Len(arrivals) \in Nat /\ Len(order) \in Nat
  BY LenProperties DEF OrderInv
<1>2. Len(cache) \in Nat /\ DOMAIN cache = 1 .. Len(cache)
  BY LenProperties DEF PushInv, SType
<1> QED BY <1>1, <1>2 DEF Taking

\* A step that adds no element, takes none and reduces none.
LEMMA OrderUnmoved ==
  ASSUME OrderInv, UNCHANGED <<arrivals, order>>, Len(cache') = Len(cache),
         \A k \in 1 .. Len(cache) : cache'[k].item = cache[k].item,
         \A q \in Runners : Busy(q)' => \E r \in Runners : Busy(r) /\ item'[q] = item[r],
         \A q \in Runners : Busy(q) => \E r \in Runners : Busy(r)'
  PROVE  OrderInv'
<1>1. Taking' = Taking
  BY DEF Taking
<1> HIDE DEF Busy, Taking
<1> QED BY <1>1 DEF OrderInv

LEMMA InitOrderInv == SInit => OrderInv
<1> SUFFICES ASSUME SInit PROVE OrderInv
  OBVIOUS
<1>1. arrivals = <<>> /\ order = <<>> /\ cache = <<>> /\ \A q \in Runners : ~Busy(q)
  BY DEF SInit, Busy
<1>2. Len(arrivals) = 0 /\ Len(order) = 0 /\ Len(cache) = 0
  BY <1>1, EmptySeq
<1>3. arrivals \in Seq(Elements) /\ order \in Seq(Elements)
  BY <1>1, EmptySeq
<1>4. Taking = 0
  BY <1>1 DEF Taking
<1> HIDE DEF Busy, Taking
<1> QED BY <1>1, <1>2, <1>3, <1>4 DEF OrderInv

LEMMA OrderStep ==
  ASSUME PushInv, PushInv', OrderInv, NEW q \in Runners, SStep(q)
  PROVE  OrderInv'
<1>0. /\ Len(arrivals) \in Nat /\ Len(order) \in Nat /\ Len(cache) \in Nat
      /\ Taking \in {0, 1} /\ DOMAIN cache = 1 .. Len(cache)
  BY LengthFacts
<1>1. CASE q \in Procs /\ Upstream(q)
  BY <1>1, OrderUnmoved DEF Upstream, cacheVars, Busy
<1>2. CASE q \in Elements /\ Claim(q)
  <2>1. CASE UNCHANGED <<cache, arrivals>>
    BY <1>2, <2>1, OrderUnmoved DEF Claim, Busy
  <2>2. CASE cache' = Append(cache, [item |-> q, ready |-> FALSE]) /\ arrivals' = Append(arrivals, q)
    <3>1. /\ Len(cache') = Len(cache) + 1 /\ cache'[Len(cache) + 1].item = q
          /\ \A k \in 1 .. Len(cache) : cache'[k] = cache[k]
      <4> DEFINE Cells == [item : Elements, ready : BOOLEAN]
      <4>1. cache \in Seq(Cells) /\ [item |-> q, ready |-> FALSE] \in Cells
        BY <1>2 DEF PushInv, SType
      <4> HIDE DEF Cells
      <4> QED BY <2>2, <4>1, AppendProperties
    <3>2. /\ arrivals' \in Seq(Elements) /\ Len(arrivals') = Len(arrivals) + 1
          /\ arrivals'[Len(arrivals) + 1] = q
          /\ \A k \in 1 .. Len(arrivals) : arrivals'[k] = arrivals[k]
      BY <1>2, <2>2, AppendProperties DEF OrderInv
    <3>3. UNCHANGED <<order, item>> /\ (\A r \in Runners : Busy(r)' <=> Busy(r)) /\ Taking' = Taking
      BY <1>2 DEF Claim, Busy, Taking
    <3>4. \A r \in Runners : Busy(r) => Taking = 1
      BY DEF Taking
    <3> HIDE DEF Busy, Taking
    <3>5. Len(arrivals') = Len(order') + Taking' + Len(cache')
      BY <1>0, <3>1, <3>2, <3>3 DEF OrderInv
    <3>6. \A k \in 1 .. Len(order') : arrivals'[k] = order'[k]
      BY <1>0, <3>2, <3>3 DEF OrderInv
    <3>7. \A r \in Runners : Busy(r)' => arrivals'[Len(order') + 1] = item'[r] /\ item'[r] \in Elements
      BY <1>0, <3>2, <3>3, <3>4 DEF OrderInv
    <3>8. ASSUME NEW k \in 1 .. Len(cache')
          PROVE  arrivals'[Len(order') + Taking' + k] = cache'[k].item
      <4>1. CASE k = Len(cache) + 1
        BY <1>0, <3>1, <3>2, <3>3, <4>1 DEF OrderInv
      <4>2. CASE k \in 1 .. Len(cache)
        <5>1. Len(order) + Taking + k \in 1 .. Len(arrivals)
          BY <1>0, <4>2 DEF OrderInv
        <5> QED BY <3>1, <3>2, <3>3, <4>2, <5>1 DEF OrderInv
      <4> QED BY <1>0, <3>1, <4>1, <4>2
    <3>9. order' \in Seq(Elements)
      BY <3>3 DEF OrderInv
    <3> QED BY <3>2, <3>5, <3>6, <3>7, <3>8, <3>9 DEF OrderInv
  <2> QED BY <1>2, <2>1, <2>2 DEF Claim
<1>3. CASE q \in Elements /\ Publish(q)
  <2>1. \A k \in 1 .. Len(cache) : cache[k] \in [item : Elements, ready : BOOLEAN]
    BY ElementOfSeq DEF PushInv, SType
  <2>2. \A k \in 1 .. Len(cache) : cache'[k].item = cache[k].item
    BY <1>0, <1>3, <2>1 DEF Publish
  <2>3. Len(cache') = Len(cache)
    <3>1. DOMAIN cache' = 1 .. Len(cache') /\ Len(cache') \in Nat
      BY LenProperties DEF PushInv, SType
    <3>2. DOMAIN cache' = DOMAIN cache
      BY <1>3 DEF Publish
    <3>3. \A m, n \in Nat : 1 .. m = 1 .. n => m = n
      <4> SUFFICES ASSUME NEW m \in Nat, NEW n \in Nat, m < n, 1 .. m = 1 .. n PROVE FALSE
        OBVIOUS
      <4>1. n \in 1 .. n /\ n \notin 1 .. m
        OBVIOUS
      <4> QED BY <4>1
    <3> QED BY <1>0, <3>1, <3>2, <3>3
  <2> QED BY <1>3, <2>2, <2>3, OrderUnmoved DEF Publish, Busy
<1>4. CASE Dequeue(q) \/ Late(q)
  <2>1. PICK missing \in {"look", "finish"} : Dequeued(q, "activate", missing)
    BY <1>4 DEF Dequeue, Late
  <2>2. at[q] \in {"dequeue", "late"} /\ UNCHANGED <<arrivals, order>>
    BY <1>4 DEF Dequeue, Late
  <2>3. \A r \in Runners : ~Busy(r)
    BY <2>2, AloneFacts DEF PushInv, HasRight, InsideRight, Alone, Busy
  <2>4. CASE UNCHANGED <<cache, item>> /\ at' = [at EXCEPT ![q] = missing]
    <3>1. \A r \in Runners : ~Busy(r)'
      BY <2>3, <2>4 DEF Busy, PushInv, SType
    <3> HIDE DEF Busy
    <3> QED BY <2>2, <2>3, <2>4, <3>1, OrderUnmoved
  <2>5. CASE cache # <<>> /\ cache' = Tail(cache) /\ item' = [item EXCEPT ![q] = cache[1].item]
             /\ at' = [at EXCEPT ![q] = "activate"]
    <3>1. /\ Busy(q)' /\ item'[q] = cache[1].item
          /\ \A r \in Runners : Busy(r)' => r = q
      BY <2>3, <2>5 DEF Busy, PushInv, SType
    <3>2. /\ Len(cache') = Len(cache) - 1 /\ cache[1].item \in Elements /\ Len(cache) # 0
          /\ \A k \in 1 .. Len(cache') : cache'[k] = cache[k + 1]
      <4>1. SType
        BY DEF PushInv
      <4>2. cache[1].item \in Elements /\ 1 \in DOMAIN cache
        BY <2>5, <4>1, TailFacts
      <4>3. Len(Tail(cache)) = Len(cache) - 1
            /\ \A k \in 1 .. Len(Tail(cache)) : Tail(cache)[k] = cache[k + 1]
        BY <2>5, <4>1, HeadTailProperties DEF SType
      <4> QED BY <1>0, <2>5, <4>2, <4>3
    <3>3. Taking = 0 /\ Taking' = 1
      BY <2>3, <3>1 DEF Taking
    <3>4. arrivals[Len(order) + 1] = cache[1].item
      BY <1>0, <3>2, <3>3 DEF OrderInv
    <3>5. \A k \in 1 .. Len(cache') : arrivals[Len(order) + 1 + k] = cache'[k].item
      BY <1>0, <3>2, <3>3 DEF OrderInv
    <3> HIDE DEF Busy, Taking
    <3>6. Len(arrivals') = Len(order') + Taking' + Len(cache')
      <4>1. Len(arrivals) = Len(order) + Taking + Len(cache)
        BY DEF OrderInv
      <4>2. Len(arrivals') = Len(arrivals) /\ Len(order') = Len(order)
        BY <2>2
      <4>3. Len(cache') = Len(cache) - 1
        BY <3>2
      <4> QED BY <1>0, <3>3, <4>1, <4>2, <4>3
    <3>7. \A r \in Runners : Busy(r)' => arrivals'[Len(order') + 1] = item'[r] /\ item'[r] \in Elements
      BY <2>2, <3>1, <3>2, <3>4
    <3>8. \A k \in 1 .. Len(cache') : arrivals'[Len(order') + Taking' + k] = cache'[k].item
      BY <2>2, <3>3, <3>5
    <3> QED BY <2>2, <3>6, <3>7, <3>8 DEF OrderInv
  <2> QED BY <2>1, <2>4, <2>5, DequeuedFacts DEF PushInv
<1>5. CASE Activate(q)
  <2>1. Busy(q) /\ UNCHANGED <<cache, arrivals, order>>
    BY <1>5 DEF Activate, Busy
  <2>2. PICK d \in Runners :
          /\ at'[d] = "reduce" /\ item'[d] = item[q]
          /\ \A r \in Runners : r # d => (Busy(r)' => Busy(r) /\ r # q)
    <3>1. CASE item[q] \in Async
      <4>1. Downstream(item[q]) \in Runners
        BY <3>1, RunnerFacts
      <4> QED BY <1>5, <3>1, <4>1 DEF Activate, Busy, PushInv, SType
    <3>2. CASE item[q] \notin Async
      BY <1>5, <3>2 DEF Activate, Move, Busy, PushInv, SType
    <3> QED BY <3>1, <3>2
  <2>3. \A r \in Runners : Busy(r)' => r = d
    <3>1. \A r \in Runners : Busy(r) => r = q
      BY <2>1, <1>5, AloneFacts DEF Activate, PushInv, HasRight, InsideRight, Alone, Busy
    <3> QED BY <2>2, <3>1
  <2>4. Busy(d)'
    BY <2>2 DEF Busy
  <2> HIDE DEF Busy
  <2> QED BY <2>1, <2>2, <2>3, <2>4, OrderUnmoved
<1>6. CASE Reduce(q)
  <2>1. Busy(q) /\ UNCHANGED <<cache, arrivals, item>> /\ order' = Append(order, item[q])
    BY <1>6 DEF Reduce, Busy
  <2>2. \A r \in Runners : Busy(r) => r = q
    BY <2>1 DEF PushInv, RightInv, Busy, HasRight, InsideRight, Answering
  <2>3. \A r \in Runners : ~Busy(r)'
    <3>1. at'[q] \in {"enter", "release"} /\ \A r \in Runners : r # q => at'[r] = at[r]
      BY <1>6 DEF Reduce, Move, PushInv, SType
    <3> QED BY <2>2, <3>1 DEF Busy
  <2>4. Taking = 1 /\ Taking' = 0
    BY <2>1, <2>3 DEF Taking
  <2>5. /\ order' \in Seq(Elements) /\ Len(order') = Len(order) + 1
        /\ order'[Len(order) + 1] = item[q]
        /\ \A k \in 1 .. Len(order) : order'[k] = order[k]
    BY <2>1, AppendProperties DEF OrderInv
  <2> HIDE DEF Busy, Taking
  <2> QED BY <1>0, <2>1, <2>3, <2>4, <2>5 DEF OrderInv
<1>7. CASE (q \in Procs /\ (PushDone(q) \/ (q \in Elements /\ TryBusy(q))))
           \/ Enter(q) \/ Release(q) \/ Look(q) \/ FinishCache(q) \/ ToIdle(q) \/ Recheck(q)
           \/ RecheckState(q) \/ ReBusy(q)
  <2>1. UNCHANGED <<cache, item, arrivals, order>>
    BY <1>7 DEF PushDone, TryBusy, Enter, Release, Look, FinishCache, ToIdle, Recheck,
       RecheckState, ReBusy
  <2>2. at[q] \notin {"activate", "reduce"}
    BY <1>7 DEF PushDone, TryBusy, Enter, Release, Look, FinishCache, ToIdle, Recheck,
       RecheckState, ReBusy, PushInv, LaunchInv, Within
  <2>3. at'[q] \notin {"activate", "reduce"}
    <3>1. CASE q \in Procs /\ (PushDone(q) \/ (q \in Elements /\ TryBusy(q)))
      BY <2>2, <3>1 DEF PushDone, TryBusy, Move, PushInv, SType
    <3> QED BY <1>7, <3>1 DEF Enter, Release, Look, FinishCache, ToIdle, Recheck,
            RecheckState, ReBusy, Leave, Move, PushInv, SType
  <2>4. \A r \in Runners : at'[r] # at[r] => r = q
    BY <2>2, PlaceStep
  <2>5. \A r \in Runners : Busy(r)' <=> Busy(r)
    BY <2>2, <2>3, <2>4 DEF Busy
  <2> HIDE DEF Busy
  <2> QED BY <2>1, <2>5, OrderUnmoved
<1> QED BY <1>1, <1>2, <1>3, <1>4, <1>5, <1>6, <1>7 DEF SStep, Push, Drain

THEOREM OrderInvHolds == SSpec => []OrderInv
<1>1. SInit => OrderInv
  BY InitOrderInv
<1>2. PushInv /\ PushInv' /\ OrderInv /\ [SNext]_allVars => OrderInv'
  <2> SUFFICES ASSUME PushInv, PushInv', OrderInv, [SNext]_allVars PROVE OrderInv'
    OBVIOUS
  <2>1. CASE SNext
    BY <2>1, OrderStep DEF SNext
  <2>2. CASE UNCHANGED allVars
    BY <2>2 DEF allVars, cacheVars, OrderInv, Taking, Busy
  <2> QED BY <2>1, <2>2
<1> QED BY <1>1, <1>2, PushInvHolds, PTL DEF SSpec

(* The reducer sees the elements in the order in which they claimed their  *)
(* place in the cache, whatever the answering threads and the late pushes  *)
(* do.                                                                     *)
THEOREM PushedInOrder == SSpec => []OrderKept
<1>1. PushInv /\ OrderInv => OrderKept
  <2> SUFFICES ASSUME PushInv, OrderInv PROVE OrderKept
    OBVIOUS
  <2>1. Len(order) \in Nat /\ Len(arrivals) \in Nat /\ Len(order) <= Len(arrivals)
    BY LengthFacts DEF OrderInv
  <2>2. \A k \in 1 .. Len(order) :
          /\ order[k] \in Elements /\ arrivals[k] \in Elements /\ arrivals[k] = order[k]
    BY <2>1, ElementOfSeq DEF OrderInv
  <2>3. /\ SubSeq(order, 1, Len(order)) \in Seq(Elements)
        /\ Len(SubSeq(order, 1, Len(order))) = Len(order)
        /\ \A k \in 1 .. Len(order) : SubSeq(order, 1, Len(order))[k] = order[k]
    BY <2>1, <2>2, SubSeqProperties
  <2>4. /\ SubSeq(arrivals, 1, Len(order)) \in Seq(Elements)
        /\ Len(SubSeq(arrivals, 1, Len(order))) = Len(order)
        /\ \A k \in 1 .. Len(order) : SubSeq(arrivals, 1, Len(order))[k] = arrivals[k]
    BY <2>1, <2>2, SubSeqProperties
  <2>5. SubSeq(order, 1, Len(order)) = SubSeq(arrivals, 1, Len(order))
    BY <2>2, <2>3, <2>4, SeqEqual
  <2> QED BY <2>1, <2>5 DEF OrderKept, IsPrefix
<1> QED BY <1>1, PushInvHolds, OrderInvHolds, PTL

-----------------------------------------------------------------------------
(* Nothing is lost.                                                        *)

\* The elements that add_done has counted.
Passed == {e \in Elements : pc[e] \in {"lastCount", "gone", "finishing"}}

\* The completions of elements never run the upstream loop, and only StartProc does.
RoleInv ==
  /\ \A e \in Elements : pc[e] \in {"idle", "flight", "publish", "tryBusy", "draining", "count",
                                    "lastCount", "finishing", "gone"}
  /\ pc[StartProc] \in {"start", "loop", "pushed", "nested", "consume", "total", "lastTotal",
                        "finishing", "gone"}
  /\ push_count \in 0 .. N

\* Done is reported only when every element has been counted.
TallyInv ==
  /\ counter \in [total : {0, N + 1}, done : Nat]
  /\ counter.done = Cardinality(Passed)
  /\ counter.total # 0 => pc[StartProc] \in {"lastTotal", "finishing", "gone"}
  /\ pc[StartProc] = "total" => push_count = N
  /\ pc[StartProc] = "lastTotal" => Passed = Elements
  /\ (\E e \in Elements : pc[e] = "lastCount") => Passed = Elements
  /\ state >= DONE => Passed = Elements

\* What has arrived and is not reduced yet is in the cache until done.
KeepInv ==
  /\ \A k \in DOMAIN cache : ~cache[k].ready => pc[cache[k].item] = "publish"
  /\ \A e \in Elements : pc[e] \notin Fresh => \E k \in 1 .. Len(arrivals) : arrivals[k] = e
  /\ result \subseteq Elements
  /\ \A k \in 1 .. Len(order) : order[k] \in result
  /\ \A q \in Runners : at[q] \in {"late", "finish"} => state >= DONE
  /\ \A q \in Runners : at[q] = "finish" => cache = <<>>
  /\ freed => Passed = Elements /\ result = Elements /\ cache = <<>>

LossInv == RoleInv /\ TallyInv /\ KeepInv

\* source_cache has room for every element: the one that finds it full is dropped.
RoomForAll == CacheSize >= N

LEMMA InitLossInv == SInit => LossInv
<1> SUFFICES ASSUME SInit PROVE LossInv
  OBVIOUS
<1>0. /\ StartProc \in Procs /\ Elements \subseteq Procs /\ StartProc \notin Elements /\ N \in Nat
  BY SizesAssumption DEF StartProc, Elements, Procs
<1>1. /\ pc[StartProc] = "start" /\ \A e \in Elements : pc[e] = "idle"
      /\ push_count = 0
  BY <1>0 DEF SInit, Init
<1>2. RoleInv
  BY <1>0, <1>1 DEF RoleInv
<1>3. Passed = {}
  BY <1>1 DEF Passed
<1>4. TallyInv
  BY <1>0, <1>1, <1>3, FS_EmptySet DEF TallyInv, SInit, Init, IDLE, DONE
<1>5. cache = <<>> /\ order = <<>> /\ DOMAIN cache = {} /\ Len(order) = 0
  BY EmptySeq DEF SInit
<1>6. KeepInv
  BY <1>1, <1>5 DEF KeepInv, SInit, Init, Fresh
<1> QED BY <1>2, <1>4, <1>6 DEF LossInv

\* The way of an element, and who makes it take each step.
LEMMA WayStep ==
  ASSUME PushInv, RoleInv, NEW q \in Runners, SStep(q), NEW e \in Elements, pc'[e] # pc[e]
  PROVE  \/ pc[e] = "idle" /\ pc'[e] = "flight"
         \/ pc[e] = "flight" /\ q = e /\ Claim(e) /\ pc'[e] \in {"publish", "tryBusy"}
         \/ pc[e] = "publish" /\ q = e /\ Publish(e) /\ pc'[e] = "tryBusy"
         \/ pc[e] = "tryBusy" /\ pc'[e] \in {"draining", "count"}
         \/ pc[e] = "draining" /\ pc'[e] = "count"
         \/ pc[e] = "count" /\ q = e /\ Count(e) /\ pc'[e] \in {"lastCount", "gone"}
         \/ pc[e] = "lastCount" /\ pc'[e] \in {"finishing", "gone"}
         \/ pc[e] = "finishing" /\ pc'[e] = "gone"
<1>0. SType /\ LaunchInv /\ e \in Procs /\ StartProc \notin Elements /\ N \in Nat
  BY RunnerFacts, SizesAssumption DEF PushInv, StartProc, Elements
<1>1. CASE q \in Procs /\ Upstream(q)
  <2>1. CASE Launch(q)
    <3>1. pc' = [pc EXCEPT ![q] = "pushed", ![push_count + 1] = "flight"] /\ pc[q] = "loop"
          /\ push_count + 1 \in Elements
      BY <2>1, <1>0 DEF Launch, Elements, SType
    <3>2. pc[push_count + 1] = "idle"
      BY <1>0, <2>1, <3>1 DEF LaunchInv, SType
    <3>3. e # q
      BY <3>1 DEF RoleInv
    <3> QED BY <1>0, <3>1, <3>2, <3>3 DEF SType
  <2>2. CASE EndOfRange(q) \/ Consume(q) \/ Add(q) \/ Repoll(q) \/ SetTotal(q)
             \/ (q = StartProc /\ Start)
    <3>1. q # e
      BY <2>2, <1>0 DEF EndOfRange, Consume, Add, Repoll, SetTotal, RoleInv
    <3>2. \E place : pc' = [pc EXCEPT ![q] = place]
      BY <2>2 DEF EndOfRange, Consume, Add, Repoll, SetTotal, Start, TryAcquire, Goto
    <3> QED BY <3>1, <3>2, <1>0 DEF SType
  <2>3. CASE q \in Elements /\ Count(q)
    BY <2>3, <1>0 DEF Count, Goto, SType
  <2> QED BY <1>1, <2>1, <2>2, <2>3 DEF Upstream
<1>2. CASE q \in Procs /\ Push(q)
  <2>1. CASE q \in Elements /\ (Claim(q) \/ Publish(q) \/ TryBusy(q))
    BY <2>1, <1>0 DEF Claim, Publish, TryBusy, Goto, SType
  <2>2. CASE PushDone(q)
    BY <2>2, <1>0 DEF PushDone, Goto, SType, RoleInv
  <2> QED BY <1>2, <2>1, <2>2 DEF Push
<1>3. CASE Drain(q)
  <2>1. at[q] # "out" /\ (pc' = pc \/ Leave(q))
    BY <1>3 DEF Drain, Enter, Dequeue, Activate, Reduce, Release, Look, Late, FinishCache,
       ToIdle, Recheck, RecheckState, ReBusy
  <2>2. q = e /\ Leave(q)
    BY <2>1, <1>0 DEF Leave, Goto, SType
  <2>3. pc[q] \in {"draining", "finishing"}
    BY <2>1, <2>2, <1>0 DEF LaunchInv, Within
  <2> QED BY <1>0, <2>2, <2>3, RunnerFacts DEF Leave, Goto, SType, Answers
<1> QED BY <1>1, <1>2, <1>3 DEF SStep

\* The way of the starting process.
LEMMA StarterStep ==
  ASSUME PushInv, RoleInv, NEW q \in Runners, SStep(q), pc'[StartProc] # pc[StartProc]
  PROVE  /\ q = StartProc
         /\ \/ pc[StartProc] \in {"start", "loop", "pushed", "nested", "consume"}
               /\ pc'[StartProc] \in {"loop", "pushed", "nested", "consume", "gone"}
            \/ pc[StartProc] = "loop" /\ push_count = N /\ pc'[StartProc] = "total"
            \/ pc[StartProc] = "total" /\ SetTotal(StartProc)
               /\ pc'[StartProc] \in {"lastTotal", "gone"}
            \/ pc[StartProc] = "lastTotal" /\ pc'[StartProc] \in {"finishing", "gone"}
            \/ pc[StartProc] = "finishing" /\ pc'[StartProc] = "gone"
<1>0. SType /\ LaunchInv /\ StartProc \in Procs /\ StartProc \notin Elements /\ N \in Nat
  BY RunnerFacts, SizesAssumption DEF PushInv, StartProc, Elements, Procs
<1>1. CASE q \in Procs /\ Upstream(q)
  <2>1. CASE Launch(q)
    <3>1. pc' = [pc EXCEPT ![q] = "pushed", ![push_count + 1] = "flight"] /\ pc[q] = "loop"
          /\ push_count + 1 \in Elements
      BY <2>1, <1>0 DEF Launch, Elements, SType
    <3> QED BY <1>0, <3>1 DEF SType
  <2>2. CASE EndOfRange(q) \/ Consume(q) \/ Add(q) \/ Repoll(q) \/ SetTotal(q)
             \/ (q = StartProc /\ Start)
    <3>1. q = StartProc
      <4>1. \E place : pc' = [pc EXCEPT ![q] = place]
        BY <2>2 DEF EndOfRange, Consume, Add, Repoll, SetTotal, Start, TryAcquire, Goto
      <4> QED BY <1>0, <4>1 DEF SType
    <3>2. AfterPoll(q) = "gone"
      BY <3>1 DEF AfterPoll
    <3> QED BY <1>0, <2>2, <3>1, <3>2 
         DEF EndOfRange, Consume, Add, Repoll, SetTotal, Start, TryAcquire, Goto, SType
  <2>3. CASE q \in Elements /\ Count(q)
    BY <2>3, <1>0 DEF Count, Goto, SType
  <2> QED BY <1>1, <2>1, <2>2, <2>3 DEF Upstream
<1>2. CASE q \in Procs /\ Push(q)
  <2>1. CASE q \in Elements /\ (Claim(q) \/ Publish(q) \/ TryBusy(q))
    BY <2>1, <1>0 DEF Claim, Publish, TryBusy, Goto, SType
  <2>2. CASE PushDone(q)
    BY <2>2, <1>0 DEF PushDone, Goto, SType, RoleInv
  <2> QED BY <1>2, <2>1, <2>2 DEF Push
<1>3. CASE Drain(q)
  <2>1. at[q] # "out" /\ (pc' = pc \/ Leave(q))
    BY <1>3 DEF Drain, Enter, Dequeue, Activate, Reduce, Release, Look, Late, FinishCache,
       ToIdle, Recheck, RecheckState, ReBusy
  <2>2. q = StartProc /\ Leave(q)
    BY <2>1, <1>0 DEF Leave, Goto, SType
  <2>3. pc[q] = "finishing"
    BY <2>1, <2>2, <1>0 DEF LaunchInv, Within, RoleInv
  <2> QED BY <1>0, <2>2, <2>3, RunnerFacts DEF Leave, Goto, SType
<1> QED BY <1>1, <1>2, <1>3 DEF SStep

LEMMA RoleStep ==
  ASSUME PushInv, RoleInv, NEW q \in Runners, SStep(q)
  PROVE  RoleInv'
<1>1. ASSUME NEW e \in Elements
      PROVE  pc'[e] \in {"idle", "flight", "publish", "tryBusy", "draining", "count",
                         "lastCount", "finishing", "gone"}
  BY WayStep DEF RoleInv
<1>2. pc'[StartProc] \in {"start", "loop", "pushed", "nested", "consume", "total", "lastTotal",
                          "finishing", "gone"}
  BY StarterStep DEF RoleInv
<1>3. push_count' \in 0 .. N
  <2>1. push_count' = push_count \/ (push_count < N /\ push_count' = push_count + 1)
    <3>1. CASE q \in Procs /\ Upstream(q)
      BY <3>1 DEF Upstream, Launch, EndOfRange, Consume, Add, Repoll, SetTotal, Start, Count
    <3>2. CASE (q \in Procs /\ Push(q)) \/ Drain(q)
      BY <3>2 DEF Push, Drain, Claim, Publish, TryBusy, PushDone, Enter, Dequeue, Activate, Reduce,
         Release, Look, Late, FinishCache, ToIdle, Recheck, RecheckState, ReBusy, KeepStream
    <3> QED BY <3>1, <3>2 DEF SStep
  <2> QED BY <2>1, SizesAssumption DEF RoleInv
<1> QED BY <1>1, <1>2, <1>3 DEF RoleInv

LEMMA PassedFacts ==
  /\ IsFiniteSet(Passed) /\ Cardinality(Passed) \in Nat
  /\ Cardinality(Passed) = N => Passed = Elements
<1>1. IsFiniteSet(Elements) /\ Cardinality(Elements) = N
  BY SizesAssumption, FS_Interval DEF Elements
<1>2. Passed \subseteq Elements
  BY DEF Passed
<1> QED BY <1>1, <1>2, FS_Subset, FS_CardinalityType

\* Counting moves one element, nothing else moves any.
LEMMA PassedStep ==
  ASSUME PushInv, RoleInv, NEW q \in Runners, SStep(q)
  PROVE  /\ q \in Elements /\ Count(q) => q \notin Passed /\ Passed' = Passed \cup {q}
         /\ ~(q \in Elements /\ Count(q)) => Passed' = Passed
         /\ Passed = Elements => Passed' = Elements
<1>1. ASSUME NEW e \in Elements, ~(q = e /\ Count(e))
      PROVE  e \in Passed' <=> e \in Passed
  BY <1>1, WayStep DEF Passed
<1>2. ASSUME q \in Elements, Count(q)
      PROVE  q \notin Passed /\ q \in Passed'
  BY <1>2, RunnerFacts DEF Count, Goto, Passed, PushInv, SType
<1>3. Passed \subseteq Elements /\ Passed' \subseteq Elements
  BY DEF Passed
<1> QED BY <1>1, <1>2, <1>3

\* The state word says done only after push_done.
LEMMA DoneStep ==
  ASSUME PushInv, NEW q \in Runners, SStep(q), state' >= DONE
  PROVE  state >= DONE \/ (q \in Procs /\ PushDone(q))
<1>1. CASE q \in Procs /\ (Upstream(q) \/ (q \in Elements /\ (Claim(q) \/ Publish(q) \/ TryBusy(q))))
  BY <1>1 DEF Upstream, cacheVars, Claim, Publish, TryBusy, BUSY, DONE
<1>2. CASE Drain(q)
  BY <1>2 DEF Drain, Enter, Dequeue, Activate, Reduce, Release, Look, Late, FinishCache,
     ToIdle, Recheck, RecheckState, ReBusy, IDLE, BUSY, DONE
<1> QED BY <1>1, <1>2 DEF SStep, Push

LEMMA TallyStep ==
  ASSUME PushInv, RoleInv, TallyInv, NEW q \in Runners, SStep(q)
  PROVE  TallyInv'
<1>0. /\ StartProc \in Procs /\ Elements \subseteq Procs /\ StartProc \notin Elements /\ N \in Nat
      /\ SType
  BY SizesAssumption DEF StartProc, Elements, Procs, PushInv
<1>1. Passed = Elements => Passed' = Elements
  BY PassedStep
<1>2. state' >= DONE => Passed' = Elements
  <2>1. ASSUME q \in Procs, PushDone(q) PROVE Passed = Elements
    <3>1. CASE q = StartProc
      BY <2>1, <3>1 DEF PushDone, TallyInv, RoleInv
    <3>2. CASE q \in Elements
      BY <2>1, <3>2 DEF PushDone, TallyInv, RoleInv
    <3> QED BY <2>1, <3>1, <3>2 DEF Procs, StartProc, Elements
  <2> QED BY <1>1, <2>1, DoneStep DEF TallyInv
<1>3. CASE q \in Elements /\ Count(q)
  <2>1. /\ counter' = [counter EXCEPT !.done = @ + 1]
        /\ pc'[q] = "lastCount" => counter.total > 0 /\ counter.done + 1 = counter.total - 1
        /\ \A p \in Procs : p # q => pc'[p] = pc[p]
        /\ push_count' = push_count
    BY <1>0, <1>3 DEF Count, Goto, SType
  <2>2. Passed' = Passed \cup {q} /\ q \notin Passed
    BY <1>3, PassedStep
  <2>3. Cardinality(Passed') = Cardinality(Passed) + 1
    BY <2>2, PassedFacts, FS_AddElement
  <2>4. counter' \in [total : {0, N + 1}, done : Nat] /\ counter'.done = Cardinality(Passed')
        /\ counter'.total = counter.total
    BY <2>1, <2>3 DEF TallyInv
  <2>5. pc'[q] = "lastCount" => Passed' = Elements
    <3>1. SUFFICES ASSUME pc'[q] = "lastCount" PROVE Cardinality(Passed') = N
      <4>1. IsFiniteSet(Elements) /\ Cardinality(Elements) = N
        BY SizesAssumption, FS_Interval DEF Elements
      <4>2. Passed' \subseteq Elements
        BY DEF Passed
      <4> QED BY <4>1, <4>2, FS_Subset
    <3> QED BY <1>0, <2>1, <2>3, <3>1 DEF TallyInv
  <2>6. pc'[StartProc] = pc[StartProc]
    BY <1>0, <1>3, <2>1
  <2>7. (\E e \in Elements : pc'[e] = "lastCount") => Passed' = Elements
    <3>1. SUFFICES ASSUME NEW e \in Elements, pc'[e] = "lastCount" PROVE Passed' = Elements
      OBVIOUS
    <3>2. CASE e = q
      BY <2>5, <3>1, <3>2
    <3>3. CASE e # q
      BY <1>0, <1>1, <2>1, <3>1, <3>3 DEF TallyInv
    <3> QED BY <3>2, <3>3
  <2> QED BY <1>1, <1>2, <2>1, <2>4, <2>6, <2>7 DEF TallyInv
<1>4. CASE q = StartProc /\ SetTotal(q)
  <2>1. /\ pc[StartProc] = "total" /\ counter.total = 0 /\ push_count = N
        /\ counter' = [counter EXCEPT !.total = @ + push_count + 1]
        /\ pc'[StartProc] \in {"lastTotal", "gone"}
        /\ pc'[StartProc] = "lastTotal" => counter.done = push_count
        /\ \A p \in Procs : p # StartProc => pc'[p] = pc[p]
    BY <1>0, <1>4 DEF SetTotal, Goto, AfterPoll, TallyInv, SType
  <2>2. Passed' = Passed
    BY <1>0, <1>4, <2>1, PassedStep DEF Count
  <2>3. counter' \in [total : {0, N + 1}, done : Nat] /\ counter'.done = Cardinality(Passed')
    BY <1>0, <2>1, <2>2 DEF TallyInv
  <2>4. pc'[StartProc] = "lastTotal" => Passed' = Elements
    BY <2>1, <2>2, PassedFacts DEF TallyInv
  <2>5. (\E e \in Elements : pc'[e] = "lastCount") => Passed' = Elements
    BY <1>0, <2>1, <2>2 DEF TallyInv
  <2> QED BY <1>2, <2>1, <2>3, <2>4, <2>5 DEF TallyInv
<1>5. CASE ~(q \in Elements /\ Count(q)) /\ ~(q = StartProc /\ SetTotal(q))
  <2>1. counter' = counter
    <3>1. CASE q \in Procs /\ Upstream(q)
      <4>1. ~SetTotal(q)
        <5>1. q = StartProc \/ q \in Elements
          BY <1>0, <3>1 DEF Procs, StartProc, Elements
        <5>2. q \in Elements => pc[q] # "total"
          BY DEF RoleInv
        <5> QED BY <1>5, <5>1, <5>2 DEF SetTotal
      <4> QED BY <1>5, <3>1, <4>1 DEF Upstream, Launch, EndOfRange, Consume, Add, Repoll, Start
    <3>2. CASE (q \in Procs /\ Push(q)) \/ Drain(q)
      BY <3>2 DEF Push, Drain, Claim, Publish, TryBusy, PushDone, Enter, Dequeue, Activate, Reduce,
         Release, Look, Late, FinishCache, ToIdle, Recheck, RecheckState, ReBusy, KeepStream
    <3> QED BY <3>1, <3>2 DEF SStep
  <2>2. Passed' = Passed
    BY <1>5, PassedStep
  <2>3. \A e \in Elements : pc'[e] = "lastCount" => pc[e] = "lastCount"
    BY <1>5, WayStep
  <2>4. /\ counter.total # 0 => pc'[StartProc] \in {"lastTotal", "finishing", "gone"}
        /\ pc'[StartProc] = "lastTotal" => pc[StartProc] = "lastTotal"
    BY <1>5, StarterStep DEF TallyInv
  <2>5. pc'[StartProc] = "total" => push_count' = N
    <3>1. SUFFICES ASSUME pc'[StartProc] = "total" PROVE push_count' = N
      OBVIOUS
    <3>2. push_count = N
      BY <3>1, StarterStep DEF TallyInv
    <3>3. push_count' \in 0 .. N /\ push_count' >= push_count
      <4>1. CASE q \in Procs /\ Upstream(q)
        BY <4>1, UpstreamPlaces, RoleStep DEF RoleInv, PushInv
      <4>2. CASE (q \in Procs /\ Push(q)) \/ Drain(q)
        BY <4>2, <3>2, <1>0 DEF Push, Drain, Claim, Publish, TryBusy, PushDone, Enter, Dequeue, Activate,
           Reduce, Release, Look, Late, FinishCache, ToIdle, Recheck, RecheckState, ReBusy, KeepStream
      <4> QED BY <4>1, <4>2 DEF SStep
    <3> QED BY <1>0, <3>2, <3>3
  <2>6. /\ pc'[StartProc] = "lastTotal" => Passed' = Elements
        /\ (\E e \in Elements : pc'[e] = "lastCount") => Passed' = Elements
    BY <2>2, <2>3, <2>4 DEF TallyInv
  <2>7. counter' \in [total : {0, N + 1}, done : Nat] /\ counter'.done = Cardinality(Passed')
    BY <2>1, <2>2 DEF TallyInv
  <2> QED BY <1>2, <2>1, <2>4, <2>5, <2>6, <2>7 DEF TallyInv
<1> QED BY <1>3, <1>4, <1>5

\* The cache never fills: it holds different elements, and not the one that
\* is to enter it.
LEMMA RoomStep ==
  ASSUME PushInv, RoomForAll, NEW e \in Elements, pc[e] = "flight"
  PROVE  Len(cache) < CacheSize
<1> DEFINE Cells == [item : Elements, ready : BOOLEAN]
<1>0. cache \in Seq(Cells) /\ N \in Nat /\ CacheSize \in Nat
  BY SizesAssumption, CacheAssumption DEF PushInv, SType
<1> HIDE DEF Cells
<1>1. PICK n \in Nat : n = Len(cache)
  BY <1>0, LenProperties
<1>2. DOMAIN cache = 1 .. n /\ \A k \in 1 .. n : cache[k] \in Cells
  BY <1>0, <1>1, LenProperties, ElementOfSeq
<1>3. \A k \in 1 .. n : cache[k].item \in Elements \ {e}
  <2>1. \A k \in 1 .. n : cache[k].item \in Elements
    BY <1>2 DEF Cells
  <2>2. \A k \in 1 .. n : cache[k].item # e
    BY <1>2 DEF PushInv, ItemInv, InCache, Fresh
  <2> QED BY <2>1, <2>2
<1>4. \A j, k \in 1 .. n : cache[j].item = cache[k].item => j = k
  BY <1>2 DEF PushInv, ItemInv
<1> DEFINE f == [k \in 1 .. n |-> cache[k].item]
<1>5. f \in Injection(1 .. n, Elements \ {e})
  BY <1>3, <1>4 DEF Injection, IsInjective
<1>6. IsFiniteSet(1 .. n) /\ Cardinality(1 .. n) = n
  BY FS_Interval
<1>7. IsFiniteSet(Elements \ {e}) /\ Cardinality(Elements \ {e}) = N - 1
  <2>1. IsFiniteSet(Elements) /\ Cardinality(Elements) = N
    BY <1>0, FS_Interval DEF Elements
  <2> QED BY <2>1, FS_RemoveElement
<1> HIDE DEF f
<1>8. n <= N - 1
  BY <1>5, <1>6, <1>7, FS_Injection
<1> QED BY <1>0, <1>1, <1>8 DEF RoomForAll

\* What push_done, the pushes and the engine leave alone.
LEMMA KeepCases ==
  ASSUME PushInv, NEW q \in Runners, SStep(q)
  PROVE  /\ freed' = freed \/ (FinishCache(q) /\ freed' = TRUE /\ state = DONE)
         /\ UNCHANGED <<result, order>> \/ Reduce(q)
         /\ UNCHANGED arrivals \/ (q \in Elements /\ Claim(q))
         /\ \/ UNCHANGED cache
            \/ q \in Elements /\ (Claim(q) \/ Publish(q))
            \/ Dequeue(q) \/ Late(q)
<1>1. CASE q \in Procs /\ Upstream(q)
  <2>1. UNCHANGED <<freed, result, order, arrivals, cache>>
    BY <1>1 DEF Upstream, cacheVars, Launch, EndOfRange, Consume, Add, Repoll, SetTotal, Start, Count
  <2> QED BY <2>1
<1>2. CASE q \in Procs /\ Push(q)
  <2>1. UNCHANGED <<freed, result, order>>
    BY <1>2 DEF Push, Claim, Publish, TryBusy, PushDone, KeepStream
  <2>2. CASE q \in Elements /\ (Claim(q) \/ Publish(q))
    BY <2>1, <2>2 DEF Publish
  <2>3. CASE (q \in Elements /\ TryBusy(q)) \/ PushDone(q)
    BY <2>1, <2>3 DEF TryBusy, PushDone
  <2> QED BY <1>2, <2>2, <2>3 DEF Push
<1>3. CASE FinishCache(q)
  BY <1>3 DEF FinishCache
<1>4. CASE Reduce(q)
  BY <1>4 DEF Reduce
<1>5. CASE Dequeue(q) \/ Late(q)
  BY <1>5 DEF Dequeue, Late, KeepStream
<1>6. CASE Drain(q) /\ ~(FinishCache(q) \/ Reduce(q) \/ Dequeue(q) \/ Late(q))
  BY <1>6 DEF Drain, Enter, Activate, Release, Look, ToIdle, Recheck, RecheckState, ReBusy, KeepStream
<1> QED BY <1>1, <1>2, <1>3, <1>4, <1>5, <1>6 DEF SStep

\* Once every element has been counted nothing enters the cache any more.
LEMMA EmptyStays ==
  ASSUME PushInv, NEW q \in Runners, SStep(q), Passed = Elements, cache = <<>>
  PROVE  cache' = <<>>
<1>1. \A e \in Elements : pc[e] \notin {"flight", "publish"}
  BY DEF Passed
<1>2. ASSUME Dequeue(q) \/ Late(q) PROVE cache' = cache
  BY <1>2 DEF Dequeue, Late, Dequeued
<1>3. ~(q \in Elements /\ (Claim(q) \/ Publish(q)))
  BY <1>1 DEF Claim, Publish
<1> QED BY <1>2, <1>3, KeepCases

LEMMA DoneStays ==
  ASSUME PushInv, NEW q \in Runners, SStep(q), state >= DONE
  PROVE  state' >= DONE
<1>1. CASE q \in Procs /\ (Upstream(q) \/ (q \in Elements /\ (Claim(q) \/ Publish(q) \/ TryBusy(q))))
  BY <1>1 DEF Upstream, cacheVars, Claim, Publish, TryBusy, IDLE, DONE
<1>2. CASE q \in Procs /\ PushDone(q)
  BY <1>2 DEF PushDone, DONE
<1>3. CASE Drain(q)
  <2>1. state \in {DONE, TERMINAL}
    BY DEF PushInv, SType, IDLE, BUSY, DONE, TERMINAL
  <2>2. state' \in {state, TERMINAL}
    BY <1>3, <2>1 DEF Drain, Enter, Dequeue, Activate, Reduce, Release, Look, Late, FinishCache,
       ToIdle, Recheck, RecheckState, ReBusy, IDLE, DONE, TERMINAL
  <2> QED BY <2>1, <2>2 DEF DONE, TERMINAL
<1> QED BY <1>1, <1>2, <1>3 DEF SStep, Push

\* Everything that arrived has been reduced when the runner that pushes done
\* has found the cache empty.
LEMMA FinishFacts ==
  ASSUME PushInv, OrderInv, LossInv, NEW q \in Runners, FinishCache(q), state = DONE
  PROVE  result = Elements /\ cache = <<>> /\ Passed = Elements
<1>1. at[q] = "finish" /\ cache = <<>> /\ Passed = Elements
  BY DEF FinishCache, LossInv, KeepInv, TallyInv, DONE
<1>2. \A r \in Runners : ~Busy(r)
  BY <1>1, AloneFacts DEF PushInv, HasRight, InsideRight, Alone, Busy
<1>3. Taking = 0 /\ Len(cache) = 0
  BY <1>1, <1>2, EmptySeq DEF Taking
<1>4. Len(arrivals) = Len(order)
  <2>1. Len(order) \in Nat
    BY LengthFacts
  <2> HIDE DEF Taking
  <2> QED BY <1>3, <2>1 DEF OrderInv
<1>5. ASSUME NEW e \in Elements PROVE e \in result
  <2>1. pc[e] \notin Fresh
    BY <1>1 DEF Passed, Fresh
  <2>2. PICK k \in 1 .. Len(arrivals) : arrivals[k] = e
    BY <2>1 DEF LossInv, KeepInv
  <2>3. order[k] = e
    BY <1>4, <2>2 DEF OrderInv
  <2> QED BY <1>4, <2>2, <2>3 DEF LossInv, KeepInv
<1> QED BY <1>1, <1>5 DEF LossInv, KeepInv

\* Only the slots that are being written are unpublished.
LEMMA ReadyStep ==
  ASSUME PushInv, PushInv', LossInv, NEW q \in Runners, SStep(q), RoomForAll,
         NEW k \in DOMAIN cache', ~cache'[k].ready
  PROVE  pc'[cache'[k].item] = "publish"
<1> DEFINE Cells == [item : Elements, ready : BOOLEAN]
<1>0. cache \in Seq(Cells) /\ cache' \in Seq(Cells) /\ SType
  BY DEF PushInv, SType
<1> HIDE DEF Cells
<1>1. /\ Len(cache) \in Nat /\ DOMAIN cache = 1 .. Len(cache)
      /\ Len(cache') \in Nat /\ DOMAIN cache' = 1 .. Len(cache')
      /\ \A j \in DOMAIN cache : cache[j] \in Cells
  BY <1>0, LenProperties, ElementOfSeq
<1>2. ASSUME NEW e \in Elements, pc[e] = "publish", ~(q = e /\ Publish(e))
      PROVE  pc'[e] = "publish"
  BY <1>2, WayStep DEF LossInv
<1>3. \A j \in DOMAIN cache : cache[j].item \in Elements
  BY <1>1 DEF Cells
<1>4. \A j \in DOMAIN cache : ~cache[j].ready => pc[cache[j].item] = "publish"
  BY DEF LossInv, KeepInv
<1>5. CASE q \in Elements /\ Publish(q)
  <2>1. k \in DOMAIN cache /\ cache[k] \in Cells
        /\ cache'[k] = IF cache[k].item = q THEN [cache[k] EXCEPT !.ready = TRUE] ELSE cache[k]
    BY <1>1, <1>5 DEF Publish
  <2>2. cache[k].item # q /\ cache'[k] = cache[k]
    BY <2>1 DEF Cells
  <2> QED BY <1>2, <1>3, <1>4, <2>1, <2>2
<1>6. CASE q \in Elements /\ Claim(q)
  <2>1. ~Publish(q) /\ pc[q] = "flight" /\ Len(cache) < CacheSize
    BY <1>6, RoomStep DEF Claim, Publish
  <2>2. cache' = Append(cache, [item |-> q, ready |-> FALSE]) /\ pc'[q] = "publish"
    BY <1>0, <1>6, <2>1, RunnerFacts DEF Claim, Goto, SType
  <2>3. [item |-> q, ready |-> FALSE] \in Cells
    BY <1>6 DEF Cells
  <2>4. /\ Len(cache') = Len(cache) + 1 /\ cache'[Len(cache) + 1] = [item |-> q, ready |-> FALSE]
        /\ \A j \in 1 .. Len(cache) : cache'[j] = cache[j]
    BY <1>0, <2>2, <2>3, AppendProperties
  <2>5. k = Len(cache) + 1 \/ k \in 1 .. Len(cache)
    BY <1>1, <2>4
  <2>6. CASE k = Len(cache) + 1
    BY <2>2, <2>4, <2>6
  <2>7. CASE k \in 1 .. Len(cache)
    <3>1. cache[k] = cache'[k] /\ pc[cache[k].item] = "publish" /\ cache[k].item \in Elements
      BY <1>1, <1>3, <1>4, <2>4, <2>7
    <3> QED BY <1>2, <2>1, <3>1
  <2> QED BY <2>5, <2>6, <2>7
<1>7. CASE ~(q \in Elements /\ (Publish(q) \/ Claim(q)))
  <2>1. \E j \in DOMAIN cache : cache'[k] = cache[j]
    <3>1. CASE UNCHANGED cache
      BY <3>1
    <3>2. CASE Dequeue(q) \/ Late(q)
      <4>1. PICK missing \in {"look", "finish"} : Dequeued(q, "activate", missing)
        BY <3>2 DEF Dequeue, Late
      <4>2. cache' = cache \/ (cache # <<>> /\ cache' = Tail(cache))
        BY <4>1, <1>0, DequeuedFacts
      <4> QED BY <1>0, <4>2, TailFacts
    <3> QED BY <1>7, <3>1, <3>2, KeepCases
  <2>2. PICK j \in DOMAIN cache : cache'[k] = cache[j]
    BY <2>1
  <2>3. pc[cache[j].item] = "publish" /\ cache[j].item \in Elements
    BY <1>3, <1>4, <2>2
  <2> QED BY <1>2, <1>7, <2>2, <2>3
<1> QED BY <1>5, <1>6, <1>7

LEMMA KeepStep ==
  ASSUME PushInv, PushInv', OrderInv, OrderInv', LossInv, NEW q \in Runners, SStep(q), RoomForAll
  PROVE  KeepInv'
<1>0. SType /\ SType' /\ RoleInv /\ TallyInv /\ KeepInv
  BY DEF PushInv, LossInv
<1>1. \A k \in DOMAIN cache' : ~cache'[k].ready => pc'[cache'[k].item] = "publish"
  BY ReadyStep
<1>2. ASSUME NEW e \in Elements, pc'[e] \notin Fresh
      PROVE  \E k \in 1 .. Len(arrivals') : arrivals'[k] = e
  <2>1. CASE q \in Elements /\ Claim(q)
    <3>1. arrivals' = Append(arrivals, q)
      BY <2>1, RoomStep DEF Claim
    <3>2. /\ Len(arrivals') = Len(arrivals) + 1 /\ arrivals'[Len(arrivals) + 1] = q
          /\ \A k \in 1 .. Len(arrivals) : arrivals'[k] = arrivals[k]
      BY <2>1, <3>1, AppendProperties DEF OrderInv
    <3>3. Len(arrivals) \in Nat
      BY LengthFacts
    <3>4. CASE e = q
      BY <3>2, <3>3, <3>4
    <3>5. CASE e # q
      <4>1. pc[e] \notin Fresh
        BY <1>0, <1>2, <2>1, <3>5, WayStep DEF Claim, Goto, SType, Fresh
      <4>2. PICK k \in 1 .. Len(arrivals) : arrivals[k] = e
        BY <1>0, <4>1 DEF KeepInv
      <4> QED BY <3>2, <3>3, <4>2
    <3> QED BY <3>4, <3>5
  <2>2. CASE ~(q \in Elements /\ Claim(q))
    <3>1. arrivals' = arrivals
      BY <2>2, KeepCases
    <3>2. pc[e] \notin Fresh
      BY <1>0, <1>2, <2>2, WayStep DEF Fresh
    <3> QED BY <1>0, <3>1, <3>2 DEF KeepInv
  <2> QED BY <2>1, <2>2
<1>3. result' \subseteq Elements /\ \A k \in 1 .. Len(order') : order'[k] \in result'
  <2>1. CASE Reduce(q)
    <3>1. item[q] \in Elements /\ result' = result \cup {item[q]} /\ order' = Append(order, item[q])
      BY <2>1 DEF Reduce, OrderInv, Busy
    <3>2. /\ Len(order') = Len(order) + 1 /\ order'[Len(order) + 1] = item[q]
          /\ \A k \in 1 .. Len(order) : order'[k] = order[k]
      BY <3>1, AppendProperties DEF OrderInv
    <3>3. Len(order) \in Nat
      BY LengthFacts
    <3> QED BY <1>0, <3>1, <3>2, <3>3 DEF KeepInv
  <2>2. CASE UNCHANGED <<result, order>>
    BY <1>0, <2>2 DEF KeepInv
  <2> QED BY <2>1, <2>2, KeepCases
<1>4. ASSUME NEW r \in Runners, at'[r] \in {"late", "finish"} PROVE state' >= DONE
  <2>1. CASE at'[r] = at[r]
    BY <1>0, <1>4, <2>1, DoneStays DEF KeepInv
  <2>2. CASE at'[r] # at[r]
    <3>1. r = q
      BY <1>4, <2>2, PlaceStep
    <3>2. CASE Look(q)
      BY <1>0, <1>4, <3>1, <3>2 DEF Look, Move, SType
    <3>3. CASE Late(q)
      <4>1. state >= DONE
        BY <1>0, <3>3 DEF Late, KeepInv
      <4> QED BY <4>1, DoneStays
    <3>4. CASE ~Look(q) /\ ~Late(q)
      <4>1. CASE q \in Procs /\ (Upstream(q) \/ Push(q))
        BY <1>0, <1>4, <2>2, <3>1, <4>1 DEF Upstream, cacheVars, Push, Claim, Publish, TryBusy, PushDone, Move, SType
      <4>2. CASE Drain(q)
        BY <1>0, <1>4, <2>2, <3>1, <3>4, <4>2 DEF Drain, Enter, Dequeue, Dequeued, Activate, Reduce,
           Release, FinishCache, ToIdle, Recheck, RecheckState, ReBusy, Leave, Move, SType
      <4> QED BY <4>1, <4>2 DEF SStep
    <3> QED BY <3>2, <3>3, <3>4
  <2> QED BY <2>1, <2>2
<1>5. ASSUME NEW r \in Runners, at'[r] = "finish" PROVE cache' = <<>>
  <2>1. CASE at'[r] = at[r]
    <3>1. cache = <<>> /\ Passed = Elements
      BY <1>0, <1>5, <2>1 DEF KeepInv, TallyInv
    <3> QED BY <3>1, EmptyStays
  <2>2. CASE at'[r] # at[r]
    <3>1. r = q
      BY <1>5, <2>2, PlaceStep
    <3>2. Late(q)
      <4>1. CASE q \in Procs /\ (Upstream(q) \/ Push(q))
        BY <1>0, <1>5, <2>2, <3>1, <4>1 DEF Upstream, cacheVars, Push, Claim, Publish, TryBusy, PushDone, Move, SType
      <4>2. CASE Drain(q)
        BY <1>0, <1>5, <2>2, <3>1, <4>2 DEF Drain, Enter, Dequeue, Dequeued, Activate, Reduce,
           Release, Look, FinishCache, ToIdle, Recheck, RecheckState, ReBusy, Leave, Move, SType
      <4> QED BY <4>1, <4>2 DEF SStep
    <3>3. cache' = cache /\ (cache = <<>> \/ ~Head(cache).ready)
      BY <1>0, <1>5, <3>1, <3>2 DEF Late, Dequeued, Move, SType
    <3>4. Passed = Elements
      BY <1>0, <3>2 DEF Late, KeepInv, TallyInv
    <3>5. cache # <<>> => Head(cache) = cache[1] /\ 1 \in DOMAIN cache /\ cache[1].item \in Elements
      BY <1>0, TailFacts, HeadTailProperties DEF SType
    <3>6. cache = <<>>
      BY <1>0, <3>3, <3>4, <3>5 DEF KeepInv, Passed
    <3> QED BY <3>3, <3>6
  <2> QED BY <2>1, <2>2
<1>6. freed' => Passed' = Elements /\ result' = Elements /\ cache' = <<>>
  <2>1. CASE FinishCache(q) /\ state = DONE
    <3>1. result = Elements /\ cache = <<>> /\ Passed = Elements
      BY <2>1, FinishFacts
    <3>2. result' = result
      BY <2>1 DEF FinishCache
    <3> QED BY <1>0, <3>1, <3>2, EmptyStays, PassedStep
  <2>2. CASE freed' = freed
    <3>1. freed => result' = Elements
      BY <1>0, <1>3, KeepCases DEF KeepInv, Reduce
    <3> QED BY <1>0, <2>2, <3>1, EmptyStays, PassedStep DEF KeepInv
  <2> QED BY <2>1, <2>2, KeepCases
<1> QED BY <1>1, <1>2, <1>3, <1>4, <1>5, <1>6 DEF KeepInv

(* The count of the elements is exact, done is reported after the last of  *)
(* them, and the stream scope is freed with every element reduced and an   *)
(* empty cache.                                                            *)
THEOREM LossInvHolds == ASSUME RoomForAll PROVE SSpec => []LossInv
<1>1. SInit => LossInv
  BY InitLossInv
<1>2. PushInv /\ PushInv' /\ OrderInv /\ OrderInv' /\ LossInv /\ [SNext]_allVars => LossInv'
  <2> SUFFICES ASSUME PushInv, PushInv', OrderInv, OrderInv', LossInv, [SNext]_allVars PROVE LossInv'
    OBVIOUS
  <2>1. CASE SNext
    <3>1. PICK q \in Runners : SStep(q)
      BY <2>1 DEF SNext
    <3> QED BY <3>1, RoleStep, TallyStep, KeepStep DEF LossInv
  <2>2. CASE UNCHANGED allVars
    BY <2>2 DEF allVars, vars, cacheVars, LossInv, RoleInv, TallyInv, KeepInv, Passed
  <2> QED BY <2>1, <2>2
<1> QED BY <1>1, <1>2, PushInvHolds, OrderInvHolds, PTL DEF SSpec

(* sequential pushes done downstream only after every element has been     *)
(* reduced, and it leaves nothing behind in source_cache.                  *)
THEOREM NothingIsLost == ASSUME RoomForAll PROVE SSpec => []NothingLost
<1>1. LossInv => NothingLost
  BY DEF LossInv, KeepInv, NothingLost
<1> QED BY <1>1, LossInvHolds, PTL

=============================================================================
