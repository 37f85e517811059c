--------------------------- MODULE SequentialStream ---------------------------
(***************************************************************************)
(* for_each(range) >> concurrent(max) >> ops >> sequential() >> ops >>     *)
(* reduce(init, f): the stream engine with sequential's source_cache       *)
(* between the concurrent counter and the reducer.                         *)
(*                                                                         *)
(* Completed elements go through a bounded lock-free queue and are pushed  *)
(* downstream one at a time by whoever owns the right to push.  The right  *)
(* is the state word (idle / busy / done / terminal); drain_flag flattens  *)
(* the recursion when the downstream answers within the push.  An item in  *)
(* Async hops to another scheduler downstream, so its poll_next comes back *)
(* from a thread of its own.                                               *)
(***************************************************************************)
EXTENDS ConcurrentStream, Sequences, SequencesExt

CONSTANTS
  CacheSize,   \* capacity of source_cache's queue (1024 in the code)
  Async        \* items whose downstream ops answer on another thread

ASSUME CacheAssumption ==
  /\ CacheSize \in Nat \ {0}
  /\ Async \subseteq Elements
  /\ Skipped = {}

VARIABLES
  cache,        \* claimed slots, oldest first: [item, ready]
  state,        \* source_cache::state
  drain_flag,   \* source_cache::drain_flag, the set of its bits
  at,           \* at[q]: where runner q is inside drain_single
  item,         \* item[q]: what q dequeued
  arrivals,     \* history: the items in the order they claimed a slot
  order         \* history: the items in the order they were reduced

cacheVars == <<cache, state, drain_flag, at, item, arrivals, order>>
allVars   == <<vars, cacheVars>>

\* Who runs drain_single: the stream's processes, and for each asynchronous
\* item x the thread Downstream(x) its downstream ops complete on.
Downstream(x) == N + x
Answers       == {Downstream(x) : x \in Elements}
Runners       == Procs \cup Answers

IDLE == 0
BUSY == 1
DONE == 2
TERMINAL == 3     \* STATE_DONE | STATE_BUSY

None == 0
Move(q, place) == at' = [at EXCEPT ![q] = place]

\* drain_single returns to its caller.
Leave(q) == /\ Move(q, "out")
            /\ IF q \in Answers THEN UNCHANGED pc
               ELSE IF pc[q] = "draining" THEN Goto(q, "count")
               ELSE Goto(q, "gone")

KeepStream == UNCHANGED <<push_count, poll_next_flag, pending_status, counter,
                          result, loaded, freed>>

-----------------------------------------------------------------------------
(* The push path: enqueue_and_drain. *)

\* try_enqueue claims a slot; when the cache is full the element is gone, the
\* result of the call is not looked at.
Claim(e) ==
  /\ pc[e] = "flight"
  /\ IF Len(cache) < CacheSize
     THEN /\ cache' = Append(cache, [item |-> e, ready |-> FALSE])
          /\ arrivals' = Append(arrivals, e)
          /\ Goto(e, "publish")
     ELSE /\ Goto(e, "tryBusy")
          /\ UNCHANGED <<cache, arrivals>>
  /\ KeepStream /\ UNCHANGED <<state, drain_flag, at, item, order>>

\* The claimed slot's sequence number is published.
Publish(e) ==
  /\ pc[e] = "publish"
  /\ cache' = [k \in DOMAIN cache |->
                 IF cache[k].item = e THEN [cache[k] EXCEPT !.ready = TRUE]
                                      ELSE cache[k]]
  /\ Goto(e, "tryBusy")
  /\ KeepStream /\ UNCHANGED <<state, drain_flag, at, item, arrivals, order>>

\* Mutant: takes the push right from whoever has it.
TryBusyAnyway(e) ==
  /\ pc[e] = "tryBusy"
  /\ state' = BUSY
  /\ Goto(e, "draining")
  /\ Move(e, "enter")
  /\ KeepStream /\ UNCHANGED <<cache, drain_flag, item, arrivals, order>>

\* Take the push right if nobody has it.
TryBusy(e) ==
  /\ pc[e] = "tryBusy"
  /\ IF state = IDLE
     THEN /\ state' = BUSY
          /\ Goto(e, "draining")
          /\ Move(e, "enter")
     ELSE /\ Goto(e, "count")
          /\ UNCHANGED <<state, at>>
  /\ KeepStream /\ UNCHANGED <<cache, drain_flag, item, arrivals, order>>

-----------------------------------------------------------------------------
(* drain_single. *)

\* Already draining: leave a request for the drainer.
Enter(q) ==
  /\ at[q] = "enter"
  /\ IF "active" \in drain_flag
     THEN drain_flag' = drain_flag \cup {"requested"} /\ Leave(q)
     ELSE Move(q, "dequeue") /\ UNCHANGED <<drain_flag, pc>>
  /\ KeepStream /\ UNCHANGED <<cache, state, item, arrivals, order>>

\* Mutant: passes over an unpublished slot.
DequeuedReady(q, found, missing) ==
  IF \E c \in Range(cache) : c.ready
  THEN LET k == CHOOSE k \in DOMAIN cache :
                  cache[k].ready /\ \A j \in 1 .. k - 1 : ~cache[j].ready
       IN  /\ cache' = RemoveAt(cache, k)
           /\ item' = [item EXCEPT ![q] = cache[k].item]
           /\ Move(q, found)
  ELSE Move(q, missing) /\ UNCHANGED <<cache, item>>

\* try_dequeue fails on an empty queue and on an unpublished oldest slot.
Dequeued(q, found, missing) ==
  IF cache # <<>> /\ Head(cache).ready
  THEN /\ cache' = Tail(cache)
       /\ item' = [item EXCEPT ![q] = Head(cache).item]
       /\ Move(q, found)
  ELSE Move(q, missing) /\ UNCHANGED <<cache, item>>

Dequeue(q) ==
  /\ at[q] = "dequeue"
  /\ Dequeued(q, "activate", "look")
  /\ KeepStream /\ UNCHANGED <<pc, state, drain_flag, arrivals, order>>

\* Mark the drain active and push the item downstream: it is reduced in this
\* call, or handed to another thread.
Activate(q) ==
  /\ at[q] = "activate"
  /\ drain_flag' = {"active"}
  /\ IF item[q] \in Async
     THEN /\ at' = [at EXCEPT ![q] = "release", ![Downstream(item[q])] = "reduce"]
          /\ item' = [item EXCEPT ![Downstream(item[q])] = item[q]]
     ELSE Move(q, "reduce") /\ UNCHANGED item
  /\ KeepStream /\ UNCHANGED <<pc, cache, state, arrivals, order>>

\* reduce folds the item in, then asks for the next one: on another thread that
\* is a fresh drain_single; in the same call it can only leave a request.
Reduce(q) ==
  /\ at[q] = "reduce"
  /\ result' = result \cup {item[q]}
  /\ order' = Append(order, item[q])
  /\ IF item[q] \in Async
     THEN Move(q, "enter") /\ UNCHANGED drain_flag
     ELSE Move(q, "release") /\ drain_flag' = drain_flag \cup {"requested"}
  /\ UNCHANGED <<pc, push_count, poll_next_flag, pending_status, counter, loaded,
                 freed, cache, state, item, arrivals>>

\* Clear the flag; go on if the downstream asked meanwhile, else it will call.
Release(q) ==
  /\ at[q] = "release"
  /\ drain_flag' = {}
  /\ IF "requested" \in drain_flag
     THEN Move(q, "dequeue") /\ UNCHANGED pc
     ELSE Leave(q)
  /\ KeepStream /\ UNCHANGED <<cache, state, item, arrivals, order>>

\* Nothing to take: is the upstream done?
Look(q) ==
  /\ at[q] = "look"
  /\ Move(q, IF state >= DONE THEN "late" ELSE "toIdle")
  /\ KeepStream /\ UNCHANGED <<pc, cache, state, drain_flag, item, arrivals, order>>

\* Mutant: does not look for a late item.
LateIgnored(q) ==
  /\ at[q] = "late"
  /\ Move(q, "finish")
  /\ KeepStream /\ UNCHANGED <<pc, cache, state, drain_flag, item, arrivals, order>>

\* Done: take a late item if there is one.
Late(q) ==
  /\ at[q] = "late"
  /\ Dequeued(q, "activate", "finish")
  /\ KeepStream /\ UNCHANGED <<pc, state, drain_flag, arrivals, order>>

\* Push done once, through the terminal state; the reducer frees the scope.
FinishCache(q) ==
  /\ at[q] = "finish"
  /\ IF state = DONE
     THEN state' = TERMINAL /\ freed' = TRUE
     ELSE UNCHANGED <<state, freed>>
  /\ Leave(q)
  /\ UNCHANGED <<push_count, poll_next_flag, pending_status, counter, result,
                 loaded, cache, drain_flag, item, arrivals, order>>

\* Mutant: a store where the code has a compare-and-swap.
ToIdleBlindly(q) ==
  /\ at[q] = "toIdle"
  /\ state' = IDLE /\ Move(q, "recheck")
  /\ KeepStream /\ UNCHANGED <<pc, cache, drain_flag, item, arrivals, order>>

\* Give the push right back, unless done arrived meanwhile.
ToIdle(q) ==
  /\ at[q] = "toIdle"
  /\ IF state < DONE
     THEN state' = IDLE /\ Move(q, "recheck")
     ELSE Move(q, "dequeue") /\ UNCHANGED state
  /\ KeepStream /\ UNCHANGED <<pc, cache, drain_flag, item, arrivals, order>>

\* Having gone idle: did an item or done slip in?
Recheck(q) ==
  /\ at[q] = "recheck"
  /\ Move(q, IF cache # <<>> THEN "reBusy" ELSE "recheckState")
  /\ KeepStream /\ UNCHANGED <<pc, cache, state, drain_flag, item, arrivals, order>>

RecheckState(q) ==
  /\ at[q] = "recheckState"
  /\ IF state >= DONE THEN Move(q, "reBusy") /\ UNCHANGED pc ELSE Leave(q)
  /\ KeepStream /\ UNCHANGED <<cache, state, drain_flag, item, arrivals, order>>

ReBusy(q) ==
  /\ at[q] = "reBusy"
  /\ IF state = IDLE
     THEN state' = BUSY /\ Move(q, "dequeue") /\ UNCHANGED pc
     ELSE Leave(q) /\ UNCHANGED state
  /\ KeepStream /\ UNCHANGED <<cache, drain_flag, item, arrivals, order>>

-----------------------------------------------------------------------------
\* push_done from the counter: whoever finds the cache idle drains it.
PushDone(p) ==
  /\ pc[p] \in {"lastTotal", "lastCount"}
  /\ at[p] = "out"
  /\ state' = DONE
  /\ IF state = IDLE
     THEN Goto(p, "finishing") /\ Move(p, "enter")
     ELSE Goto(p, "gone") /\ UNCHANGED at
  /\ KeepStream /\ UNCHANGED <<cache, drain_flag, item, arrivals, order>>

SInit ==
  /\ Init
  /\ cache = <<>>
  /\ state = IDLE
  /\ drain_flag = {}
  /\ at = [q \in Runners |-> "out"]
  /\ item = [q \in Runners |-> None]
  /\ arrivals = <<>>
  /\ order = <<>>

\* The engine upstream of the cache, unchanged.
Upstream(p) ==
  /\ \/ Launch(p) \/ EndOfRange(p) \/ Consume(p) \/ Add(p) \/ Repoll(p) \/ SetTotal(p)
     \/ p = StartProc /\ Start
     \/ p \in Elements /\ Count(p)
  /\ UNCHANGED cacheVars

Push(p) == (p \in Elements /\ (Claim(p) \/ Publish(p) \/ TryBusy(p))) \/ PushDone(p)

Drain(q) == Enter(q) \/ Dequeue(q) \/ Activate(q) \/ Reduce(q) \/ Release(q) \/ Look(q)
            \/ Late(q) \/ FinishCache(q) \/ ToIdle(q) \/ Recheck(q)
            \/ RecheckState(q) \/ ReBusy(q)

SStep(q) == (q \in Procs /\ (Upstream(q) \/ Push(q))) \/ Drain(q)

SNext == \E q \in Runners : SStep(q)

\* Every thread keeps running and every downstream op answers.
SSpec == SInit /\ [][SNext]_allVars /\ \A q \in Runners : WF_allVars(SStep(q))

-----------------------------------------------------------------------------
(* Properties. *)

\* Inside the push of an item, up to the poll_next that answers it.
Busy(q) == at[q] \in {"activate", "reduce"}

\* Accesses the cache in its next step.
Inside(q) == at[q] # "out"

(* sequential: at no time are two elements in the ops downstream of the    *)
(* cache, so the reducer is never entered twice - synchronous and          *)
(* asynchronous answers, late pushes and done included.                    *)
OneDownstream == \A q, r \in Runners : Busy(q) /\ Busy(r) => q = r

(* The reducer sees the elements in the order in which they claimed their  *)
(* place in the cache.                                                     *)
OrderKept == IsPrefix(order, arrivals)

(* With a cache that never fills, done is pushed downstream only after     *)
(* every element has been reduced, and then nothing is left in the cache.  *)
NothingLost == freed => result = Elements /\ cache = <<>>

(* Done frees the stream scope, the cache with it: nobody may still be     *)
(* inside drain_single or on its way there.                                *)
NoCacheUseAfterFree ==
  freed => /\ \A q \in Runners : ~Inside(q)
           /\ \A p \in Procs : pc[p] = "gone"

(* The pipeline completes: the hand-over of the push right between the     *)
(* pushers, the answering threads and done loses no item and no signal.    *)
SCompletes == <>freed

=============================================================================
