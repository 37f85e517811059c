--------------------------- MODULE ConcurrentStream ---------------------------
(***************************************************************************)
(* The stream engine of pump:                                              *)
(*                                                                         *)
(*     for_each(range) >> concurrent(max) >> ops... >> reduce(init, f)     *)
(*                                                                         *)
(* for_each's runner pulls the range under a one-word poll token; the      *)
(* concurrent starter forks one child scope per element, throttled by      *)
(* pending_status; each child ends in the concurrent counter, which folds  *)
(* the element into the reducer and counts it; whoever brings the count to *)
(* the total pushes "done", which frees the stream scope.                  *)
(*                                                                         *)
(* A process is an execution of handlers on some thread: StartProc is the  *)
(* one that submitted the pipeline, process e the completion of element e. *)
(* Every action is one atomic operation on a shared word (a CAS loop is    *)
(* the CAS that succeeds), or one access to the unsynchronised reducer.    *)
(***************************************************************************)
EXTENDS Integers, FiniteSets

CONSTANTS
  N,          \* length of the range
  MaxPending, \* concurrent(max); 0 is unlimited
  Inline,     \* elements whose ops run in the pusher's own call stack
  Skipped,    \* elements that reach concurrent() as a skip (maybe() found nothing)
  Threads,    \* the scheduler threads
  Home        \* Home[p]: the thread process p runs on (on(scheduler))

StartProc == 0
Elements  == 1 .. N
Procs     == 0 .. N

ASSUME SizesAssumption == N \in Nat /\ MaxPending \in Nat
ASSUME KindsAssumption ==
  /\ Inline \subseteq Elements
  /\ Skipped \subseteq Elements
  /\ Home \in [Procs -> Threads]

VARIABLES
  pc,               \* where each process is
  push_count,       \* runner: elements pushed so far (and the range iterator)
  poll_next_flag,   \* runner: [pending, token], one atomic word in the code
  pending_status,   \* starter: [wait, done], one atomic word
  counter,          \* concurrent_counter: [total, done], one atomic word
  result,           \* reducer: the elements folded in
  loaded,           \* loaded[p]: the copy of result process p is working on
  freed             \* the stream scope has been deleted

vars == <<pc, push_count, poll_next_flag, pending_status, counter, result,
          loaded, freed>>

(***************************************************************************)
(* Control points.  A holder is inside the runner's loop; the child of an  *)
(* element runs fold -> sub (-> poll -> loop ...) -> count.                *)
(***************************************************************************)
Holding == {"loop", "pushed", "nested", "consume"}
Running == Holding \cup {"store", "sub", "poll", "count",
                         "total", "lastTotal", "lastCount"}
Places  == Running \cup {"start", "idle", "flight", "gone"}

Goto(p, place) == pc' = [pc EXCEPT ![p] = place]

\* A handler runs to completion before its thread picks up the next one; an
\* inline or skipped element runs inside the handler that pushed it.
Nested(p) == p \in Inline \cup Skipped

Free(t)   == \A q \in Procs : Home[q] = t /\ ~Nested(q) => pc[q] \notin Running

\* Where a process goes when runner::poll_next returns.
AfterPoll(p) == IF p = StartProc \/ p \in Skipped THEN "gone" ELSE "count"

-----------------------------------------------------------------------------
(* concurrent::starter: the outstanding elements, kept as wait - done. *)

Lesser(a, b) == IF a < b THEN a ELSE b

Cancel(s) ==
  LET both == Lesser(s.wait, s.done)
  IN  [wait |-> s.wait - both, done |-> s.done - both]

\* Mutant: one too many.
HasRoomForOneMore(s) == s.wait <= s.done + MaxPending

HasRoom(s) == s.wait < s.done + MaxPending

AddPending(s) == [Cancel(s) EXCEPT !.wait = @ + 1]
SubPending(s) == [Cancel(s) EXCEPT !.done = @ + 1]

\* Wake the runner only on the transition from full to not full.
Unblocks(s) == ~HasRoom(Cancel(s)) /\ HasRoom(SubPending(s))

-----------------------------------------------------------------------------
(* for_each runner: the poll token. *)

\* Mutant: enters the loop without looking at the token.
TryAcquireAnyway(p, acquired, refused) ==
  /\ poll_next_flag' = [pending |-> poll_next_flag.pending + 1, token |-> 1]
  /\ Goto(p, acquired)

\* try_acquire_for_poll: register a request; take the token if it is free.
TryAcquire(p, acquired, refused) ==
  /\ poll_next_flag' = [pending |-> poll_next_flag.pending + 1, token |-> 1]
  /\ Goto(p, IF poll_next_flag.token = 0 THEN acquired ELSE refused)

\* runner::start, the first acquisition.
Start ==
  /\ pc[StartProc] = "start"
  /\ TryAcquire(StartProc, "loop", "loop")
  /\ UNCHANGED <<push_count, pending_status, counter, result, loaded, freed>>

\* The range has an element: count it and push it into a fresh child scope.
Launch(p) ==
  /\ pc[p] = "loop"
  /\ push_count < N
  /\ push_count' = push_count + 1
  /\ pc' = [pc EXCEPT ![p] = "pushed", ![push_count + 1] = "flight"]
  /\ UNCHANGED <<poll_next_flag, pending_status, counter, result, loaded, freed>>

\* The range is exhausted: drop the token, then report the stream done.
EndOfRange(p) ==
  /\ pc[p] = "loop"
  /\ push_count = N
  /\ poll_next_flag' = [pending |-> 0, token |-> 0]
  /\ Goto(p, "total")
  /\ UNCHANGED <<push_count, pending_status, counter, result, loaded, freed>>

\* Mutant: drops the token without serving the requests that came meanwhile.
ConsumeForgets(p) ==
  /\ pc[p] = "consume"
  /\ poll_next_flag' = [pending |-> 0, token |-> 0]
  /\ Goto(p, AfterPoll(p))
  /\ UNCHANGED <<push_count, pending_status, counter, result, loaded, freed>>

\* consume_and_continue: one request served; keep the token while more remain.
Consume(p) ==
  /\ pc[p] = "consume"
  /\ IF poll_next_flag.pending > 1
     THEN /\ poll_next_flag' = [pending |-> poll_next_flag.pending - 1, token |-> 1]
          /\ Goto(p, "loop")
     ELSE /\ poll_next_flag' = [pending |-> 0, token |-> 0]
          /\ Goto(p, AfterPoll(p))
  /\ UNCHANGED <<push_count, pending_status, counter, result, loaded, freed>>

-----------------------------------------------------------------------------
(* concurrent::starter, on the pushing side. *)

\* The push into the child scope has returned.
Returned == Nested(push_count) => pc[push_count] = "gone"

\* Limited: count the element as outstanding; ask for the next if there is room.
Add(p) ==
  /\ pc[p] = "pushed"
  /\ MaxPending > 0
  /\ push_count \notin Skipped
  /\ Returned
  /\ pending_status' = AddPending(pending_status)
  /\ Goto(p, IF HasRoom(AddPending(pending_status)) THEN "nested" ELSE "consume")
  /\ UNCHANGED <<push_count, poll_next_flag, counter, result, loaded, freed>>

\* Ask for the next element from inside the runner's own loop: always when
\* unlimited, and after Add found room.  The token is already held.
Repoll(p) ==
  /\ \/ pc[p] = "nested"
     \/ pc[p] = "pushed" /\ MaxPending = 0 /\ push_count \notin Skipped /\ Returned
  /\ TryAcquire(p, "loop", "consume")
  /\ UNCHANGED <<push_count, pending_status, counter, result, loaded, freed>>

\* concurrent::starter has no push_skip: the base handler passed the skip to
\* the reducer, and no request for the next element is made.
SkipReturned(p) ==
  /\ pc[p] = "pushed"
  /\ push_count \in Skipped
  /\ Returned
  /\ Goto(p, "consume")
  /\ UNCHANGED <<push_count, poll_next_flag, pending_status, counter, result,
                 loaded, freed>>

-----------------------------------------------------------------------------
(* The completion of element e: concurrent_counter_wrapper and reduce. *)

\* reduce's func reads the accumulator (value, exception and skip alike) ...
FoldLoad(e) ==
  /\ pc[e] = "flight"
  /\ Nested(e) \/ Free(Home[e])
  /\ loaded' = [loaded EXCEPT ![e] = result]
  /\ Goto(e, "store")
  /\ UNCHANGED <<push_count, poll_next_flag, pending_status, counter, result, freed>>

\* ... and writes it back.
FoldStore(e) ==
  /\ pc[e] = "store"
  /\ result' = loaded[e] \cup {e}
  /\ Goto(e, "sub")
  /\ UNCHANGED <<push_count, poll_next_flag, pending_status, counter, loaded, freed>>

\* reduce calls poll_next on the starter: one element fewer outstanding.
Sub(e) ==
  /\ pc[e] = "sub"
  /\ IF MaxPending = 0
     THEN /\ Goto(e, AfterPoll(e))
          /\ UNCHANGED pending_status
     ELSE /\ pending_status' = SubPending(pending_status)
          /\ Goto(e, IF Unblocks(pending_status) THEN "poll" ELSE AfterPoll(e))
  /\ UNCHANGED <<push_count, poll_next_flag, counter, result, loaded, freed>>

\* The starter calls poll_next on the runner.
Poll(e) ==
  /\ pc[e] = "poll"
  /\ TryAcquire(e, "loop", AfterPoll(e))
  /\ UNCHANGED <<push_count, pending_status, counter, result, loaded, freed>>

\* Mutant: compares with what has been pushed so far, not with the total.
CountToPushed(e) ==
  /\ pc[e] = "count"
  /\ counter' = [counter EXCEPT !.done = @ + 1]
  /\ Goto(e, IF counter.done + 1 = push_count THEN "lastCount" ELSE "gone")
  /\ UNCHANGED <<push_count, poll_next_flag, pending_status, result, loaded, freed>>

\* add_done, after the value has gone downstream.
Count(e) ==
  /\ pc[e] = "count"
  /\ counter' = [counter EXCEPT !.done = @ + 1]
  /\ Goto(e, IF counter.total > 0 /\ counter.done + 1 = counter.total - 1
             THEN "lastCount" ELSE "gone")
  /\ UNCHANGED <<push_count, poll_next_flag, pending_status, result, loaded, freed>>

\* push_stream_done: publish the number of elements pushed.
SetTotal(p) ==
  /\ pc[p] = "total"
  /\ counter' = [counter EXCEPT !.total = @ + push_count + 1]
  /\ Goto(p, IF counter.done = push_count THEN "lastTotal" ELSE AfterPoll(p))
  /\ UNCHANGED <<push_count, poll_next_flag, pending_status, result, loaded, freed>>

\* counter_push_done: reduce takes the result, the stream scope is deleted
\* and the result goes to the enclosing pipeline.
Finish(p) ==
  /\ pc[p] \in {"lastTotal", "lastCount"}
  /\ freed' = TRUE
  /\ Goto(p, IF pc[p] = "lastTotal" THEN AfterPoll(p) ELSE "gone")
  /\ UNCHANGED <<push_count, poll_next_flag, pending_status, counter, result, loaded>>

-----------------------------------------------------------------------------
Init ==
  /\ pc = [p \in Procs |-> IF p = StartProc THEN "start" ELSE "idle"]
  /\ push_count = 0
  /\ poll_next_flag = [pending |-> 0, token |-> 0]
  /\ pending_status = [wait |-> 0, done |-> 0]
  /\ counter = [total |-> 0, done |-> 0]
  /\ result = {}
  /\ loaded = [p \in Procs |-> {}]
  /\ freed = FALSE

Loop(p) == Launch(p) \/ EndOfRange(p) \/ Consume(p) \/ Add(p) \/ Repoll(p)
           \/ SkipReturned(p) \/ SetTotal(p) \/ Finish(p)

Complete(e) == FoldLoad(e) \/ FoldStore(e) \/ Sub(e) \/ Poll(e) \/ Count(e)

Step(p) == Loop(p) \/ (p = StartProc /\ Start) \/ (p \in Elements /\ Complete(p))

Next == \E p \in Procs : Step(p)

\* Every thread keeps running, and every element's ops eventually complete.
Fairness == \A p \in Procs : WF_vars(Step(p))

Spec == Init /\ [][Next]_vars /\ Fairness

-----------------------------------------------------------------------------
(* Properties. *)

InFlight == {e \in Elements : pc[e] \in {"flight", "store", "sub"}}
Counted  == {e \in Elements \ Skipped : pc[e] \in {"lastCount", "gone"}}

(* Every variable has its type; the packed words never leave the range the *)
(* code packs them into.                                                   *)
TypeOK ==
  /\ pc \in [Procs -> Places]
  /\ push_count \in 0 .. N
  /\ poll_next_flag \in [pending : 0 .. 2, token : {0, 1}]
  /\ pending_status \in [wait : Nat, done : Nat]
  /\ counter \in [total : {0, N + 1}, done : 0 .. N]
  /\ result \subseteq Elements
  /\ loaded \in [Procs -> SUBSET Elements]
  /\ freed \in BOOLEAN

(* The range iterator and push_count are plain memory: whatever the        *)
(* interleaving of polls (the starter's, the reducer's, the first one), at *)
(* most one process is inside the runner's loop, and the token says so.    *)
ExclusiveRunner ==
  /\ \A p, q \in Procs : pc[p] \in Holding /\ pc[q] \in Holding => p = q
  /\ poll_next_flag.token = 1 <=> \E p \in Procs : pc[p] \in Holding

(* concurrent(max) never has more than max elements between their launch   *)
(* and their delivery to the reducer.                                      *)
ConcurrencyBound == MaxPending > 0 => Cardinality(InFlight) <= MaxPending

(* for_each reports the end of the range to the counter once: a second     *)
(* set_total would add a second total to the packed word.                  *)
StreamDoneOnce ==
  /\ \A p, q \in Procs : pc[p] = "total" /\ pc[q] = "total" => p = q
  /\ counter.total # 0 => \A p \in Procs : pc[p] # "total"

(* Done is pushed by exactly one process, and when it frees the stream     *)
(* scope every other process has made its last access to the runner, the   *)
(* starter, the counter and the reducer.                                   *)
NoAccessAfterFree == freed => \A p \in Procs : pc[p] = "gone"

(* The result handed downstream accounts for every element. *)
ResultExact == freed => result = Elements

-----------------------------------------------------------------------------
(***************************************************************************)
(* The inductive invariant behind the safety properties.  The engine moves *)
(* a single permission to pull the next element from place to place: a     *)
(* process about to poll, a request registered with the token's holder, or *)
(* nobody while the starter is full.  Two of them would mean two pushers.  *)
(***************************************************************************)

\* The processes that carry the permission.
Permitted == {"start", "poll", "loop", "pushed", "nested"}

Outstanding == pending_status.wait - pending_status.done
Full        == MaxPending > 0 /\ Outstanding = MaxPending
Ended       == counter.total # 0 \/ \E p \in Procs : pc[p] = "total"

LifeInv ==
  /\ pc[StartProc] \in Holding \cup {"start", "total", "lastTotal", "gone"}
  /\ \A e \in Elements : pc[e] # "start" /\ (pc[e] = "idle" <=> e > push_count)
  /\ pc[StartProc] = "start" => push_count = 0 /\ poll_next_flag.pending = 0
  /\ \A e \in Skipped : pc[e] \notin {"count", "lastCount"}

TokenInv ==
  /\ ExclusiveRunner
  /\ poll_next_flag.token = 0 => poll_next_flag.pending = 0
  /\ \A p \in Procs :
       /\ pc[p] \in {"loop", "pushed", "nested"} => poll_next_flag.pending = 1
       /\ pc[p] = "consume" => poll_next_flag.pending \in {1, 2}

PermitInv ==
  /\ \A p, q \in Procs : pc[p] \in Permitted /\ pc[q] \in Permitted => p = q
  /\ poll_next_flag.pending = 2 => \A p \in Procs : pc[p] \notin Permitted
  /\ IF MaxPending = 0 THEN \A p \in Procs : pc[p] # "poll"
                       ELSE Outstanding <= MaxPending
  /\ Full => /\ \A p \in Procs : pc[p] \notin Permitted
             /\ poll_next_flag.pending <= 1
  /\ Ended => /\ push_count = N
              /\ ~Full
              /\ \A p \in Procs : pc[p] \notin Permitted \cup Holding

Deciding == \/ \E p \in Procs : pc[p] \in Permitted
            \/ poll_next_flag.pending = 2
            \/ Full

BoundInv ==
  MaxPending > 0 =>
    /\ Cardinality(InFlight) <= MaxPending
    /\ Deciding =>
         Cardinality(InFlight) =
           Outstanding + (IF \E p \in Procs : pc[p] = "pushed" THEN 1 ELSE 0)

CountInv ==
  /\ StreamDoneOnce
  /\ counter.done = Cardinality(Counted)
  /\ \A p \in Procs : pc[p] \in {"lastTotal", "lastCount"} =>
       /\ counter.total # 0 /\ counter.done = N /\ ~freed
       /\ \A q \in Procs : pc[q] \in {"lastTotal", "lastCount"} => p = q
  /\ freed => /\ counter.total # 0 /\ counter.done = N
              /\ \A p \in Procs : pc[p] \notin {"lastTotal", "lastCount"}

(* All of it together: preserved by every step of the engine.              *)
IInv == TypeOK /\ LifeInv /\ TokenInv /\ PermitInv /\ BoundInv /\ CountInv

(***************************************************************************)
(* When all completions share a thread, the reducer's read and write are   *)
(* never separated by another completion.                                  *)
(***************************************************************************)
OneReducer ==
  /\ Inline = {} /\ Skipped = {}
  /\ \A d, e \in Elements : Home[d] = Home[e]

(* The result is exactly the set of elements whose fold is complete: no    *)
(* completion works on a stale copy of the accumulator.                    *)
FoldInv ==
  /\ \A d, e \in Elements : pc[d] \in Running /\ pc[e] \in Running => d = e
  /\ result = {e \in Elements : pc[e] \notin {"idle", "flight", "store"}}
  /\ \A e \in Elements : pc[e] = "store" => loaded[e] = result

-----------------------------------------------------------------------------
\* The engine as an implementation of what it promises.
Abstract == INSTANCE BoundedStream
              WITH started <- push_count, outstanding <- InFlight, finished <- freed

(* The interleaved machinery of tokens, permits and counters implements a  *)
(* bounded stream: in-order starts, at most MaxPending outstanding, one    *)
(* finish after the last delivery - and every fair run makes all that      *)
(* progress.                                                               *)
Refines == Abstract!ASpec

=============================================================================
