------------------------------ MODULE CudaRuns ------------------------------
(***************************************************************************)
(* The CUDA scheduler (src/env/scheduler/cuda/scheduler.hh): gpu::run      *)
(* requests wait in a bounded queue; advance() runs their work, which puts *)
(* operations on one stream, records an event behind them and polls the    *)
(* events for the callbacks.  Events are reused, and so are the device     *)
(* blocks that a work takes with scoped_alloc(): they go back to the pool  *)
(* when the work returns, while the stream has not come to it yet.         *)
(* The stream executes in order, at its own pace (external).               *)
(***************************************************************************)
EXTENDS Integers, Sequences, FiniteSets, SequencesExt

CONSTANTS Works,        \* request -> number of blocks its work takes
          QueueRoom     \* bound of req_q_

ASSUME WorksAssumption == \A r \in DOMAIN Works : Works[r] \in Nat

VARIABLES gpu_q,        \* req_q_
          stream_,      \* what the stream has not executed yet
          memory,       \* device block -> its content
          free_blocks,  \* dev_pool_.free_lists of the one size class
          event_pool_,  \* events to reuse
          recorded,     \* event -> its record is still in the stream
          pending_,     \* <<event, request>> whose callback is to come
          read,         \* request -> what its kernel has read, copied out
          answered,     \* request -> the callbacks it got
          asked         \* requests that were scheduled and taken

gvars == <<gpu_q, stream_, memory, free_blocks, event_pool_, recorded,
           pending_, read, answered, asked>>

Runs == DOMAIN Works

GpuInit ==
    /\ gpu_q = <<>> /\ stream_ = <<>>
    /\ memory = <<>> /\ free_blocks = <<>>
    /\ event_pool_ = <<>> /\ recorded = <<>>
    /\ pending_ = <<>>
    /\ read = [r \in Runs |-> {}]
    /\ answered = [r \in Runs |-> <<>>]
    /\ asked = {}

(* schedule(): the answer of a full queue is not looked at.  The request is*)
(* lost then, a step that changes nothing here.                            *)
Schedule(r) ==
    /\ r \notin asked
    /\ asked' = asked \cup {r}
    /\ Len(gpu_q) < QueueRoom
    /\ gpu_q' = Append(gpu_q, r)
    /\ UNCHANGED <<stream_, memory, free_blocks, event_pool_, recorded,
                   pending_, read, answered>>

-----------------------------------------------------------------------------
(* MUTANT an alloc() that does not take the block off the free list.       *)
BlocksNotTaken(n) ==
    LET known == Len(free_blocks)
        pooled == [i \in 1..(IF n < known THEN n ELSE known) |->
                      free_blocks[known]]
    IN  pooled \o [i \in 1..(n - Len(pooled)) |-> Len(memory) + i]

(* alloc(): from the back of the free list, else new blocks.               *)
Pooled(n) == IF n < Len(free_blocks) THEN n ELSE Len(free_blocks)
Blocks(n) ==
    [i \in 1..n |-> IF i <= Pooled(n) THEN free_blocks[Len(free_blocks) + 1 - i]
                    ELSE Len(memory) + i - Pooled(n)]

(* free(), in the reverse order, at the end of the work's scope.           *)
Freed(blocks) ==
    SubSeq(free_blocks, 1, Len(free_blocks) - Pooled(Len(blocks)))
       \o Reverse(blocks)

(* The work of r: each block is filled from the host (h2d), then a kernel  *)
(* reads them all and the result is copied back (launch, d2h).             *)
Operations(r, blocks) ==
    [i \in DOMAIN blocks |->
        [op |-> "fill", block |-> blocks[i], value |-> <<r, i>>]]
    \o <<[op |-> "kernel", blocks |-> blocks, run |-> r]>>

(* acquire_event(): the pool's last, else a new one.                       *)
Event == IF event_pool_ # <<>> THEN Last(event_pool_) ELSE Len(recorded) + 1
EventsLeft == IF event_pool_ # <<>> THEN Front(event_pool_) ELSE <<>>

(* MUTANT an event recorded before the work.                               *)
RecordedFirst(ops, e) == <<[op |-> "event", event |-> e]>> \o ops

RecordedBehind(ops, e) == ops \o <<[op |-> "event", event |-> e]>>

(* The work throws: what it has put on the stream stays there.             *)
WorkThrows(r, ops, blocks) ==
    /\ \E n \in 0..Len(ops) : stream_' = stream_ \o SubSeq(ops, 1, n)
    /\ answered' = [answered EXCEPT ![r] = Append(@, "exception")]
    /\ UNCHANGED <<event_pool_, recorded, pending_>>

WorkDone(r, ops) ==
    /\ stream_' = stream_ \o RecordedBehind(ops, Event)
    /\ event_pool_' = EventsLeft
    /\ recorded' = [e \in DOMAIN recorded \cup {Event} |->
                       e = Event \/ recorded[e]]
    /\ pending_' = Append(pending_, <<Event, r>>)
    /\ UNCHANGED answered

(* advance(), first half: one request of the drain.                        *)
Drain ==
    /\ gpu_q # <<>>
    /\ gpu_q' = Tail(gpu_q)
    /\ LET r == Head(gpu_q)
           blocks == Blocks(Works[r])
           ops == Operations(r, blocks) IN
       /\ memory' = [b \in DOMAIN memory \cup ToSet(blocks) |->
                        IF b \in DOMAIN memory THEN memory[b] ELSE <<>>]
       /\ free_blocks' = Freed(blocks)
       /\ WorkThrows(r, ops, blocks) \/ WorkDone(r, ops)
    /\ UNCHANGED <<read, asked>>

(* The GPU executes the next operation of the stream.                      *)
ExecuteNext ==
    /\ stream_ # <<>>
    /\ stream_' = Tail(stream_)
    /\ LET o == Head(stream_) IN
       /\ memory' = IF o.op = "fill"
                    THEN [memory EXCEPT ![o.block] = o.value] ELSE memory
       /\ read' = IF o.op = "kernel"
                  THEN [read EXCEPT ![o.run] =
                           {memory[b] : b \in ToSet(o.blocks)}]
                  ELSE read
       /\ recorded' = IF o.op = "event"
                      THEN [recorded EXCEPT ![o.event] = FALSE] ELSE recorded
    /\ UNCHANGED <<gpu_q, free_blocks, event_pool_, pending_, answered, asked>>

(* MUTANT a loop that goes on behind the erased entry: the next callback   *)
(* is lost with it.                                                        *)
ErasedTooFar(i) ==
    SubSeq(pending_, 1, i - 1) \o SubSeq(pending_, i + 2, Len(pending_))

PendingErased(i) == RemoveAt(pending_, i)

(* advance(), second half: cuEventQuery() succeeds where no record of the  *)
(* event is left in the stream.  The stream may get on between two queries.*)
PollEvent(i) ==
    /\ i \in DOMAIN pending_
    /\ ~recorded[pending_[i][1]]
    /\ answered' = [answered EXCEPT ![pending_[i][2]] = Append(@, "value")]
    /\ event_pool_' = Append(event_pool_, pending_[i][1])
    /\ pending_' = PendingErased(i)
    /\ UNCHANGED <<gpu_q, stream_, memory, free_blocks, recorded, read, asked>>

GpuAdvance == Drain \/ \E i \in DOMAIN pending_ : PollEvent(i)

GpuNext == (\E r \in Runs : Schedule(r)) \/ GpuAdvance \/ ExecuteNext

GpuSpec == GpuInit /\ [][GpuNext]_gvars

-----------------------------------------------------------------------------
(* A run whose callback came has been executed to its end, on blocks that  *)
(* held its own data: neither a reused event nor a reused block lets it    *)
(* see another run.  And nobody is answered twice.                         *)
OwnData(r) == {<<r, i>> : i \in 1..Works[r]}
RunsTrue ==
    \A r \in Runs : /\ answered[r] = <<"value">> => read[r] = OwnData(r)
                    /\ Len(answered[r]) <= 1

(* When the scheduler and the GPU have nothing left to do, no queue holds  *)
(* anything, every event that is waited for is still in the stream, and so *)
(* every request that the queue took was answered.                         *)
GpuQuiet ==
    /\ gpu_q = <<>> /\ stream_ = <<>>
    /\ \A i \in DOMAIN pending_ : recorded[pending_[i][1]]
NoneWaits == GpuQuiet => \A r \in asked : answered[r] # <<>>
RunsAnswered == NoneWaits /\ (~ENABLED (GpuAdvance \/ ExecuteNext) => GpuQuiet)

-----------------------------------------------------------------------------
(* Why RunsTrue holds.                                                     *)
Values == {<<>>} \cup (Runs \X Nat)
Commands ==
    [op : {"fill"}, block : Nat, value : Runs \X Nat]
    \cup [op : {"kernel"}, blocks : Seq(Nat), run : Runs]
    \cup [op : {"event"}, event : Nat]

GpuTypeOK ==
    /\ gpu_q \in Seq(Runs)
    /\ stream_ \in Seq(Commands)
    /\ memory \in Seq(Values) /\ free_blocks \in Seq(1..Len(memory))
    /\ recorded \in Seq(BOOLEAN) /\ event_pool_ \in Seq(1..Len(recorded))
    /\ pending_ \in Seq((1..Len(recorded)) \X Runs)
    /\ read \in [Runs -> SUBSET Values]
    /\ answered \in [Runs -> {<<>>, <<"value">>, <<"exception">>}]
    /\ asked \subseteq Runs

\* No block is on the free list twice.
FreeInv == IsInjective(free_blocks)

\* What the k-th operation of the stream will see in block b.
Fills(k, b) == stream_[k].op = "fill" /\ stream_[k].block = b
Sees(k, b, v) ==
    \/ /\ memory[b] = v
       /\ \A j \in 1..k - 1 : ~Fills(j, b)
    \/ \E j \in 1..k - 1 : /\ Fills(j, b) /\ stream_[j].value = v
                           /\ \A l \in j + 1..k - 1 : ~Fills(l, b)
SeesItsOwn(k) ==
    /\ Len(stream_[k].blocks) = Works[stream_[k].run]
    /\ \A i \in 1..Works[stream_[k].run] :
          /\ stream_[k].blocks[i] \in 1..Len(memory)
          /\ Sees(k, stream_[k].blocks[i], <<stream_[k].run, i>>)
StreamInv ==
    \A k \in 1..Len(stream_) :
       CASE stream_[k].op = "fill"   -> stream_[k].block \in 1..Len(memory)
         [] stream_[k].op = "kernel" -> SeesItsOwn(k)
         [] stream_[k].op = "event"  -> stream_[k].event \in 1..Len(recorded)

\* An event is in the pool or waited for, and its record comes once.
Records(k, e) == stream_[k].op = "event" /\ stream_[k].event = e
EventInv ==
    /\ IsInjective(event_pool_)
    /\ \A i \in 1..Len(event_pool_) : ~recorded[event_pool_[i]]
    /\ \A i, j \in 1..Len(pending_) : pending_[i][1] = pending_[j][1] => i = j
    /\ \A i \in 1..Len(event_pool_), j \in 1..Len(pending_) : event_pool_[i] # pending_[j][1]
    /\ \A k, l \in 1..Len(stream_), e \in 1..Len(recorded) : Records(k, e) /\ Records(l, e) => k = l
    /\ \A k \in 1..Len(stream_), e \in 1..Len(recorded) : Records(k, e) => recorded[e]

\* The kernel of a run whose event has gone by has gone by too.
KernelOf(k, r) == stream_[k].op = "kernel" /\ stream_[k].run = r
PendingInv ==
    \A i \in 1..Len(pending_) :
       LET e == pending_[i][1]
           r == pending_[i][2] IN
       \/ read[r] = OwnData(r)
       \/ \E k, l \in 1..Len(stream_) : k < l /\ KernelOf(k, r) /\ Records(l, e)

\* A run waits in one place until it is answered.
AnswerInv ==
    /\ IsInjective(gpu_q)
    /\ \A i, j \in 1..Len(pending_) : pending_[i][2] = pending_[j][2] => i = j
    /\ \A r \in Range(gpu_q) : r \in asked /\ answered[r] = <<>>
    /\ \A i \in 1..Len(pending_) : pending_[i][2] \in asked /\ answered[pending_[i][2]] = <<>>
    /\ \A i \in 1..Len(pending_) : pending_[i][2] \notin Range(gpu_q)
    /\ \A r \in Runs \ asked : answered[r] = <<>>
    /\ \A r \in Runs : answered[r] = <<"value">> => read[r] = OwnData(r)

GpuInv == GpuTypeOK /\ FreeInv /\ StreamInv /\ EventInv /\ PendingInv /\ AnswerInv
=============================================================================
