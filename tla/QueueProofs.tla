------------------------------ MODULE QueueProofs ------------------------------
(***************************************************************************)
(* Proofs about SpscQueue: for every capacity and whatever is enqueued the *)
(* ring is a FIFO and its two sides never touch one slot at a time.        *)
(* Proofs about PerCoreQueue: for every number of cores, layout of the     *)
(* bitmap and mix of drain and try_dequeue, no request is left in a ring   *)
(* that its owner will not look at.                                        *)
(***************************************************************************)
EXTENDS SpscQueue, PerCoreQueue, SequenceTheorems, WellFoundedInduction, TLAPS

-----------------------------------------------------------------------------
(* spsc::queue.                                                            *)

\* The ring's arithmetic.
LEMMA RingFacts ==
  /\ \A i \in Slots : Next1(i) \in Slots
  /\ \A i, j \in Slots : Distance(i, j) \in 0 .. Capacity - 1
  /\ \A i, j \in Slots : Distance(i, j) = 0 <=> i = j
BY CapacityAssumption DEF Slots, Next1, Distance

\* The initial state of the ring satisfies its invariant.
LEMMA RingInit == SpscInit => SpscInv
BY CapacityAssumption DEF SpscInit, SpscInv, SpscTypeOK, CacheInv, Slots, Cells, Distance

\* Every step of try_enqueue keeps the invariant.
LEMMA ProducerKeeps == ASSUME SpscInv, Producer PROVE SpscInv'
<1> USE DEF SpscInv, consumerVars
<1>1. CASE \E v \in Items : Enqueue(v)
  BY <1>1 DEF Enqueue, SpscTypeOK, CacheInv, Cells
<1>2. CASE RefreshHead
  BY <1>2, CapacityAssumption DEF RefreshHead, SpscTypeOK, CacheInv, Distance, Next1, Slots
<1>3. CASE WriteSlot
  BY <1>3, CapacityAssumption DEF WriteSlot, SpscTypeOK, CacheInv, Distance, Next1, Slots, Cells
<1>4. CASE PublishTail
  BY <1>4, CapacityAssumption DEF PublishTail, SpscTypeOK, CacheInv, Distance, Next1, Slots
<1> QED
  BY <1>1, <1>2, <1>3, <1>4 DEF Producer

\* Every step of try_dequeue keeps the invariant.
LEMMA ConsumerKeeps == ASSUME SpscInv, Consumer PROVE SpscInv'
<1> USE DEF SpscInv, producerVars
<1>1. CASE Dequeue
  BY <1>1 DEF Dequeue, SpscTypeOK, CacheInv
<1>2. CASE RefreshTail
  BY <1>2, CapacityAssumption DEF RefreshTail, SpscTypeOK, CacheInv, Distance, Next1, Slots
<1>3. CASE ReadSlot
  BY <1>3 DEF ReadSlot, SpscTypeOK, CacheInv
<1>4. CASE ReleaseHead
  BY <1>4, CapacityAssumption DEF ReleaseHead, SpscTypeOK, CacheInv, Distance, Next1, Slots
<1> QED
  BY <1>1, <1>2, <1>3, <1>4 DEF Consumer

(* The invariant holds in every state, for every capacity.                 *)
THEOREM RingInvariance == SpscSpec => []SpscInv
<1>1. SpscInv /\ [SpscNext]_spscVars => SpscInv'
  <2>1. ASSUME SpscInv, UNCHANGED spscVars PROVE SpscInv'
    BY <2>1 DEF SpscInv, SpscTypeOK, CacheInv, spscVars, consumerVars, producerVars
  <2> QED
    BY <2>1, ProducerKeeps, ConsumerKeeps DEF SpscNext
<1> QED
  BY <1>1, RingInit, PTL DEF SpscSpec

(* Producer and consumer never touch the same slot at the same time.       *)
THEOREM SlotsAreSafe == SpscSpec => []NoSlotRace
<1>1. SpscInv => NoSlotRace
  BY CapacityAssumption DEF SpscInv, SpscTypeOK, CacheInv, NoSlotRace, Distance, Next1, Slots
<1> QED
  BY <1>1, RingInvariance, PTL

-----------------------------------------------------------------------------
(* The refinement: publishing appends, releasing takes, all else stutters. *)

\* The contents are a sequence of enqueued values.
LEMMA ContentsFacts ==
  SpscInv => /\ Contents \in Seq(Cells)
          /\ Len(Contents) = Distance(head_, tail_)
          /\ Len(Contents) \in Nat
<1> SUFFICES ASSUME SpscInv
             PROVE  /\ Contents \in Seq(Cells)
                    /\ Len(Contents) = Distance(head_, tail_)
                    /\ Len(Contents) \in Nat
  OBVIOUS
<1>1. \A k \in 1 .. Distance(head_, tail_) : Slot(k - 1) \in Slots
  BY CapacityAssumption DEF SpscInv, SpscTypeOK, Slot, Slots, Distance
<1>2. Distance(head_, tail_) \in Nat
  BY RingFacts, CapacityAssumption DEF SpscInv, SpscTypeOK
<1> QED
  BY <1>1, <1>2 DEF Contents, SpscInv, SpscTypeOK

\* Publishing tail_ appends the item to the contents.
LEMMA PublishPuts ==
  ASSUME SpscInv, PublishTail
  PROVE  Fifo!Put(value)
<1> USE DEF PublishTail
<1>1. /\ Distance(head_, tail_') = Distance(head_, tail_) + 1
      /\ Slot(Distance(head_, tail_)) = tail_
      /\ Distance(head_, tail_) < Capacity - 1
  BY CapacityAssumption DEF SpscInv, SpscTypeOK, CacheInv, Distance, Next1, Slots, Slot
<1>2. SpscInv' /\ head_' = head_ /\ buffer_' = buffer_
  BY ProducerKeeps DEF Producer, consumerVars
<1>3. (Contents \in Seq(Cells) /\ Len(Contents) = Distance(head_, tail_))'
  BY <1>2, ContentsFacts, PTL
<1>4. Append(Contents, value) \in Seq(Cells)
  BY ContentsFacts DEF SpscInv, SpscTypeOK
<1>5. ASSUME NEW k \in 1 .. Len(Contents')
      PROVE  Contents'[k] = Append(Contents, value)[k]
  <2>1. k \in 1 .. Distance(head_, tail_) + 1 /\ Distance(head_, tail_) \in Nat
    BY <1>1, <1>2, <1>3, ContentsFacts
  <2>2. Contents'[k] = buffer_[Slot(k - 1)]
    BY <1>1, <1>2, <2>1 DEF Contents, Slot
  <2>3. CASE k = Distance(head_, tail_) + 1
    BY <1>1, <2>1, <2>2, <2>3, ContentsFacts DEF SpscInv, CacheInv
  <2>4. CASE k \in 1 .. Distance(head_, tail_)
    <3>1. Append(Contents, value)[k] = Contents[k]
      BY <2>4, ContentsFacts, AppendProperties DEF SpscInv, SpscTypeOK
    <3> QED
      BY <2>2, <2>4, <3>1 DEF Contents
  <2>5. k = Distance(head_, tail_) + 1 \/ k \in 1 .. Distance(head_, tail_)
    BY <2>1
  <2> QED
    BY <2>3, <2>4, <2>5
<1>6. Contents' = Append(Contents, value)
  BY <1>1, <1>2, <1>3, <1>4, <1>5, ContentsFacts, SeqEqual
<1> QED
  BY <1>1, <1>6, ContentsFacts DEF Fifo!Put

\* Publishing head_ removes the oldest item.
LEMMA ReleaseTakes ==
  ASSUME SpscInv, ReleaseHead
  PROVE  Fifo!Take
<1> USE DEF ReleaseHead
<1>1. /\ Distance(head_', tail_) = Distance(head_, tail_) - 1
      /\ Distance(head_, tail_) > 0
  BY CapacityAssumption DEF SpscInv, SpscTypeOK, CacheInv, Distance, Next1, Slots
<1>2. SpscInv' /\ tail_' = tail_ /\ buffer_' = buffer_
  BY ConsumerKeeps DEF Consumer, producerVars
<1>3. \A k \in 1 .. Distance(head_, tail_) - 1 : Slot(k - 1)' = Slot(k)
  BY CapacityAssumption DEF SpscInv, SpscTypeOK, Slot, Next1, Slots, Distance
<1>4. (Contents \in Seq(Cells) /\ Len(Contents) = Distance(head_, tail_))'
  BY <1>2, ContentsFacts, PTL
<1>5. /\ Contents # <<>>
      /\ Tail(Contents) \in Seq(Cells)
      /\ Len(Tail(Contents)) = Distance(head_, tail_) - 1
      /\ \A k \in 1 .. Len(Tail(Contents)) : Tail(Contents)[k] = Contents[k + 1]
  BY <1>1, ContentsFacts, HeadTailProperties, EmptySeq
<1>6. ASSUME NEW k \in 1 .. Len(Contents')
      PROVE  Contents'[k] = Tail(Contents)[k]
  <2>1. k \in 1 .. Distance(head_, tail_) - 1 /\ Distance(head_, tail_) \in Nat
    BY <1>1, <1>2, <1>4, ContentsFacts
  <2>2. Contents'[k] = buffer_[Slot(k)]
    BY <1>1, <1>2, <1>3, <2>1 DEF Contents
  <2>3. Contents[k + 1] = buffer_[Slot(k)]
    BY <2>1 DEF Contents
  <2> QED
    BY <1>5, <2>1, <2>2, <2>3
<1>7. Contents' = Tail(Contents)
  BY <1>1, <1>2, <1>4, <1>5, <1>6, SeqEqual
<1> QED
  BY <1>5, <1>7 DEF Fifo!Take

\* No other step changes the contents.
LEMMA OthersStutter ==
  ASSUME SpscInv, [SpscNext]_spscVars, ~PublishTail, ~ReleaseHead
  PROVE  UNCHANGED Contents
<1>1. CASE UNCHANGED <<head_, tail_, buffer_>>
  BY <1>1 DEF Contents, Slot
<1>2. CASE WriteSlot
  <2>1. \A k \in 1 .. Distance(head_, tail_) : Slot(k - 1) # tail_
    BY CapacityAssumption DEF SpscInv, SpscTypeOK, Slot, Slots, Distance
  <2>2. head_' = head_ /\ tail_' = tail_
    BY <1>2 DEF WriteSlot, consumerVars
  <2>3. \A k \in 1 .. Distance(head_, tail_) : buffer_'[Slot(k - 1)] = buffer_[Slot(k - 1)]
    BY <1>2, <2>1 DEF WriteSlot, SpscInv, SpscTypeOK
  <2> QED
    BY <2>2, <2>3 DEF Contents, Slot
<1> QED
  BY <1>1, <1>2 DEF SpscNext, Producer, Consumer, Enqueue, RefreshHead, Dequeue, RefreshTail,
       ReadSlot, spscVars, consumerVars, producerVars

(* The ring implements a FIFO queue of Capacity - 1 items: nothing is      *)
(* lost, duplicated, reordered or overwritten.                             *)
THEOREM RingIsFifo == SpscSpec => IsFifo
<1>1. SpscInit => Fifo!FInit
  BY CapacityAssumption DEF SpscInit, Fifo!FInit, Contents, Distance
<1>2. SpscInv /\ [SpscNext]_spscVars => [Fifo!FNext]_Contents
  <2>1. ASSUME SpscInv, PublishTail PROVE Fifo!FNext
    BY <2>1, PublishPuts DEF Fifo!FNext, SpscInv, SpscTypeOK, PublishTail
  <2>2. ASSUME SpscInv, ReleaseHead PROVE Fifo!FNext
    BY <2>2, ReleaseTakes DEF Fifo!FNext
  <2> QED
    BY <2>1, <2>2, OthersStutter
<1> QED
  BY <1>1, <1>2, RingInvariance, PTL DEF SpscSpec, IsFifo, Fifo!FSpec

-----------------------------------------------------------------------------
(* per_core::queue.                                                        *)

\* Appending to and taking from a sequence stays within the sequences.
LEMMA QueueFacts ==
  ASSUME NEW S, NEW q \in Seq(S)
  PROVE  /\ \A r \in S : Append(q, r) \in Seq(S)
         /\ q # <<>> => Tail(q) \in Seq(S)
         /\ Len(q) \in Nat
BY HeadTailProperties

\* A set of core numbers that is not empty has a lowest one.
LEMMA LowestCore ==
  ASSUME NEW S \in SUBSET Nat, S # {}
  PROVE  Min(S) \in S
<1> DEFINE Below == {pair \in Nat \X Nat : pair[1] < pair[2]}
<1>1. IsWellFoundedOn(Below, Nat)
  BY NatLessThanWellFounded DEF OpToRel
<1>2. PICK x \in S : \A y \in S : <<y, x>> \notin Below
  BY <1>1, WFMin
<1>3. ASSUME NEW y \in S PROVE x <= y
  <2>1. x \in Nat /\ y \in Nat /\ ~(<<y, x>>[1] < <<y, x>>[2])
    BY <1>2
  <2> QED
    BY <2>1
<1> QED
  BY <1>3 DEF Min

\* The initial states satisfy the invariant.
LEMMA BitmapInit == Init => IInv
BY CoresAssumption, RoomAssumption DEF Init, IInv, TypeOK, NoLostMark, Posters, Owner

\* A handler leaves the types and everything that is not local alone.
LEMMA HandlerTypes ==
  ASSUME IInv, NEW q \in Seq(Requests), Handler(q)
  PROVE  /\ local_q_' \in Seq(Requests)
         /\ calls' \in [Posters -> 0 .. Calls]
         /\ aborted' \in BOOLEAN
         /\ posting' = posting
<1>1. CASE local_q_' = q /\ UNCHANGED <<calls, aborted>>
  BY <1>1 DEF IInv, TypeOK, Handler
<1>2. CASE \E r \in Requests : PostLocal(q, r)
  <2>1. PICK r \in Requests : PostLocal(q, r)
    BY <1>2
  <2>2. local_q_' \in Seq(Requests)
    BY <2>1, QueueFacts DEF PostLocal
  <2>3. calls' \in [Posters -> 0 .. Calls]
    BY <2>1, RoomAssumption DEF PostLocal, IInv, TypeOK, Posters
  <2>4. aborted' \in BOOLEAN
    BY <2>1, RoomAssumption DEF PostLocal
  <2> QED
    BY <2>2, <2>3, <2>4 DEF Handler
<1> QED
  BY <1>1, <1>2 DEF Handler

\* The steps of the posting cores.
LEMMA PosterKeeps ==
  ASSUME IInv, NEW s \in Sources, Poster(s)
  PROVE  IInv'
<1> USE DEF IInv, owner
<1>1. CASE \E r \in Requests : Post(s, r)
  <2>1. PICK r \in Requests : Post(s, r)
    BY <1>1
  <2>2. calls' \in [Posters -> 0 .. Calls]
    BY <2>1, RoomAssumption DEF Post, TypeOK, Posters
  <2>3. CASE Len(queues_[s]) < Room
    <3>1. queues_' = [queues_ EXCEPT ![s] = Append(@, r)] /\ posting' = posting \cup {s}
      BY <2>1, <2>3 DEF Post
    <3>2. queues_' \in [Sources -> Seq(Requests)]
      BY <3>1, QueueFacts DEF TypeOK
    <3>3. \A t \in Sources : queues_'[t] # <<>> => queues_[t] # <<>> \/ t = s
      BY <3>1 DEF TypeOK
    <3> QED
      BY <2>1, <2>2, <2>3, <3>1, <3>2, <3>3 DEF Post, TypeOK, NoLostMark
  <2>4. CASE ~(Len(queues_[s]) < Room)
    BY <2>1, <2>2, <2>4, RoomAssumption DEF Post, TypeOK, NoLostMark
  <2> QED
    BY <2>3, <2>4
<1>2. CASE Mark(s)
  BY <1>2 DEF Mark, TypeOK, NoLostMark
<1> QED
  BY <1>1, <1>2 DEF Poster

\* The steps of the owner outside the handlers.
LEMMA OwnerKeeps ==
  ASSUME IInv, Poll \/ NoLocal \/ Snapshot \/ Visit \/ RingIsEmpty \/ End
  PROVE  IInv'
<1> USE DEF IInv, posters
<1>1. CASE Poll
  BY <1>1 DEF Poll, Begin, TypeOK, NoLostMark
<1>2. CASE NoLocal
  BY <1>2, CoresAssumption DEF NoLocal, TypeOK, NoLostMark
<1>3. CASE Snapshot
  <2>1. ASSUME NEW s \in Sources, s \in active_mask_, s \notin active_mask_'
        PROVE  s \in mask'
    BY <1>3, <2>1 DEF Snapshot
  <2> QED
    BY <1>3, <2>1, CoresAssumption DEF Snapshot, TypeOK, NoLostMark, InWord
<1>4. CASE Visit
  <2>1. CASE mask # {}
    <3>1. Min(mask) \in mask
      BY <2>1, LowestCore, CoresAssumption DEF TypeOK
    <3> QED
      BY <1>4, <2>1, <3>1 DEF Visit, TypeOK, NoLostMark, Posters
  <2>2. CASE mask = {}
    BY <1>4, <2>2, CoresAssumption DEF Visit, TypeOK, NoLostMark
  <2> QED
    BY <2>1, <2>2
<1>5. CASE RingIsEmpty
  BY <1>5 DEF RingIsEmpty, TypeOK, NoLostMark
<1>6. CASE End
  BY <1>6 DEF End, TypeOK, NoLostMark
<1> QED
  BY <1>1, <1>2, <1>3, <1>4, <1>5, <1>6

\* The steps that take a request and run its handler.
LEMMA HandlerKeeps ==
  ASSUME IInv, TakeLocal \/ Take
  PROVE  IInv'
<1> USE DEF IInv
<1>1. CASE TakeLocal
  <2>1. Tail(local_q_) \in Seq(Requests) /\ Handler(Tail(local_q_))
    BY <1>1, QueueFacts DEF TakeLocal, TypeOK
  <2> QED
    BY <1>1, <2>1, HandlerTypes DEF TakeLocal, TypeOK, NoLostMark
<1>2. CASE Take
  <2>1. /\ core \in Sources /\ queues_[core] # <<>>
        /\ queues_' = [queues_ EXCEPT ![core] = Tail(@)]
        /\ Handler(local_q_)
    BY <1>2 DEF Take, TypeOK
  <2>2. queues_' \in [Sources -> Seq(Requests)]
    BY <2>1, QueueFacts DEF TypeOK
  <2>3. \A s \in Sources : queues_'[s] # <<>> => queues_[s] # <<>>
    BY <2>1 DEF TypeOK
  <2> QED
    BY <1>2, <2>2, <2>3, HandlerTypes DEF Take, TypeOK, NoLostMark
<1> QED
  BY <1>1, <1>2

\* Posts by the owner outside the handlers.
LEMMA PostOwnKeeps ==
  ASSUME IInv, NEW r \in Requests, PostOwn(r)
  PROVE  IInv'
<1>1. Handler(local_q_)
  BY DEF PostOwn, Handler
<1> QED
  BY <1>1, HandlerTypes DEF PostOwn, owner, IInv, TypeOK, NoLostMark

(* The invariant holds in every state, for every layout of the bitmap.     *)
THEOREM BitmapInvariance == Spec => []IInv
<1>1. IInv /\ [Next]_vars => IInv'
  <2>1. ASSUME IInv, UNCHANGED vars PROVE IInv'
    BY <2>1 DEF IInv, TypeOK, NoLostMark, vars, posters, owner
  <2> QED
    BY <2>1, PosterKeeps, OwnerKeeps, HandlerKeeps, PostOwnKeeps DEF Next, Scan
<1> QED
  BY <1>1, BitmapInit, PTL DEF Spec

(* A ring that holds a request is marked, about to be marked, or ahead in  *)
(* the drain that took its mark: no wakeup is lost.                        *)
THEOREM MarksAreKept == Spec => []NoLostMark
<1>1. IInv => NoLostMark
  BY DEF IInv
<1> QED
  BY <1>1, BitmapInvariance, PTL

(* Between its calls the owner may rely on empty() for every post that has *)
(* returned.                                                               *)
THEOREM EmptyCanBeTrusted == Spec => []EmptyIsTrue
<1>1. IInv => EmptyIsTrue
  BY DEF IInv, NoLostMark, EmptyIsTrue, Empty
<1> QED
  BY <1>1, BitmapInvariance, PTL

================================================================================
