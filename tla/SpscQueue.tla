------------------------------- MODULE SpscQueue -------------------------------
(***************************************************************************)
(* core::spsc::queue: a ring of Capacity slots between one producer and    *)
(* one consumer.  Each side owns its index, reads the other side's, and    *)
(* keeps a cached copy of it that it refreshes only when the copy says     *)
(* full or empty; one slot stays empty.  An action is one access to an     *)
(* index, or to a slot: the slots are plain memory.                        *)
(***************************************************************************)
EXTENDS Integers, Sequences

CONSTANTS
  Capacity,   \* number of slots, a power of two
  Items,      \* what is enqueued
  Blank       \* a default-constructed item

ASSUME CapacityAssumption == Capacity \in Nat \ {0}

Slots == 0 .. Capacity - 1
Cells == Items \cup {Blank}

\* (i + 1) & mask_, and the distance from i up to j around the ring.
Next1(i)      == IF i = Capacity - 1 THEN 0 ELSE i + 1
Distance(i,j) == IF i <= j THEN j - i ELSE j - i + Capacity

VARIABLES
  tail_, head_,               \* the published indices
  head_cache_, tail_cache_,   \* the producer's copy of head_, the consumer's of tail_
  buffer_,                    \* the slots
  ppc, cpc,                   \* where try_enqueue and try_dequeue are
  value,                      \* the producer's argument
  got                         \* what the consumer read

spscVars == <<tail_, head_, head_cache_, tail_cache_, buffer_, ppc, cpc, value, got>>

consumerVars == <<head_, tail_cache_, cpc, got>>
producerVars == <<tail_, head_cache_, buffer_, ppc, value>>

-----------------------------------------------------------------------------
(* try_enqueue. *)

\* The call: room according to the cached head?
Enqueue(v) ==
  /\ ppc = "idle"
  /\ value' = v
  /\ ppc' = IF Next1(tail_) = head_cache_ THEN "refresh" ELSE "write"
  /\ UNCHANGED <<tail_, head_cache_, buffer_, consumerVars>>

\* Mutant: takes the refreshed head for room.
RefreshHeadAndWrite ==
  /\ ppc = "refresh"
  /\ head_cache_' = head_
  /\ ppc' = "write"
  /\ UNCHANGED <<tail_, buffer_, value, consumerVars>>

\* Reload head_; still full: the call fails.
RefreshHead ==
  /\ ppc = "refresh"
  /\ head_cache_' = head_
  /\ ppc' = IF Next1(tail_) = head_ THEN "idle" ELSE "write"
  /\ UNCHANGED <<tail_, buffer_, value, consumerVars>>

WriteSlot ==
  /\ ppc = "write"
  /\ buffer_' = [buffer_ EXCEPT ![tail_] = value]
  /\ ppc' = "publish"
  /\ UNCHANGED <<tail_, head_cache_, value, consumerVars>>

PublishTail ==
  /\ ppc = "publish"
  /\ tail_' = Next1(tail_)
  /\ ppc' = "idle"
  /\ UNCHANGED <<head_cache_, buffer_, value, consumerVars>>

-----------------------------------------------------------------------------
(* try_dequeue. *)

\* Mutant: does not look whether there is an item.
DequeueAnyway ==
  /\ cpc = "idle"
  /\ cpc' = "read"
  /\ UNCHANGED <<head_, tail_cache_, got, producerVars>>

\* The call: an item according to the cached tail?
Dequeue ==
  /\ cpc = "idle"
  /\ cpc' = IF head_ = tail_cache_ THEN "refresh" ELSE "read"
  /\ UNCHANGED <<head_, tail_cache_, got, producerVars>>

\* Reload tail_; still empty: the call fails.
RefreshTail ==
  /\ cpc = "refresh"
  /\ tail_cache_' = tail_
  /\ cpc' = IF head_ = tail_ THEN "idle" ELSE "read"
  /\ UNCHANGED <<head_, got, producerVars>>

ReadSlot ==
  /\ cpc = "read"
  /\ got' = buffer_[head_]
  /\ cpc' = "release"
  /\ UNCHANGED <<head_, tail_cache_, producerVars>>

ReleaseHead ==
  /\ cpc = "release"
  /\ head_' = Next1(head_)
  /\ cpc' = "idle"
  /\ UNCHANGED <<tail_cache_, got, producerVars>>

-----------------------------------------------------------------------------
SpscInit ==
  /\ tail_ = 0 /\ head_ = 0
  /\ head_cache_ = 0 /\ tail_cache_ = 0
  /\ buffer_ = [s \in Slots |-> Blank]
  /\ ppc = "idle" /\ cpc = "idle"
  /\ value = Blank /\ got = Blank

Producer == (\E v \in Items : Enqueue(v)) \/ RefreshHead \/ WriteSlot \/ PublishTail
Consumer == Dequeue \/ RefreshTail \/ ReadSlot \/ ReleaseHead

SpscNext == Producer \/ Consumer

\* The consumer polls for ever.
SpscSpec == SpscInit /\ [][SpscNext]_spscVars /\ WF_spscVars(Consumer)

-----------------------------------------------------------------------------
(* Properties. *)

(* Every variable has its type: indices stay within the ring.              *)
SpscTypeOK ==
  /\ tail_ \in Slots /\ head_ \in Slots
  /\ head_cache_ \in Slots /\ tail_cache_ \in Slots
  /\ buffer_ \in [Slots -> Cells]
  /\ ppc \in {"idle", "refresh", "write", "publish"}
  /\ cpc \in {"idle", "refresh", "read", "release"}
  /\ value \in Cells /\ got \in Cells
  /\ ppc # "idle" => value \in Items

(* The slots are plain memory: the producer never writes the slot that the *)
(* consumer is reading, although each side decides from a stale copy of    *)
(* the other's index.                                                      *)
NoSlotRace == ~(ppc = "write" /\ cpc = "read" /\ tail_ = head_)

\* The contents: the slots from head_ up to tail_.
Slot(k)  == IF head_ + k < Capacity THEN head_ + k ELSE head_ + k - Capacity
Contents == [k \in 1 .. Distance(head_, tail_) |-> buffer_[Slot(k - 1)]]

Fifo == INSTANCE BoundedFifo WITH Bound <- Capacity - 1, items <- Contents

(* The ring is a FIFO of Capacity - 1 items: nothing is lost, duplicated,  *)
(* overwritten or taken before it was written, at any wrap of the indices. *)
IsFifo == Fifo!FSpec

(* The cached copies are conservative: they never claim room or items that *)
(* are not there.                                                          *)
CacheInv ==
  /\ Distance(head_cache_, head_) + Distance(head_, tail_) = Distance(head_cache_, tail_)
  /\ Distance(head_, tail_cache_) + Distance(tail_cache_, tail_) = Distance(head_, tail_)
  /\ ppc \in {"write", "publish"} => Next1(tail_) # head_cache_
  /\ ppc = "publish" => buffer_[tail_] = value
  /\ cpc \in {"read", "release"} => head_ # tail_cache_
  /\ cpc = "release" => got = buffer_[head_]

(* The invariant that makes the ring a FIFO. *)
SpscInv == SpscTypeOK /\ CacheInv

=============================================================================
