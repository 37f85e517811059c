------------------------------ MODULE PerCoreQueue ------------------------------
(***************************************************************************)
(* core::per_core::queue, the request queue of every scheduler: each core  *)
(* that posts requests has a ring of its own (a BoundedFifo: see           *)
(* SpscQueue), a bitmap tells the owner which rings to look at, and the    *)
(* owner posts to itself through a private queue.  Posting is two steps:   *)
(* the item is visible before its core is marked.  drain() takes a word of *)
(* marks away and then empties the rings it names; try_dequeue() reads the *)
(* marks and takes one item.                                               *)
(***************************************************************************)
EXTENDS Integers, Sequences, FiniteSetsExt

CONSTANTS
  Sources,      \* the cores that post, other than the owner
  WordBits,     \* marks in a word of the bitmap (64)
  Words,        \* words of the bitmap (BITMAP_WORDS)
  Room,         \* items a ring, or the private queue, can hold
  AbortOnFull,  \* abort_on_full
  Requests,     \* what is posted
  Calls         \* bound: calls made by each poster, the handlers included

Owner   == -1   \* the owner's posts, which use no ring
Posters == Sources \cup {Owner}

ASSUME CoresAssumption ==
  /\ Words \in Nat /\ WordBits \in Nat \ {0}
  /\ Sources \subseteq 0 .. Words * WordBits - 1
ASSUME RoomAssumption  == Room \in Nat /\ Calls \in Nat /\ AbortOnFull \in BOOLEAN

\* The cores whose mark is in word w.
InWord(w) == {s \in Sources : w * WordBits <= s /\ s < (w + 1) * WordBits}

VARIABLES
  queues_, local_q_,  \* the rings and the private queue
  active_mask_,       \* the marked cores
  posting,            \* cores between try_enqueue's two steps
  calls,              \* calls each poster has made
  pc,                 \* where the owner is in drain or try_dequeue
  op,                 \* which of the two
  word, mask, core,   \* the loop's word, its copy of the marks, the ring it empties
  aborted             \* a full queue has stopped the process

posters == <<posting, calls>>
owner   == <<pc, op, word, mask, core>>
vars    == <<queues_, local_q_, active_mask_, posters, owner, aborted>>

-----------------------------------------------------------------------------
(* try_enqueue from another core. *)

\* The ring takes the item, or is full: abort, or false.
Post(s, r) ==
  /\ s \notin posting /\ calls[s] < Calls
  /\ calls' = [calls EXCEPT ![s] = @ + 1]
  /\ IF Len(queues_[s]) < Room
       THEN /\ queues_' = [queues_ EXCEPT ![s] = Append(@, r)]
            /\ posting' = posting \cup {s}
            /\ UNCHANGED aborted
       ELSE /\ aborted' = AbortOnFull
            /\ UNCHANGED <<queues_, posting>>
  /\ UNCHANGED <<local_q_, active_mask_, owner>>

Mark(s) ==
  /\ s \in posting
  /\ active_mask_' = active_mask_ \cup {s}
  /\ posting' = posting \ {s}
  /\ UNCHANGED <<queues_, local_q_, calls, owner, aborted>>

(* try_enqueue from the owner's own core; q is the private queue as the    *)
(* caller leaves it.                                                       *)
PostLocal(q, r) ==
  /\ calls[Owner] < Calls
  /\ calls' = [calls EXCEPT ![Owner] = @ + 1]
  /\ local_q_' = IF Len(q) < Room THEN Append(q, r) ELSE q
  /\ aborted' = (AbortOnFull /\ Len(q) = Room)

\* The handler of a request runs; it may post to its own core again.
Handler(q) ==
  /\ UNCHANGED posting
  /\ \/ local_q_' = q /\ UNCHANGED <<calls, aborted>>
     \/ \E r \in Requests : PostLocal(q, r)

-----------------------------------------------------------------------------
(* drain and try_dequeue. *)

\* Code outside the queue's own handlers posts locally, too.
PostOwn(r) ==
  /\ pc = "idle"
  /\ PostLocal(local_q_, r)
  /\ UNCHANGED <<queues_, active_mask_, posting, owner>>

Begin(o) ==
  /\ pc = "idle"
  /\ op' = o
  /\ pc' = "local"
  /\ UNCHANGED <<queues_, local_q_, active_mask_, posters, word, mask, core, aborted>>

\* drain goes on until the private queue is empty; try_dequeue returns.
TakeLocal ==
  /\ pc = "local" /\ local_q_ # <<>>
  /\ pc' = IF op = "drain" THEN "local" ELSE "idle"
  /\ Handler(Tail(local_q_))
  /\ UNCHANGED <<queues_, active_mask_, op, word, mask, core>>

NoLocal ==
  /\ pc = "local" /\ local_q_ = <<>>
  /\ pc' = "words" /\ word' = 0
  /\ UNCHANGED <<queues_, local_q_, active_mask_, posters, op, mask, core, aborted>>

\* Mutant: try_dequeue takes the marks away, too.
SnapshotTaken ==
  /\ pc = "words" /\ word < Words
  /\ mask' = active_mask_ \cap InWord(word)
  /\ active_mask_' = active_mask_ \ InWord(word)
  /\ pc' = "visit"
  /\ UNCHANGED <<queues_, local_q_, posters, op, word, core, aborted>>

\* Mutant: the marks of every word are cleared at the first.
SnapshotOfAll ==
  /\ pc = "words" /\ word < Words
  /\ mask' = active_mask_ \cap InWord(word)
  /\ active_mask_' = IF op = "drain" THEN {} ELSE active_mask_
  /\ pc' = "visit"
  /\ UNCHANGED <<queues_, local_q_, posters, op, word, core, aborted>>

\* drain exchanges the word for 0, try_dequeue loads it.
Snapshot ==
  /\ pc = "words" /\ word < Words
  /\ mask' = active_mask_ \cap InWord(word)
  /\ active_mask_' = IF op = "drain" THEN active_mask_ \ InWord(word) ELSE active_mask_
  /\ pc' = "visit"
  /\ UNCHANGED <<queues_, local_q_, posters, op, word, core, aborted>>

\* The lowest marked core of the copy, or the next word.
Visit ==
  /\ pc = "visit"
  /\ IF mask # {}
       THEN /\ core' = Min(mask)
            /\ mask' = mask \ {Min(mask)}
            /\ pc' = "take" /\ UNCHANGED word
       ELSE /\ word' = word + 1
            /\ pc' = "words" /\ UNCHANGED <<mask, core>>
  /\ UNCHANGED <<queues_, local_q_, active_mask_, posters, op, aborted>>

Take ==
  /\ pc = "take" /\ queues_[core] # <<>>
  /\ queues_' = [queues_ EXCEPT ![core] = Tail(@)]
  /\ pc' = IF op = "drain" THEN "take" ELSE "idle"
  /\ Handler(local_q_)
  /\ UNCHANGED <<active_mask_, op, word, mask, core>>

RingIsEmpty ==
  /\ pc = "take" /\ queues_[core] = <<>>
  /\ pc' = "visit"
  /\ UNCHANGED <<queues_, local_q_, active_mask_, posters, op, word, mask, core, aborted>>

End ==
  /\ pc = "words" /\ word = Words
  /\ pc' = "idle"
  /\ UNCHANGED <<queues_, local_q_, active_mask_, posters, op, word, mask, core, aborted>>

\* empty(), which reads no ring.
Empty == local_q_ = <<>> /\ active_mask_ = {}

-----------------------------------------------------------------------------
Init ==
  /\ queues_ = [s \in Sources |-> <<>>] /\ local_q_ = <<>>
  /\ active_mask_ = {}
  /\ posting = {}
  /\ calls = [s \in Posters |-> 0]
  /\ pc = "idle" /\ op = "drain"
  /\ word = 0 /\ mask = {} /\ core = Owner
  /\ aborted = FALSE

Poster(s) == (\E r \in Requests : Post(s, r)) \/ Mark(s)

Scan == TakeLocal \/ NoLocal \/ Snapshot \/ Visit \/ Take \/ RingIsEmpty \/ End

Poll == \E o \in {"drain", "try_dequeue"} : Begin(o)

Next ==
  /\ ~aborted
  /\ \/ \E s \in Sources : Poster(s)
     \/ \E r \in Requests : PostOwn(r)
     \/ Poll \/ Scan

\* The run loop polls for ever, and a call that was begun is finished.
Fairness ==
  /\ WF_vars(~aborted /\ (Poll \/ Scan))
  /\ \A s \in Sources : WF_vars(~aborted /\ Mark(s))

Spec == Init /\ [][Next]_vars /\ Fairness

-----------------------------------------------------------------------------
(* Properties. *)

(* Every variable has its type.                                            *)
TypeOK ==
  /\ queues_ \in [Sources -> Seq(Requests)] /\ local_q_ \in Seq(Requests)
  /\ active_mask_ \subseteq Sources
  /\ posting \subseteq Sources
  /\ calls \in [Posters -> 0 .. Calls]
  /\ pc \in {"idle", "local", "words", "visit", "take"}
  /\ op \in {"drain", "try_dequeue"}
  /\ word \in 0 .. Words
  /\ mask \subseteq Sources
  /\ core \in Posters
  /\ pc = "take" => core \in Sources
  /\ pc \in {"visit", "take"} => word < Words
  /\ aborted \in BOOLEAN

(* The owner will find every ring that holds something: the core is        *)
(* marked, is about to mark itself, or is still ahead in the drain that    *)
(* took its mark away.                                                     *)
NoLostMark ==
  \A s \in Sources :
    queues_[s] # <<>> =>
      \/ s \in active_mask_ \cup posting
      \/ pc \in {"visit", "take"} /\ s \in mask
      \/ pc = "take" /\ s = core

(* The inductive invariant.                                                *)
IInv ==
  /\ TypeOK
  /\ NoLostMark
  /\ op = "try_dequeue" /\ pc \in {"visit", "take"} => mask \subseteq active_mask_
  /\ op = "try_dequeue" /\ pc = "take" => core \in active_mask_

(* Between its calls the owner may trust empty(): what a core posted in a  *)
(* call that has returned is not hidden from it.                           *)
EmptyIsTrue ==
  pc = "idle" /\ Empty => \A s \in Sources \ posting : queues_[s] = <<>>

(* Every request posted is handled, unless a full queue stops the process. *)
AllHandled ==
  \A s \in Sources : (queues_[s] # <<>>) ~> (queues_[s] = <<>> \/ aborted)

=============================================================================
