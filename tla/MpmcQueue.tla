------------------------------- MODULE MpmcQueue -------------------------------
(***************************************************************************)
(* core::mpmc::queue, the bounded queue of sequence-numbered cells, and    *)
(* core::mpsc::queue, whose one consumer moves head_ with a plain store.   *)
(* An action is one access to a shared word, or to a cell's value, which   *)
(* is plain memory.  Positions are unsigned words that wrap at Width.      *)
(***************************************************************************)
EXTENDS Integers, Sequences, FiniteSets

CONSTANTS
  Capacity,    \* number of cells, a power of two
  Width,       \* 2^32 in the code
  Producers, Consumers,  \* calls on either side; a thread that makes both is two
  Items, Blank,
  Nobody,
  Sole,        \* the one consumer, when the queue is an mpsc::queue
  MaxLag       \* no call is overtaken by more claims than this while it runs

ASSUME QueueAssumption ==
  /\ Capacity \in Nat \ {0} /\ Width \in Nat /\ Width % (2 * Capacity) = 0
  /\ MaxLag \in Nat /\ 2 * (MaxLag + Capacity) <= Width
  /\ Sole \in Consumers /\ Producers \cap Consumers = {}

VARIABLES
  kind,               \* "mpmc" or "mpsc": which queue this is, for ever
  tail_, head_,
  sequence, cell,     \* of each buffer cell: its sequence number and its value
  pc, pos,            \* of each process: where it is, and its local pos
  value, result       \* a producer's argument, a consumer's result

vars == <<kind, tail_, head_, sequence, cell, pc, pos, value, result>>

Mpsc  == kind = "mpsc"
Procs == Producers \cup Consumers
Cells == 0 .. Capacity - 1
Words == 0 .. Width - 1

CellOf(w)    == w % Capacity              \* w & mask_
Plus(w, n)   == (w + n) % Width
Minus(a, b)  == (a - b) % Width
\* (int32_t)a - (int32_t)b
Signed(a, b) == IF Minus(a, b) < Width \div 2 THEN Minus(a, b) ELSE Minus(a, b) - Width

Goto(p, place) == pc' = [pc EXCEPT ![p] = place]
At(p, w)       == pos' = [pos EXCEPT ![p] = w]

\* The call returns: its locals are gone.
Return(p) == /\ Goto(p, "idle") /\ At(p, 0)
             /\ value' = [q \in Producers |-> IF q = p THEN Blank ELSE value[q]]

\* No other call in progress falls MaxLag claims behind.
InTime(p, word) == \A q \in Procs \ {p} :
  pc[q] \in {"seq", "cas"} /\ (q \in Producers <=> p \in Producers) => Minus(word, pos[q]) < MaxLag

-----------------------------------------------------------------------------
(* try_enqueue. *)

Enqueue(p) ==
  /\ pc[p] = "idle"
  /\ \E v \in Items : value' = [value EXCEPT ![p] = v]
  /\ At(p, tail_)
  /\ Goto(p, "seq")
  /\ UNCHANGED <<kind, tail_, head_, sequence, cell, result>>

\* Mutant: fails when another producer was faster.
CheckFreeOrFail(p) ==
  /\ pc[p] = "seq"
  /\ LET dif == Signed(sequence[CellOf(pos[p])], pos[p])
     IN  \/ dif = 0 /\ Goto(p, "cas") /\ UNCHANGED <<pos, value>>
         \/ dif # 0 /\ Return(p)
  /\ UNCHANGED <<kind, tail_, head_, sequence, cell, result>>

\* The cell is free for this position, still occupied, or already claimed.
CheckFree(p) ==
  /\ pc[p] = "seq"
  /\ LET dif == Signed(sequence[CellOf(pos[p])], pos[p])
     IN  \/ dif = 0 /\ Goto(p, "cas") /\ UNCHANGED <<pos, value>>
         \/ dif < 0 /\ Return(p)
         \/ dif > 0 /\ At(p, tail_) /\ UNCHANGED <<pc, value>>
  /\ UNCHANGED <<kind, tail_, head_, sequence, cell, result>>

ClaimTail(p) ==
  /\ pc[p] = "cas"
  /\ IF tail_ = pos[p]
     THEN /\ InTime(p, tail_)
          /\ tail_' = Plus(tail_, 1)
          /\ Goto(p, "write")
          /\ UNCHANGED pos
     ELSE /\ At(p, tail_)
          /\ Goto(p, "seq")
          /\ UNCHANGED tail_
  /\ UNCHANGED <<kind, head_, sequence, cell, value, result>>

Write(p) ==
  /\ pc[p] = "write"
  /\ cell' = [cell EXCEPT ![CellOf(pos[p])] = value[p]]
  /\ Goto(p, "publish")
  /\ UNCHANGED <<kind, tail_, head_, sequence, pos, value, result>>

Publish(p) ==
  /\ pc[p] = "publish"
  /\ sequence' = [sequence EXCEPT ![CellOf(pos[p])] = Plus(pos[p], 1)]
  /\ Return(p)
  /\ UNCHANGED <<kind, tail_, head_, cell, result>>

-----------------------------------------------------------------------------
(* try_dequeue. *)

Dequeue(c) ==
  /\ pc[c] = "idle"
  /\ At(c, head_)
  /\ Goto(c, "seq")
  /\ UNCHANGED <<kind, tail_, head_, sequence, cell, value, result>>

\* Mutant: takes a cell that is not published yet.
CheckReadyNever(c) ==
  /\ pc[c] = "seq"
  /\ LET dif == Signed(sequence[CellOf(pos[c])], Plus(pos[c], 1))
     IN  \/ dif <= 0 /\ Goto(c, "cas") /\ UNCHANGED <<pos, value>>
         \/ dif > 0 /\ Return(c)
  /\ UNCHANGED <<kind, tail_, head_, sequence, cell, result>>

\* The cell holds the item of this position, none yet, or was taken already
\* (which the single consumer of an mpsc queue does not distinguish).
CheckReady(c) ==
  /\ pc[c] = "seq"
  /\ LET dif == Signed(sequence[CellOf(pos[c])], Plus(pos[c], 1))
     IN  \/ dif = 0 /\ Goto(c, "cas") /\ UNCHANGED <<pos, value>>
         \/ (dif < 0 \/ (dif > 0 /\ Mpsc)) /\ Return(c)
         \/ dif > 0 /\ ~Mpsc /\ At(c, head_) /\ UNCHANGED <<pc, value>>
  /\ UNCHANGED <<kind, tail_, head_, sequence, cell, result>>

\* Mutant: mpsc's store in the mpmc queue.
TakeHeadBlindly(c) ==
  /\ pc[c] = "cas"
  /\ InTime(c, head_)
  /\ head_' = Plus(pos[c], 1)
  /\ Goto(c, "read")
  /\ UNCHANGED <<kind, tail_, sequence, cell, pos, value, result>>

TakeHead(c) ==
  /\ pc[c] = "cas"
  /\ IF head_ = pos[c] \/ Mpsc
     THEN /\ InTime(c, head_)
          /\ head_' = Plus(pos[c], 1)
          /\ Goto(c, "read")
          /\ UNCHANGED pos
     ELSE /\ At(c, head_)
          /\ Goto(c, "seq")
          /\ UNCHANGED head_
  /\ UNCHANGED <<kind, tail_, sequence, cell, value, result>>

Read(c) ==
  /\ pc[c] = "read"
  /\ result' = [result EXCEPT ![c] = cell[CellOf(pos[c])]]
  /\ Goto(c, "recycle")
  /\ UNCHANGED <<kind, tail_, head_, sequence, cell, pos, value>>

Recycle(c) ==
  /\ pc[c] = "recycle"
  /\ sequence' = [sequence EXCEPT ![CellOf(pos[c])] = Plus(pos[c], Capacity)]
  /\ Return(c)
  /\ UNCHANGED <<kind, tail_, head_, cell, result>>

-----------------------------------------------------------------------------
Init ==
  /\ kind \in {"mpmc", "mpsc"}
  /\ tail_ = 0 /\ head_ = 0
  /\ sequence = [i \in Cells |-> i]
  /\ cell = [i \in Cells |-> Blank]
  /\ pc = [p \in Procs |-> "idle"]
  /\ pos = [p \in Procs |-> 0]
  /\ value = [p \in Producers |-> Blank]
  /\ result = [c \in Consumers |-> Blank]

Producer(p) == Enqueue(p) \/ CheckFree(p) \/ ClaimTail(p) \/ Write(p) \/ Publish(p)
Consumer(c) == Dequeue(c) \/ CheckReady(c) \/ TakeHead(c) \/ Read(c) \/ Recycle(c)

Next == \/ \E p \in Producers : Producer(p)
        \/ \E c \in IF Mpsc THEN {Sole} ELSE Consumers : Consumer(c)

Spec == Init /\ [][Next]_vars

-----------------------------------------------------------------------------
(* Properties. *)

\* Claimed and not taken; taken and not yet recycled.
Claimed   == Minus(tail_, head_)
Recycling == {c \in Consumers : pc[c] \in {"read", "recycle"}}

(* A cell's value is plain memory: no two processes are in one cell.       *)
NoCellRace ==
  \A p, q \in Procs :
    /\ p # q
    /\ pc[p] \in {"write", "publish", "read", "recycle"}
    /\ pc[q] \in {"write", "publish", "read", "recycle"}
    => CellOf(pos[p]) # CellOf(pos[q])

\* The abstract slots.
Ready(w) == sequence[CellOf(w)] = Plus(w, 1)
Owner(w) == IF Ready(w) THEN Nobody
            ELSE CHOOSE p \in Producers : pc[p] \in {"write", "publish"} /\ pos[p] = w
Slots    == [k \in 1 .. Claimed |->
               LET w == Plus(head_, k - 1)
               IN  [owner |-> Owner(w),
                    item  |-> IF Ready(w) THEN cell[CellOf(w)] ELSE Blank,
                    ready |-> Ready(w)]]
Taken    == [c \in Consumers |->
               IF pc[c] = "read" THEN cell[CellOf(pos[c])] ELSE result[c]]

Abstract == INSTANCE SlotQueue
              WITH slots <- Slots, emptying <- Recycling, taken <- Taken,
                   Bound <- Capacity

(* The cells implement a queue of slots: items leave in the order their    *)
(* slots were claimed, each to one consumer, intact.                       *)
IsSlotQueue == Abstract!SSpec

(* try_enqueue and try_dequeue fail only when they should: when the cell   *)
(* next in turn is claimed or a consumer is still emptying it, and when    *)
(* the queue is empty or its oldest item not yet published.                *)
FailsOnlyWhenDue ==
  [][/\ \A p \in Producers : pc[p] = "seq" /\ pc'[p] = "idle" =>
          \/ Claimed = Capacity
          \/ \E c \in Recycling : CellOf(pos[c]) = CellOf(tail_)
     /\ \A c \in Consumers : pc[c] = "seq" /\ pc'[c] = "idle" =>
          Claimed = 0 \/ ~Ready(head_)]_vars

=============================================================================
