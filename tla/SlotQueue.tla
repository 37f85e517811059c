------------------------------- MODULE SlotQueue -------------------------------
(***************************************************************************)
(* What a bounded queue of slots promises its producers and consumers: a   *)
(* producer claims the next slot and publishes its item there later; slots *)
(* are taken oldest first, only once published, by one consumer each; a    *)
(* slot can be claimed again only when its consumer has emptied it.        *)
(***************************************************************************)
EXTENDS Integers, Sequences, FiniteSets

CONSTANTS Producers, Consumers, Items, Bound, Nobody, Blank

VARIABLES
  slots,      \* the claimed slots, oldest first: [owner, item, ready]
  emptying,   \* the consumers that have taken a slot and not emptied it yet
  taken       \* taken[c]: the last item consumer c took

svars == <<slots, emptying, taken>>

SInit ==
  /\ slots = <<>>
  /\ emptying = {}
  /\ taken = [c \in Consumers |-> Blank]

ClaimSlot(p) ==
  /\ Len(slots) + Cardinality(emptying) < Bound
  /\ slots' = Append(slots, [owner |-> p, item |-> Blank, ready |-> FALSE])
  /\ UNCHANGED <<emptying, taken>>

PublishItem(p, v) ==
  /\ \E k \in DOMAIN slots :
       /\ slots[k].owner = p /\ ~slots[k].ready
       /\ slots' = [slots EXCEPT ![k] = [owner |-> Nobody, item |-> v, ready |-> TRUE]]
  /\ UNCHANGED <<emptying, taken>>

TakeItem(c) ==
  /\ slots # <<>> /\ Head(slots).ready
  /\ c \notin emptying
  /\ slots' = Tail(slots)
  /\ emptying' = emptying \cup {c}
  /\ taken' = [taken EXCEPT ![c] = Head(slots).item]

EmptySlot(c) ==
  /\ c \in emptying
  /\ emptying' = emptying \ {c}
  /\ UNCHANGED <<slots, taken>>

SNext == \/ \E p \in Producers : ClaimSlot(p) \/ \E v \in Items : PublishItem(p, v)
         \/ \E c \in Consumers : TakeItem(c) \/ EmptySlot(c)

SSpec == SInit /\ [][SNext]_svars

=============================================================================
