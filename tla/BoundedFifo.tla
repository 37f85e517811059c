------------------------------ MODULE BoundedFifo ------------------------------
(***************************************************************************)
(* What a queue between one producer and one consumer promises: items come *)
(* out in the order they went in, each once, and at most Bound are inside. *)
(***************************************************************************)
EXTENDS Integers, Sequences

CONSTANTS Items, Bound

VARIABLES items   \* the queue's contents, oldest first

FInit == items = <<>>

Put(v) == Len(items) < Bound /\ items' = Append(items, v)

Take == items # <<>> /\ items' = Tail(items)

FNext == (\E v \in Items : Put(v)) \/ Take

FSpec == FInit /\ [][FNext]_items

=============================================================================
