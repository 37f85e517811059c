--------------------------------- MODULE Joins ---------------------------------
(* What when_any and when_all share: the branches, which the starter       *)
(* submits in order, and the processes that complete them.                 *)
EXTENDS Integers, FiniteSets

CONSTANTS
  B,        \* number of branches
  Sync,     \* branches that complete inside their push_value
  Throws    \* branches whose first op may throw out of push_value

Starter  == 0
Branches == 1 .. B
Procs    == 0 .. B

ASSUME BranchAssumption == B \in Nat \ {0}
ASSUME KindAssumption   == Sync \subseteq Branches /\ Throws \subseteq Branches
================================================================================
