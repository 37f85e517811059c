----------------------------- MODULE MCMpmcQueue -----------------------------
(* Instances of MpmcQueue for TLC.                                         *)
EXTENDS MpmcQueue, TLC

\* The producers are alike, and the queue never looks at an item.
Alike == Permutations(Producers) \cup Permutations(Items)
=============================================================================
