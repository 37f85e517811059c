-------------------------- MODULE MCSequentialStream --------------------------
(* Instances of SequentialStream for TLC.                                  *)
EXTENDS SequentialStream

Spread     == [p \in Procs |-> p]
AllThreads == 0 .. N
=============================================================================
