-------------------------- MODULE MCConcurrentStream --------------------------
(* Instances of ConcurrentStream for TLC.                                  *)
EXTENDS ConcurrentStream

\* Every process on a thread of its own.
Spread   == [p \in Procs |-> p]
\* The submitting thread and one scheduler.
TwoCores == [p \in Procs |-> IF p = StartProc THEN 0 ELSE 1]

AllThreads == 0 .. N
=============================================================================
