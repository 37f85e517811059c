----------------------------- MODULE BoundedStream -----------------------------
(***************************************************************************)
(* What for_each >> concurrent(max) >> ... >> reduce promises: elements    *)
(* are started in range order, at most MaxPending of them are outstanding, *)
(* each is delivered once, in any order, and the stream finishes once,     *)
(* after the last delivery.                                                *)
(***************************************************************************)
EXTENDS Integers, FiniteSets

CONSTANTS N, MaxPending

VARIABLES started, outstanding, finished

avars == <<started, outstanding, finished>>

AInit == started = 0 /\ outstanding = {} /\ finished = FALSE

StartElement ==
  /\ started < N
  /\ MaxPending = 0 \/ Cardinality(outstanding) < MaxPending
  /\ started' = started + 1
  /\ outstanding' = outstanding \cup {started + 1}
  /\ UNCHANGED finished

Deliver(e) ==
  /\ e \in outstanding
  /\ outstanding' = outstanding \ {e}
  /\ UNCHANGED <<started, finished>>

FinishStream ==
  /\ ~finished
  /\ started = N
  /\ outstanding = {}
  /\ finished' = TRUE
  /\ UNCHANGED <<started, outstanding>>

ANext == StartElement \/ (\E e \in 1 .. N : Deliver(e)) \/ FinishStream

\* Nothing is withheld for ever: whatever can happen does.
ASpec == AInit /\ [][ANext]_avars /\ WF_avars(ANext)

\* The safety part alone.
ASafety == AInit /\ [][ANext]_avars

=============================================================================
