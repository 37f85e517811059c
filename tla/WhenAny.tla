-------------------------------- MODULE WhenAny --------------------------------
(***************************************************************************)
(* when_any(sender...): the starter submits every branch, the branches     *)
(* race on one atomic word, and the winner's result goes to the parent     *)
(* pipeline once, by the winner or by the starter, whichever of            *)
(* signal_ready and complete_submit comes second.  The race_wrapper is     *)
(* deleted by whoever drops its last reference.                            *)
(*                                                                         *)
(* Process i is the execution that completes branch i (value, error, done  *)
(* and skip race alike); process 0 is the starter.  Every action is one    *)
(* atomic operation on the word, or one access to the plain result.        *)
(***************************************************************************)
EXTENDS Joins, Sequences

VARIABLES
  at,           \* where each process is
  submitted,    \* submit_senders: branches pushed so far
  flags,        \* state: the set of bits FINISHED, READY, SUBMITTED
  refs,         \* state: the reference count
  result,       \* winner_index and result: the branch stored, or None
  pushes,       \* history: what push_to_parent has sent, oldest first
  left,         \* references the catch block still has to give back
  deleted,      \* the race_wrapper has been deleted
  parent_done   \* the parent pipeline has ended and its scope is deleted

raceVars == <<at, submitted, flags, refs, result, pushes, left, deleted, parent_done>>

None == 0
Bits == {"FINISHED", "READY", "SUBMITTED"}
Goto(p, place) == at' = [at EXCEPT ![p] = place]

\* Will touch the race_wrapper.
Referring == {"submit", "compensate", "running", "store", "ready", "push", "release"}
Places    == Referring \cup {"idle", "gone"}

-----------------------------------------------------------------------------
(* The starter. *)

\* submit_senders: a synchronous branch completes before the push returns.
Submit ==
  /\ at[Starter] = "submit"
  /\ submitted < B
  /\ submitted \in Sync => at[submitted] = "gone"
  /\ submitted' = submitted + 1
  /\ Goto(submitted + 1, "running")
  /\ UNCHANGED <<flags, refs, result, pushes, left, deleted, parent_done>>

\* Mutant: gives back the references of the running branches as well.
ThrowGivesAllBack ==
  /\ at[Starter] = "submit"
  /\ submitted + 1 \in Throws
  /\ submitted \in Sync => at[submitted] = "gone"
  /\ left' = B
  /\ Goto(Starter, "compensate")
  /\ UNCHANGED <<submitted, flags, refs, result, pushes, deleted, parent_done>>

\* The push throws: give back the references of this branch and the unstarted.
Throw ==
  /\ at[Starter] = "submit"
  /\ submitted + 1 \in Throws
  /\ submitted \in Sync => at[submitted] = "gone"
  /\ left' = B - submitted
  /\ Goto(Starter, "compensate")
  /\ UNCHANGED <<submitted, flags, refs, result, pushes, deleted, parent_done>>

Compensate ==
  /\ at[Starter] = "compensate"
  /\ left' = left - 1
  /\ refs' = refs - 1
  /\ deleted' = (deleted \/ refs = 1)
  /\ IF left = 1 THEN Goto(Starter, "gone") ELSE UNCHANGED at
  /\ UNCHANGED <<submitted, flags, result, pushes, parent_done>>

\* Mutant: leaves the push to the winner.
CompleteSubmitOnly ==
  /\ at[Starter] = "submit"
  /\ submitted = B
  /\ B \in Sync => at[B] = "gone"
  /\ flags' = flags \cup {"SUBMITTED"}
  /\ Goto(Starter, "release")
  /\ UNCHANGED <<submitted, refs, result, pushes, left, deleted, parent_done>>

\* complete_submit: push if the result is ready already.
CompleteSubmit ==
  /\ at[Starter] = "submit"
  /\ submitted = B
  /\ B \in Sync => at[B] = "gone"
  /\ flags' = flags \cup {"SUBMITTED"}
  /\ Goto(Starter, IF "READY" \in flags THEN "push" ELSE "release")
  /\ UNCHANGED <<submitted, refs, result, pushes, left, deleted, parent_done>>

-----------------------------------------------------------------------------
(* Branch i completes: set_value, set_error, set_done, set_skip. *)

\* Mutant: every branch wins.
ClaimAnyway(i) ==
  /\ at[i] = "running"
  /\ flags' = flags \cup {"FINISHED"}
  /\ Goto(i, "store")
  /\ UNCHANGED <<submitted, refs, result, pushes, left, deleted, parent_done>>

\* The branch's ops have run; the first branch to set FINISHED wins.
Claim(i) ==
  /\ at[i] = "running"
  /\ flags' = flags \cup {"FINISHED"}
  /\ Goto(i, IF "FINISHED" \in flags THEN "release" ELSE "store")
  /\ UNCHANGED <<submitted, refs, result, pushes, left, deleted, parent_done>>

Store(i) ==
  /\ at[i] = "store"
  /\ result' = i
  /\ Goto(i, "ready")
  /\ UNCHANGED <<submitted, flags, refs, pushes, left, deleted, parent_done>>

\* Mutant: the winner does not wait for the starter.
SignalReadyAtOnce(i) ==
  /\ at[i] = "ready"
  /\ flags' = flags \cup {"READY"}
  /\ Goto(i, "push")
  /\ UNCHANGED <<submitted, refs, result, pushes, left, deleted, parent_done>>

\* signal_ready: push if every branch has been submitted.
SignalReady(i) ==
  /\ at[i] = "ready"
  /\ flags' = flags \cup {"READY"}
  /\ Goto(i, IF "SUBMITTED" \in flags THEN "push" ELSE "release")
  /\ UNCHANGED <<submitted, refs, result, pushes, left, deleted, parent_done>>

-----------------------------------------------------------------------------
\* push_to_parent.
PushToParent(p) ==
  /\ at[p] = "push"
  /\ pushes' = Append(pushes, result)
  /\ Goto(p, "release")
  /\ UNCHANGED <<submitted, flags, refs, result, left, deleted, parent_done>>

\* release_ref: the last reference deletes the wrapper.
Release(p) ==
  /\ at[p] = "release"
  /\ refs' = refs - 1
  /\ deleted' = (deleted \/ refs = 1)
  /\ Goto(p, "gone")
  /\ UNCHANGED <<submitted, flags, result, pushes, left, parent_done>>

\* The catch block has thrown on, to the op upstream of when_any.
Rethrown == at[Starter] = "gone" /\ "SUBMITTED" \notin flags

\* Downstream of when_any the pipeline runs to its end, within the push or
\* later, and deletes the scope that holds the ops of every branch.
ParentEnds ==
  /\ pushes # <<>> \/ Rethrown
  /\ ~parent_done
  /\ parent_done' = TRUE
  /\ UNCHANGED <<at, submitted, flags, refs, result, pushes, left, deleted>>

-----------------------------------------------------------------------------
RaceInit ==
  /\ at = [p \in Procs |-> IF p = Starter THEN "submit" ELSE "idle"]
  /\ submitted = 0
  /\ flags = {}
  /\ refs = B + 1
  /\ result = None
  /\ pushes = <<>>
  /\ left = 0
  /\ deleted = FALSE
  /\ parent_done = FALSE

Starts       == Submit \/ Throw \/ Compensate \/ CompleteSubmit
Races(i)     == Claim(i) \/ Store(i) \/ SignalReady(i)
Step(p)      == \/ p = Starter /\ Starts
                \/ p \in Branches /\ Races(p)
                \/ PushToParent(p)
                \/ Release(p)

RaceNext == (\E p \in Procs : Step(p)) \/ ParentEnds

\* The submitting thread goes on, and every branch that was submitted completes.
RaceSpec == RaceInit /\ [][RaceNext]_raceVars /\ \A p \in Procs : WF_raceVars(Step(p))

-----------------------------------------------------------------------------
(* Properties. *)

(* Every variable has its type: the reference count never drops below zero *)
(* and no branch is submitted twice.                                       *)
RaceTypeOK ==
  /\ at \in [Procs -> Places]
  /\ submitted \in 0 .. B
  /\ flags \subseteq Bits
  /\ refs \in 0 .. B + 1
  /\ result \in 0 .. B
  /\ pushes \in Seq(0 .. B)
  /\ left \in 0 .. B
  /\ deleted \in BOOLEAN /\ parent_done \in BOOLEAN

(* The parent is pushed at most once, by the winner or by the starter, and *)
(* with the complete result of the winner.                                 *)
PushedOnce ==
  /\ Len(pushes) <= 1
  /\ pushes # <<>> => pushes[1] # None /\ pushes[1] = result

(* However early a branch wins, the parent goes on only after every branch *)
(* has been submitted: the starter's ops are in the parent's scope.        *)
PushedAfterSubmit == pushes # <<>> => submitted = B /\ at[Starter] # "submit"

(* The wrapper outlives every access of the winner, the losers and the     *)
(* starter.                                                                *)
NoWrapperUseAfterFree == deleted => \A p \in Procs : at[p] \notin Referring

(* When every process is through, unless a branch threw, the parent was    *)
(* pushed exactly once and the wrapper is gone: neither the winner nor the *)
(* starter can leave the push, or the deletion, to the other.              *)
DeliveredAtRest ==
  (\A p \in Procs : at[p] = "gone") /\ "SUBMITTED" \in flags =>
    Len(pushes) = 1 /\ deleted

(* The winner's result reaches the parent pipeline, unless the exception   *)
(* of a branch's submission is thrown on to the op upstream.               *)
Delivers == <>(Len(pushes) = 1 \/ Rethrown)

(* The wrapper is deleted in the end.                                      *)
Reclaimed == <>deleted

-----------------------------------------------------------------------------
(* The inductive invariant behind them. *)

\* Who still holds a reference: a started branch until it releases it, the
\* starter until it does, and one for each branch that was never started.
Racing == {i \in Branches : at[i] \notin {"idle", "gone"}}

Unstarted == IF at[Starter] = "submit" THEN B - submitted
             ELSE IF at[Starter] = "compensate" THEN left ELSE 0

StarterRef == IF at[Starter] = "gone" /\ "SUBMITTED" \in flags THEN 0 ELSE 1

RefInv ==
  /\ refs = Cardinality(Racing) + Unstarted + StarterRef
  /\ deleted <=> refs = 0
  /\ \A i \in Branches : at[i] = "idle" <=> i > submitted
  /\ \A i \in Branches : at[i] \notin {"submit", "compensate"}
  /\ at[Starter] \in {"submit", "compensate", "push", "release", "gone"}
  /\ at[Starter] = "compensate" => left > 0
  /\ IF at[Starter] \in {"push", "release"}
     THEN "SUBMITTED" \in flags
     ELSE at[Starter] = "gone" \/ "SUBMITTED" \notin flags
  /\ "SUBMITTED" \in flags => submitted = B

Winning == {"store", "ready"}

WinInv ==
  /\ \A p, q \in Procs : at[p] \in Winning /\ at[q] \in Winning => p = q
  /\ \A p \in Procs : at[p] \in Winning =>
       "FINISHED" \in flags /\ "READY" \notin flags
  /\ \A p \in Procs : at[p] = "ready" => result # None
  /\ "READY" \in flags => "FINISHED" \in flags /\ result # None
  /\ \A i \in Branches : at[i] \notin {"idle", "running"} => "FINISHED" \in flags
  /\ "FINISHED" \in flags => "READY" \in flags \/ \E i \in Branches : at[i] \in Winning

PushInv ==
  /\ \A p, q \in Procs : at[p] = "push" /\ at[q] = "push" => p = q
  /\ \A p \in Procs : at[p] = "push" =>
       {"READY", "SUBMITTED"} \subseteq flags /\ pushes = <<>>
  /\ pushes # <<>> => {"READY", "SUBMITTED"} \subseteq flags
  /\ {"READY", "SUBMITTED"} \subseteq flags =>
       pushes # <<>> \/ \E p \in Procs : at[p] = "push"
  /\ PushedOnce

(* The reference count is exact, one branch wins, one process pushes.      *)
RaceInv == RaceTypeOK /\ RefInv /\ WinInv /\ PushInv

=============================================================================
