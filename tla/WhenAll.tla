-------------------------------- MODULE WhenAll --------------------------------
(***************************************************************************)
(* when_all(sender...): the starter submits every branch; each branch      *)
(* stores its outcome in its own slot of the collector and counts itself;  *)
(* the last one pushes all the slots to the parent pipeline and deletes    *)
(* the collector.                                                          *)
(*                                                                         *)
(* Process i is the execution that completes branch i, process 0 the       *)
(* starter.  Every action is one access to the slots, the atomic count or  *)
(* the parent.                                                             *)
(***************************************************************************)
EXTENDS Joins

CONSTANT
  Outcomes   \* what a branch can end in: a value, an exception, done or skip

VARIABLES
  phase,        \* where each process is
  started,      \* submit_senders: branches pushed so far
  values,       \* value_collector: the slot of each branch
  done_count,   \* branches still to be counted
  pushed,       \* what the parent was pushed: nothing, or the slots
  all_deleted,  \* the collector_wrapper has been deleted
  all_ended,    \* the parent pipeline has ended and its scope is deleted
  outcome       \* history: what each branch ended in

allVars == <<phase, started, values, done_count, pushed, all_deleted, all_ended, outcome>>

Unset   == "monostate"    \* a default-constructed slot
Nothing == {}
Move(p, to) == phase' = [phase EXCEPT ![p] = to]

\* submit_senders, in order; a synchronous branch completes before the next.
SubmitNext ==
  /\ phase[Starter] = "submit"
  /\ started < B
  /\ started \in Sync => phase[started] = "gone"
  /\ started' = started + 1
  /\ phase' = [phase EXCEPT ![started + 1] = "running",
                            ![Starter] = IF started + 1 = B THEN "gone" ELSE "submit"]
  /\ UNCHANGED <<values, done_count, pushed, all_deleted, all_ended, outcome>>

\* A branch throws out of its submission: nothing catches the exception in the
\* starter, and neither this branch nor the ones behind it are ever counted.
ThrowOut ==
  /\ phase[Starter] = "submit"
  /\ started < B /\ started + 1 \in Throws
  /\ started \in Sync => phase[started] = "gone"
  /\ Move(Starter, "gone")
  /\ UNCHANGED <<started, values, done_count, pushed, all_deleted, all_ended, outcome>>

\* The exception goes on in the op upstream of when_all.
ThrownOn == phase[Starter] = "gone" /\ started < B

\* set_value, set_error, set_done, set_skip: fill the branch's slot ...
SetSlot(i) ==
  /\ phase[i] = "running"
  /\ \E o \in Outcomes :
       /\ values' = [values EXCEPT ![i] = o]
       /\ outcome' = [outcome EXCEPT ![i] = o]
  /\ Move(i, "count")
  /\ UNCHANGED <<started, done_count, pushed, all_deleted, all_ended>>

\* Mutant: the last but one goes on, too.
OnSetEarly(i) ==
  /\ phase[i] = "count"
  /\ done_count' = done_count - 1
  /\ Move(i, IF done_count <= 2 THEN "push" ELSE "gone")
  /\ UNCHANGED <<started, values, pushed, all_deleted, all_ended, outcome>>

\* Mutant: waits for one more.
OnSetLate(i) ==
  /\ phase[i] = "count"
  /\ done_count' = done_count - 1
  /\ Move(i, IF done_count = 0 THEN "push" ELSE "gone")
  /\ UNCHANGED <<started, values, pushed, all_deleted, all_ended, outcome>>

\* ... and on_set: count it, and go on only as the last.
OnSet(i) ==
  /\ phase[i] = "count"
  /\ done_count' = done_count - 1
  /\ Move(i, IF done_count = 1 THEN "push" ELSE "gone")
  /\ UNCHANGED <<started, values, pushed, all_deleted, all_ended, outcome>>

\* The parent is pushed with every slot moved out of the collector.
PushSlots(i) ==
  /\ phase[i] = "push"
  /\ pushed' = pushed \cup {values}
  /\ values' = [b \in Branches |-> Unset]
  /\ Move(i, "delete")
  /\ UNCHANGED <<started, done_count, all_deleted, all_ended, outcome>>

DeleteCollector(i) ==
  /\ phase[i] = "delete"
  /\ all_deleted' = TRUE
  /\ Move(i, "gone")
  /\ UNCHANGED <<started, values, done_count, pushed, all_ended, outcome>>

\* The pipeline downstream ends and deletes the scope with the branches' ops.
ParentDone ==
  /\ pushed # Nothing
  /\ ~all_ended
  /\ all_ended' = TRUE
  /\ UNCHANGED <<phase, started, values, done_count, pushed, all_deleted, outcome>>

AllInit ==
  /\ phase = [p \in Procs |-> IF p = Starter THEN "submit" ELSE "idle"]
  /\ started = 0
  /\ values = [b \in Branches |-> Unset]
  /\ done_count = B
  /\ pushed = Nothing
  /\ all_deleted = FALSE
  /\ all_ended = FALSE
  /\ outcome = [b \in Branches |-> Unset]

Completes(i) == SetSlot(i) \/ OnSet(i) \/ PushSlots(i) \/ DeleteCollector(i)
AllStep(p)   == \/ p = Starter /\ (SubmitNext \/ ThrowOut)
                \/ p \in Branches /\ Completes(p)

AllNext == (\E p \in Procs : AllStep(p)) \/ ParentDone

\* The submitting thread goes on, and every branch completes.
AllSpec == AllInit /\ [][AllNext]_allVars /\ \A p \in Procs : WF_allVars(AllStep(p))

-----------------------------------------------------------------------------
(* Properties. *)

Phases == {"submit", "idle", "running", "count", "push", "delete", "gone"}
Filled == [Branches -> Outcomes \cup {Unset}]

(* Every variable has its type: the count never drops below zero.          *)
AllTypeOK ==
  /\ phase \in [Procs -> Phases]
  /\ started \in 0 .. B
  /\ values \in Filled /\ outcome \in Filled
  /\ done_count \in 0 .. B
  /\ pushed \subseteq Filled
  /\ all_deleted \in BOOLEAN /\ all_ended \in BOOLEAN

(* The parent goes on only when every branch has been submitted and has    *)
(* ended, whatever it ended in, and it is given each branch's own outcome: *)
(* exactly what the branches ended in, and once.                           *)
PushedWhole ==
  \A v \in pushed : v = outcome /\ \A i \in Branches : phase[i] \notin {"idle", "running"}

(* Nobody touches the collector once it is deleted, nor the parent's scope *)
(* (where the branches' ops are) once that is.                             *)
NoUseAfterFree ==
  /\ all_deleted => \A p \in Procs : phase[p] = "gone"
  /\ all_ended => \A p \in Procs : phase[p] \notin {"submit", "idle", "running"}

(* The exception of a submission and the outcomes of the branches never    *)
(* both go on: the branches in front of it end without a last one (and the *)
(* collector is leaked).                                                   *)
ThrownIsOnly == ThrownOn => pushed = Nothing /\ ~all_deleted

(* The safety of a when_all, whatever its branches end in.                 *)
WhenAllSafe == PushedWhole /\ NoUseAfterFree /\ ThrownIsOnly

(* When every process is through, unless a branch threw, the parent was    *)
(* pushed and the collector is deleted: somebody was last.                 *)
AllAtRest ==
  (\A p \in Procs : phase[p] = "gone") /\ started = B => pushed = {outcome} /\ all_deleted

(* Somebody is always last, unless a branch threw out of its submission.   *)
AllDeliver == <>((pushed # Nothing /\ all_deleted) \/ ThrownOn)

-----------------------------------------------------------------------------
(* The inductive invariant behind them. *)

\* The branches that have been counted, the last one included.
Counted == {i \in Branches : phase[i] \in {"push", "delete", "gone"}}

\* A branch is counted once, and only when it was submitted.
CountInv ==
  /\ done_count = B - Cardinality(Counted)
  /\ \A i \in Branches : phase[i] = "idle" <=> i > started
  /\ \A i \in Branches : phase[i] # "submit"
  /\ phase[Starter] \in {"submit", "gone"}
  /\ phase[Starter] = "submit" => started < B

\* The last branch, and only it, pushes the slots and then deletes them.
LastInv ==
  /\ \A i, j \in Branches : phase[i] \in {"push", "delete"} /\ phase[j] \in {"push", "delete"} => i = j
  /\ \A i \in Branches : phase[i] = "push" => done_count = 0 /\ pushed = Nothing
  /\ \A i \in Branches : phase[i] = "delete" => pushed # Nothing
  /\ all_deleted => pushed # Nothing /\ \A i \in Branches : phase[i] # "delete"
  /\ all_ended => pushed # Nothing
  /\ pushed = Nothing => values = outcome
  /\ pushed # Nothing => done_count = 0 /\ pushed = {outcome}
  /\ done_count = 0 => pushed # Nothing \/ \E i \in Branches : phase[i] = "push"
  /\ pushed # Nothing => all_deleted \/ \E i \in Branches : phase[i] = "delete"

(* The count is exact, and one branch is the last.                         *)
AllInv == AllTypeOK /\ CountInv /\ LastInv

=============================================================================
