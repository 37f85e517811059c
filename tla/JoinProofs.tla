----------------------------- MODULE JoinProofs --------------------------------
(***************************************************************************)
(* Proofs about WhenAny and WhenAll, for every number of branches,         *)
(* whichever complete synchronously or throw: when_any pushes the parent   *)
(* exactly once and its last process deletes the race_wrapper; when_all    *)
(* pushes it every branch's outcome, and its last branch deletes the       *)
(* collector.                                                              *)
(***************************************************************************)
EXTENDS WhenAny, WhenAll, FiniteSetTheorems, SequenceTheorems, TLAPS

-----------------------------------------------------------------------------
(* when_any. *)

\* Sets of branches are finite.
LEMMA BranchSets ==
  ASSUME NEW S \in SUBSET Branches
  PROVE  IsFiniteSet(S) /\ Cardinality(S) \in Nat
<1>1. IsFiniteSet(Branches)
  BY BranchAssumption, FS_Interval DEF Branches
<1> QED
  BY <1>1, FS_Subset, FS_CardinalityType

\* A branch that enters the race, or leaves it, is one more or one fewer.
LEMMA RacingFacts ==
  ASSUME NEW i \in Branches
  PROVE  /\ i \notin Racing /\ Racing' = Racing \cup {i} =>
              Cardinality(Racing') = Cardinality(Racing) + 1
         /\ i \in Racing /\ Racing' = Racing \ {i} =>
              Cardinality(Racing') = Cardinality(Racing) - 1 /\ Cardinality(Racing) >= 1
         /\ Cardinality(Racing) \in Nat
<1>1. Racing \in SUBSET Branches
  BY DEF Racing
<1>2. IsFiniteSet(Racing) /\ Cardinality(Racing) \in Nat
  BY <1>1, BranchSets
<1>3. ASSUME i \in Racing PROVE Cardinality(Racing) >= 1
  BY <1>2, <1>3, FS_EmptySet
<1> QED
  BY <1>2, <1>3, FS_AddElement, FS_RemoveElement

\* The starter is no branch.
LEMMA Processes ==
  /\ Starter \in Procs /\ Starter \notin Branches
  /\ Branches \subseteq Procs
  /\ \A p \in Procs : p \in Branches \/ p = Starter
BY BranchAssumption DEF Procs, Branches, Starter

\* The number of branches in the race is a number.
LEMMA RacingNat == Cardinality(Racing) \in Nat
<1>1. Racing \in SUBSET Branches
  BY DEF Racing
<1> QED
  BY <1>1, BranchSets

\* The initial states satisfy the invariant.
LEMMA InitInv == RaceInit => RaceInv
<1> SUFFICES ASSUME RaceInit PROVE RaceInv
  OBVIOUS
<1>1. Racing = {}
  BY Processes DEF RaceInit, Racing
<1>2. Cardinality(Racing) = 0
  BY <1>1, FS_EmptySet
<1>3. RaceTypeOK
  <2>1. at \in [Procs -> Places]
    BY DEF RaceInit, Places, Referring
  <2>2. pushes \in Seq(0 .. B)
    BY DEF RaceInit
  <2>3. submitted \in 0 .. B /\ refs \in 0 .. B + 1 /\ result \in 0 .. B /\ left \in 0 .. B
    BY BranchAssumption DEF RaceInit, None
  <2> QED
    BY <2>1, <2>2, <2>3 DEF RaceInit, RaceTypeOK
<1>6. PushInv
  BY Processes DEF RaceInit, PushInv, PushedOnce
<1>4. RefInv
  BY <1>2, BranchAssumption, Processes DEF RaceInit, RefInv, Unstarted, StarterRef, Branches
<1>5. WinInv
  BY Processes DEF RaceInit, WinInv, Winning
<1> QED
  BY <1>3, <1>4, <1>5, <1>6 DEF RaceInv

\* Submitting a branch keeps the invariant.
LEMMA SubmitKeeps ==
  ASSUME RaceInv, Submit
  PROVE  RaceInv'
<1> USE DEF RaceInv, Goto
<1>1. submitted + 1 \in Branches /\ at' = [at EXCEPT ![submitted + 1] = "running"]
  BY Processes, BranchAssumption DEF Submit, RaceTypeOK, Branches
<1>2. Cardinality(Racing') = Cardinality(Racing) + 1
  BY <1>1, Processes, RacingFacts DEF Submit, RaceTypeOK, Racing, RefInv
<1>3. RaceTypeOK'
  <2>1. at' \in [Procs -> Places]
    BY <1>1, Processes DEF RaceTypeOK, Places, Referring
  <2>2. submitted' \in 0 .. B
    BY <1>1, BranchAssumption DEF Submit, RaceTypeOK
  <2>3. UNCHANGED <<flags, refs, result, pushes, left, deleted, parent_done>>
    BY DEF Submit
  <2> QED BY <2>1, <2>2, <2>3 DEF RaceTypeOK
<1>4. RefInv'
  <2>1. (refs = Cardinality(Racing) + Unstarted + StarterRef)'
    <3>1. Unstarted = B - submitted /\ Unstarted' = B - submitted - 1
      BY <1>1, Processes, BranchAssumption DEF Submit, RaceTypeOK, Unstarted
    <3>2. StarterRef' = StarterRef
      BY <1>1, Processes DEF Submit, RaceTypeOK, StarterRef
    <3> QED
      BY <1>2, <3>1, <3>2, RacingNat, BranchAssumption DEF Submit, RaceTypeOK, RefInv, StarterRef
  <2>2. (deleted <=> refs = 0)'
    BY <1>1, <1>2, Processes, RacingNat, BranchAssumption
    DEF Submit, RaceTypeOK, RefInv, Unstarted, StarterRef
  <2>3. (\A i \in Branches : at[i] = "idle" <=> i > submitted)'
    BY <1>1, Processes, BranchAssumption DEF Submit, RaceTypeOK, RefInv, Branches
  <2> QED
    BY <1>1, <1>3, <2>1, <2>2, <2>3, Processes DEF Submit, RaceTypeOK, RefInv, Branches
<1>5. WinInv'
  BY <1>1, <1>3, Processes DEF Submit, RaceTypeOK, RefInv, WinInv, Winning, Branches
<1>6. PushInv'
  BY <1>1, <1>3, Processes DEF Submit, RaceTypeOK, RefInv, WinInv, Winning, PushInv, PushedOnce
<1> QED
  BY <1>3, <1>4, <1>5, <1>6

\* A branch that throws keeps the invariant.
LEMMA ThrowKeeps ==
  ASSUME RaceInv, Throw
  PROVE  RaceInv'
<1> USE DEF RaceInv, Goto
<1>1. at' = [at EXCEPT ![Starter] = "compensate"]
  BY Processes DEF Throw, RaceTypeOK
<1>2. Cardinality(Racing') = Cardinality(Racing)
  BY <1>1, Processes, RacingFacts DEF Throw, RaceTypeOK, Racing, RefInv
<1>3. RaceTypeOK'
  BY <1>1, <1>2, Processes, RacingNat, BranchAssumption DEF Throw, RaceTypeOK, RefInv, Unstarted, StarterRef,
       Places, Referring, Bits, Branches
<1>4. RefInv'
  BY <1>1, <1>2, <1>3, Processes, RacingNat, BranchAssumption, KindAssumption
  DEF Throw, RaceTypeOK, RefInv, Unstarted, StarterRef, Branches
<1>5. WinInv'
  BY <1>1, <1>3, Processes DEF Throw, RaceTypeOK, RefInv, WinInv, Winning, Branches
<1>6. PushInv'
  BY <1>1, <1>3, Processes DEF Throw, RaceTypeOK, RefInv, WinInv, Winning, PushInv, PushedOnce
<1> QED
  BY <1>3, <1>4, <1>5, <1>6

\* Giving a reference back keeps the invariant.
LEMMA CompensateKeeps ==
  ASSUME RaceInv, Compensate
  PROVE  RaceInv'
<1> USE DEF RaceInv, Goto
<1>1. at' = [at EXCEPT ![Starter] = IF left = 1 THEN "gone" ELSE "compensate"]
  BY Processes DEF Compensate, RaceTypeOK
<1>2. Cardinality(Racing') = Cardinality(Racing)
  BY <1>1, Processes, RacingFacts DEF Compensate, RaceTypeOK, Racing, RefInv
<1>3. RaceTypeOK'
  <2>1. left' \in 0 .. B /\ refs' \in 0 .. B + 1
    BY <1>1, RacingNat, BranchAssumption DEF Compensate, RaceTypeOK, RefInv, Unstarted, StarterRef
  <2> QED
    BY <1>1, <2>1, Processes DEF Compensate, RaceTypeOK, Places, Referring
<1>4. RefInv'
  <2>1. (refs = Cardinality(Racing) + Unstarted + StarterRef)'
    BY <1>1, <1>2, Processes, RacingNat, BranchAssumption
    DEF Compensate, RaceTypeOK, RefInv, Unstarted, StarterRef, Branches
  <2>2. (deleted <=> refs = 0)'
    BY <1>1, <1>2, Processes, RacingNat, BranchAssumption
    DEF Compensate, RaceTypeOK, RefInv, Unstarted, StarterRef
  <2>3. (\A i \in Branches : at[i] = "idle" <=> i > submitted)'
    BY <1>1, Processes, BranchAssumption DEF Compensate, RaceTypeOK, RefInv, Branches
  <2> QED
    BY <1>1, <1>3, <2>1, <2>2, <2>3, Processes DEF Compensate, RaceTypeOK, RefInv, Branches
<1>5. WinInv'
  BY <1>1, <1>3, Processes DEF Compensate, RaceTypeOK, RefInv, WinInv, Winning, Branches
<1>6. PushInv'
  BY <1>1, <1>3, Processes DEF Compensate, RaceTypeOK, RefInv, WinInv, Winning, PushInv, PushedOnce
<1> QED
  BY <1>3, <1>4, <1>5, <1>6

\* complete_submit keeps the invariant.
LEMMA CompleteSubmitKeeps ==
  ASSUME RaceInv, CompleteSubmit
  PROVE  RaceInv'
<1> USE DEF RaceInv, Goto
<1>1. at' = [at EXCEPT ![Starter] = IF "READY" \in flags THEN "push" ELSE "release"]
  BY Processes DEF CompleteSubmit, RaceTypeOK
<1>2. Cardinality(Racing') = Cardinality(Racing)
  BY <1>1, Processes, RacingFacts DEF CompleteSubmit, RaceTypeOK, Racing, RefInv
<1>3. RaceTypeOK'
  BY <1>1, <1>2, Processes, RacingNat, BranchAssumption DEF CompleteSubmit, RaceTypeOK, RefInv, Unstarted, StarterRef,
       Places, Referring, Bits, Branches
<1>4. RefInv'
  BY <1>1, <1>2, <1>3, Processes, RacingNat, BranchAssumption, KindAssumption
  DEF CompleteSubmit, RaceTypeOK, RefInv, Unstarted, StarterRef, Branches
<1>5. WinInv'
  BY <1>1, <1>3, Processes DEF CompleteSubmit, RaceTypeOK, RefInv, WinInv, Winning, Branches
<1>6. PushInv'
  BY <1>1, <1>3, Processes DEF CompleteSubmit, RaceTypeOK, RefInv, WinInv, Winning, PushInv, PushedOnce
<1> QED
  BY <1>3, <1>4, <1>5, <1>6

\* The race for FINISHED keeps the invariant.
LEMMA ClaimKeeps ==
  ASSUME RaceInv, NEW i \in Branches, Claim(i)
  PROVE  RaceInv'
<1> USE DEF RaceInv, Goto
<1>1. at' = [at EXCEPT ![i] = IF "FINISHED" \in flags THEN "release" ELSE "store"]
  BY Processes DEF Claim, RaceTypeOK
<1>2. Cardinality(Racing') = Cardinality(Racing)
  BY <1>1, Processes, RacingFacts DEF Claim, RaceTypeOK, Racing, RefInv
<1>3. RaceTypeOK'
  BY <1>1, <1>2, Processes, RacingNat, BranchAssumption DEF Claim, RaceTypeOK, RefInv, Unstarted, StarterRef,
       Places, Referring, Bits, Branches
<1>4. RefInv'
  BY <1>1, <1>2, <1>3, Processes, RacingNat, BranchAssumption, KindAssumption
  DEF Claim, RaceTypeOK, RefInv, Unstarted, StarterRef, Branches
<1>5. WinInv'
  BY <1>1, <1>3, Processes DEF Claim, RaceTypeOK, RefInv, WinInv, Winning, Branches
<1>6. PushInv'
  BY <1>1, <1>3, Processes DEF Claim, RaceTypeOK, RefInv, WinInv, Winning, PushInv, PushedOnce
<1> QED
  BY <1>3, <1>4, <1>5, <1>6

\* Storing the result keeps the invariant.
LEMMA StoreKeeps ==
  ASSUME RaceInv, NEW i \in Branches, Store(i)
  PROVE  RaceInv'
<1> USE DEF RaceInv, Goto
<1>1. at' = [at EXCEPT ![i] = "ready"]
  BY Processes DEF Store, RaceTypeOK
<1>2. Cardinality(Racing') = Cardinality(Racing)
  BY <1>1, Processes, RacingFacts DEF Store, RaceTypeOK, Racing, RefInv
<1>3. RaceTypeOK'
  BY <1>1, <1>2, Processes, RacingNat, BranchAssumption DEF Store, RaceTypeOK, RefInv, Unstarted, StarterRef,
       Places, Referring, Bits, Branches
<1>4. RefInv'
  BY <1>1, <1>2, <1>3, Processes, RacingNat, BranchAssumption, KindAssumption
  DEF Store, RaceTypeOK, RefInv, Unstarted, StarterRef, Branches
<1>5. WinInv'
  BY <1>1, <1>3, Processes, BranchAssumption DEF Store, RaceTypeOK, RefInv, WinInv, Winning, Branches, None
<1>6. PushInv'
  BY <1>1, <1>3, Processes DEF Store, RaceTypeOK, RefInv, WinInv, Winning, PushInv, PushedOnce
<1> QED
  BY <1>3, <1>4, <1>5, <1>6

\* signal_ready keeps the invariant.
LEMMA SignalReadyKeeps ==
  ASSUME RaceInv, NEW i \in Branches, SignalReady(i)
  PROVE  RaceInv'
<1> USE DEF RaceInv, Goto
<1>1. at' = [at EXCEPT ![i] = IF "SUBMITTED" \in flags THEN "push" ELSE "release"]
  BY Processes DEF SignalReady, RaceTypeOK
<1>2. Cardinality(Racing') = Cardinality(Racing)
  BY <1>1, Processes, RacingFacts DEF SignalReady, RaceTypeOK, Racing, RefInv
<1>3. RaceTypeOK'
  BY <1>1, <1>2, Processes, RacingNat, BranchAssumption DEF SignalReady, RaceTypeOK, RefInv, Unstarted, StarterRef,
       Places, Referring, Bits, Branches
<1>4. RefInv'
  BY <1>1, <1>2, <1>3, Processes, RacingNat, BranchAssumption, KindAssumption
  DEF SignalReady, RaceTypeOK, RefInv, Unstarted, StarterRef, Branches
<1>5. WinInv'
  BY <1>1, <1>3, Processes DEF SignalReady, RaceTypeOK, RefInv, WinInv, Winning, Branches
<1>6. PushInv'
  BY <1>1, <1>3, Processes DEF SignalReady, RaceTypeOK, RefInv, WinInv, Winning, PushInv, PushedOnce
<1> QED
  BY <1>3, <1>4, <1>5, <1>6

\* The push to the parent keeps the invariant.
LEMMA PushToParentKeeps ==
  ASSUME RaceInv, NEW p \in Procs, PushToParent(p)
  PROVE  RaceInv'
<1> USE DEF RaceInv, Goto
<1>1. at' = [at EXCEPT ![p] = "release"]
  BY Processes DEF PushToParent, RaceTypeOK
<1>2. Cardinality(Racing') = Cardinality(Racing)
  BY <1>1, Processes, RacingFacts DEF PushToParent, RaceTypeOK, Racing, RefInv
<1>3. RaceTypeOK'
  BY <1>1, <1>2, Processes, RacingNat, BranchAssumption DEF PushToParent, RaceTypeOK, RefInv, Unstarted, StarterRef,
       Places, Referring, Bits, Branches
<1>4. RefInv'
  BY <1>1, <1>2, <1>3, Processes, RacingNat, BranchAssumption, KindAssumption
  DEF PushToParent, RaceTypeOK, RefInv, Unstarted, StarterRef, Branches
<1>5. WinInv'
  BY <1>1, <1>3, Processes DEF PushToParent, RaceTypeOK, RefInv, WinInv, Winning, Branches
<1>6. PushInv'
  BY <1>1, <1>3, Processes DEF PushToParent, RaceTypeOK, RefInv, WinInv, Winning, PushInv, PushedOnce
<1> QED
  BY <1>3, <1>4, <1>5, <1>6

\* Dropping a reference keeps the invariant.
LEMMA ReleaseKeeps ==
  ASSUME RaceInv, NEW p \in Procs, Release(p)
  PROVE  RaceInv'
<1> USE DEF RaceInv, Goto
<1>1. at' = [at EXCEPT ![p] = "gone"]
  BY Processes DEF Release, RaceTypeOK
<1>2. /\ p = Starter => Cardinality(Racing') = Cardinality(Racing)
      /\ p \in Branches =>
           Cardinality(Racing') = Cardinality(Racing) - 1 /\ Cardinality(Racing) >= 1
  <2>1. CASE p = Starter
    <3>1. Racing' = Racing
      BY <1>1, <2>1, Processes DEF Racing, RaceTypeOK
    <3> QED
      BY <2>1, <3>1, Processes
  <2>2. CASE p \in Branches
    <3>1. p \in Racing /\ Racing' = Racing \ {p}
      BY <1>1, <2>2, Processes DEF Release, Racing, RaceTypeOK
    <3> QED
      BY <2>2, <3>1, Processes, RacingFacts
  <2> QED
    BY <2>1, <2>2, Processes
<1>3. RaceTypeOK'
  BY <1>1, <1>2, Processes, RacingNat, BranchAssumption DEF Release, RaceTypeOK, RefInv, Unstarted, StarterRef,
       Places, Referring, Bits, Branches
<1>4. RefInv'
  <2>1. (refs = Cardinality(Racing) + Unstarted + StarterRef)'
    <3>1. CASE p = Starter
      BY <1>1, <1>2, <3>1, RacingNat, BranchAssumption
      DEF Release, RaceTypeOK, RefInv, Unstarted, StarterRef
    <3>2. CASE p \in Branches
      <4>1. Unstarted' = Unstarted /\ StarterRef' = StarterRef
        BY <1>1, <3>2, Processes DEF Release, RaceTypeOK, Unstarted, StarterRef
      <4>2. Unstarted \in Int /\ StarterRef \in Int
        BY BranchAssumption DEF RaceTypeOK, Unstarted, StarterRef
      <4> QED
        BY <1>2, <3>2, <4>1, <4>2, RacingNat DEF Release, RaceTypeOK, RefInv
    <3> QED
      BY <3>1, <3>2, Processes
  <2>2. (deleted <=> refs = 0)'
    <3>1. refs >= 1
      BY <1>2, Processes, RacingNat, BranchAssumption
      DEF Release, RaceTypeOK, RefInv, Unstarted, StarterRef
    <3>2. ~deleted
      <4>1. refs # 0
        BY <3>1
      <4> QED
        BY <4>1 DEF RefInv
    <3>3. deleted' <=> refs = 1
      BY <3>2 DEF Release
    <3>4. refs' = 0 <=> refs = 1
      BY <3>1, BranchAssumption DEF Release, RaceTypeOK
    <3> QED
      BY <3>3, <3>4
  <2>3. (\A i \in Branches : at[i] = "idle" <=> i > submitted)'
    BY <1>1, Processes, BranchAssumption DEF Release, RaceTypeOK, RefInv, Branches
  <2> QED
    BY <1>1, <1>3, <2>1, <2>2, <2>3, Processes DEF Release, RaceTypeOK, RefInv, Branches
<1>5. WinInv'
  BY <1>1, <1>3, Processes DEF Release, RaceTypeOK, RefInv, WinInv, Winning, Branches
<1>6. PushInv'
  BY <1>1, <1>3, Processes DEF Release, RaceTypeOK, RefInv, WinInv, Winning, PushInv, PushedOnce
<1> QED
  BY <1>3, <1>4, <1>5, <1>6

(* The invariant holds in every state, for every number of branches.       *)
THEOREM Invariance == RaceSpec => []RaceInv
<1>1. ASSUME RaceInv, ParentEnds PROVE RaceInv'
  BY <1>1 DEF RaceInv, ParentEnds, RaceTypeOK, RefInv, Racing, Unstarted, StarterRef, WinInv, PushInv,
       PushedOnce
<1>2. ASSUME RaceInv, UNCHANGED raceVars PROVE RaceInv'
  BY <1>2 DEF RaceInv, raceVars, RaceTypeOK, RefInv, Racing, Unstarted, StarterRef, WinInv, PushInv,
       PushedOnce
<1>3. RaceInv /\ [RaceNext]_raceVars => RaceInv'
  BY <1>1, <1>2, SubmitKeeps, ThrowKeeps, CompensateKeeps, CompleteSubmitKeeps, ClaimKeeps,
     StoreKeeps, SignalReadyKeeps, PushToParentKeeps, ReleaseKeeps
  DEF RaceNext, Step, Starts, Races
<1> QED
  BY <1>3, InitInv, PTL DEF RaceSpec

(* The parent pipeline is never pushed twice, and what it is pushed is the *)
(* complete result of the branch that won.                                 *)
THEOREM ParentIsPushedOnce == RaceSpec => []PushedOnce
<1>1. RaceInv => PushedOnce
  BY DEF RaceInv, PushInv
<1> QED
  BY <1>1, Invariance, PTL

(* It is not pushed before the last branch has been submitted.             *)
THEOREM ParentWaitsForSubmit == RaceSpec => []PushedAfterSubmit
<1>1. RaceInv => PushedAfterSubmit
  BY Processes DEF RaceInv, PushInv, RefInv, PushedAfterSubmit
<1> QED
  BY <1>1, Invariance, PTL

(* No process refers to the race_wrapper after its deletion.               *)
THEOREM WrapperIsSafe == RaceSpec => []NoWrapperUseAfterFree
<1>1. ASSUME RaceInv, deleted
      PROVE  \A p \in Procs : at[p] \notin Referring
  <2>1. /\ Cardinality(Racing) = 0
        /\ at[Starter] \notin {"submit", "compensate", "push", "release"}
    BY <1>1, RacingNat, BranchAssumption DEF RaceInv, RaceTypeOK, RefInv, Unstarted, StarterRef
  <2>2. Racing = {}
    <3>1. Racing \in SUBSET Branches
      BY DEF Racing
    <3> QED
      BY <2>1, <3>1, BranchSets, FS_EmptySet
  <2> QED
    BY <1>1, <2>1, <2>2, Processes DEF RaceInv, RefInv, Racing, Referring
<1> QED
  BY <1>1, Invariance, PTL DEF NoWrapperUseAfterFree

(* When every process is through, the parent has been pushed and the       *)
(* wrapper deleted: neither is left to a process that leaves it to another.*)
THEOREM NothingIsLeftToDo == RaceSpec => []DeliveredAtRest
<1>1. ASSUME RaceInv, \A p \in Procs : at[p] = "gone", "SUBMITTED" \in flags
      PROVE  Len(pushes) = 1 /\ deleted
  <2>1. "READY" \in flags
    <3>1. 1 \in Branches
      BY BranchAssumption DEF Branches
    <3> QED
      BY <1>1, <3>1, Processes DEF RaceInv, WinInv, Winning
  <2>2. Len(pushes) = 1
    <3>1. pushes # <<>> /\ pushes \in Seq(0 .. B)
      BY <1>1, <2>1, Processes DEF RaceInv, RaceTypeOK, PushInv
    <3>2. Len(pushes) \in Nat /\ Len(pushes) # 0
      BY <3>1, EmptySeq
    <3>3. Len(pushes) <= 1
      BY <1>1 DEF RaceInv, PushInv, PushedOnce
    <3> QED
      BY <3>2, <3>3
  <2>3. deleted
    <3>1. Racing = {} /\ Cardinality({}) = 0
      BY <1>1, Processes, FS_EmptySet DEF Racing
    <3> QED
      BY <1>1, <3>1, Processes DEF RaceInv, RefInv, Unstarted, StarterRef
  <2> QED
    BY <2>2, <2>3
<1> QED
  BY <1>1, Invariance, PTL DEF DeliveredAtRest

-----------------------------------------------------------------------------
(* when_all. *)

\* The number of counted branches, and what a branch that is counted, or none,
\* does to it; when all are counted, each one is.
LEMMA CountedFacts ==
  /\ Cardinality(Counted) \in 0 .. B
  /\ Cardinality(Counted) = B => Counted = Branches
  /\ \A i \in Branches : i \notin Counted /\ Counted' = Counted \cup {i} =>
       Cardinality(Counted') = Cardinality(Counted) + 1
<1>1. IsFiniteSet(Branches) /\ Cardinality(Branches) = B
  BY BranchAssumption, FS_Interval DEF Branches
<1>2. Counted \in SUBSET Branches
  BY DEF Counted
<1>3. IsFiniteSet(Counted) /\ Cardinality(Counted) \in Nat /\ Cardinality(Counted) <= B
  BY <1>1, <1>2, FS_Subset, FS_CardinalityType
<1>4. Cardinality(Counted) = B => Counted = Branches
  BY <1>1, <1>2, FS_Subset
<1> QED
  BY <1>3, <1>4, FS_AddElement, BranchAssumption

\* While a branch is not counted, the count has not run out.
LEMMA NotTheLast ==
  ASSUME AllInv, NEW i \in Branches, i \notin Counted
  PROVE  done_count >= 1 /\ pushed = Nothing /\ ~all_deleted /\ ~all_ended
<1>1. Cardinality(Counted) # B
  BY CountedFacts
<1>2. done_count >= 1
  BY <1>1, CountedFacts, BranchAssumption DEF AllInv, CountInv
<1> QED
  BY <1>2 DEF AllInv, LastInv

\* When the count has run out, every branch has been submitted and counted.
LEMMA AllCounted ==
  ASSUME AllInv, done_count = 0
  PROVE  /\ \A p \in Procs : phase[p] \in {"push", "delete", "gone"}
         /\ started = B
<1>1. Cardinality(Counted) = B
  BY CountedFacts, BranchAssumption DEF AllInv, CountInv
<1>2. \A i \in Branches : phase[i] \in {"push", "delete", "gone"}
  BY <1>1, CountedFacts DEF Counted
<1>3. B \in Branches
  BY BranchAssumption DEF Branches
<1>4. started = B
  BY <1>2, <1>3, BranchAssumption DEF AllInv, AllTypeOK, CountInv
<1> QED
  BY <1>2, <1>4, Processes, BranchAssumption DEF AllInv, CountInv

\* The initial states satisfy the invariant.
LEMMA AllInitInv == AllInit => AllInv
<1> SUFFICES ASSUME AllInit PROVE AllInv
  OBVIOUS
<1>1. Cardinality(Counted) = 0
  <2>1. Counted = {}
    BY Processes DEF AllInit, Counted
  <2> QED
    BY <2>1, FS_EmptySet
<1>2. AllTypeOK
  <2>1. phase \in [Procs -> Phases]
    BY DEF AllInit, Phases
  <2>2. values \in Filled /\ outcome \in Filled
    BY DEF AllInit, Filled
  <2>3. started \in 0 .. B /\ done_count \in 0 .. B
    BY BranchAssumption DEF AllInit
  <2> QED
    BY <2>1, <2>2, <2>3 DEF AllInit, AllTypeOK, Nothing
<1>3. CountInv
  BY <1>1, BranchAssumption, Processes DEF AllInit, CountInv, Branches
<1>4. LastInv
  BY BranchAssumption, Processes DEF AllInit, LastInv, Nothing
<1> QED
  BY <1>2, <1>3, <1>4 DEF AllInv

\* Submitting a branch keeps the invariant.
LEMMA SubmitNextKeeps ==
  ASSUME AllInv, SubmitNext
  PROVE  AllInv'
<1> USE DEF AllInv
<1> DEFINE b == started + 1
           s == IF b = B THEN "gone" ELSE "submit"
<1>1. b \in Branches /\ b # Starter /\ phase[b] = "idle"
  BY Processes, BranchAssumption DEF SubmitNext, AllTypeOK, CountInv, Branches, Starter
<1>2. phase' = [q \in Procs |-> IF q = Starter THEN s ELSE IF q = b THEN "running" ELSE phase[q]]
  BY <1>1, Processes DEF SubmitNext, AllTypeOK
<1>3. Counted' = Counted
  BY <1>1, <1>2, Processes DEF Counted
<1>4. AllTypeOK'
  <2>1. phase' \in [Procs -> Phases]
    BY <1>2 DEF AllTypeOK, Phases
  <2>2. started' \in 0 .. B
    BY BranchAssumption DEF SubmitNext, AllTypeOK
  <2> QED
    BY <2>1, <2>2 DEF SubmitNext, AllTypeOK
<1>5. CountInv'
  <2>1. (\A i \in Branches : phase[i] = "idle" <=> i > started)'
    BY <1>1, <1>2, Processes, BranchAssumption DEF SubmitNext, AllTypeOK, CountInv, Branches
  <2> QED
    BY <1>1, <1>2, <1>3, <2>1, Processes, BranchAssumption
    DEF SubmitNext, AllTypeOK, CountInv, Branches
<1>6. LastInv'
  <2>1. b \notin Counted
    BY <1>1 DEF Counted
  <2>2. done_count >= 1 /\ pushed = Nothing /\ ~all_deleted /\ ~all_ended
    BY <1>1, <2>1, NotTheLast
  <2> QED
    BY <1>1, <1>2, <2>2, Processes DEF SubmitNext, LastInv
<1> QED
  BY <1>4, <1>5, <1>6

\* A submission that throws keeps the invariant.
LEMMA ThrowOutKeeps ==
  ASSUME AllInv, ThrowOut
  PROVE  AllInv'
<1> USE DEF AllInv
<1>1. phase' = [phase EXCEPT ![Starter] = "gone"]
  BY DEF ThrowOut, Move
<1>2. Counted' = Counted
  BY <1>1, Processes DEF Counted, AllTypeOK
<1>3. AllTypeOK'
  BY <1>1 DEF ThrowOut, AllTypeOK, Phases
<1>4. CountInv'
  BY <1>1, <1>2, Processes DEF ThrowOut, AllTypeOK, CountInv
<1>5. LastInv'
  BY <1>1, Processes DEF ThrowOut, AllTypeOK, LastInv
<1> QED
  BY <1>3, <1>4, <1>5

\* A branch that fills its slot keeps the invariant.
LEMMA SetSlotKeeps ==
  ASSUME AllInv, NEW i \in Branches, SetSlot(i)
  PROVE  AllInv'
<1> USE DEF AllInv
<1>1. phase' = [phase EXCEPT ![i] = "count"]
  BY DEF SetSlot, Move
<1>2. PICK o \in Outcomes : /\ values' = [values EXCEPT ![i] = o]
                            /\ outcome' = [outcome EXCEPT ![i] = o]
  BY DEF SetSlot
<1>3. Counted' = Counted
  BY <1>1, Processes DEF SetSlot, Counted, AllTypeOK
<1>4. AllTypeOK'
  BY <1>1, <1>2 DEF SetSlot, AllTypeOK, Phases, Filled
<1>5. CountInv'
  BY <1>1, <1>3, Processes, BranchAssumption DEF SetSlot, AllTypeOK, CountInv
<1>6. LastInv'
  <2>1. i \notin Counted
    BY DEF SetSlot, Counted
  <2>2. done_count >= 1 /\ pushed = Nothing /\ ~all_deleted /\ ~all_ended
    BY <2>1, NotTheLast
  <2>3. values' = outcome'
    BY <1>2, <2>2 DEF LastInv
  <2> QED
    BY <1>1, <2>2, <2>3, Processes DEF SetSlot, AllTypeOK, LastInv
<1> QED
  BY <1>4, <1>5, <1>6

\* Counting a branch keeps the invariant: the last one is to push.
LEMMA OnSetKeeps ==
  ASSUME AllInv, NEW i \in Branches, OnSet(i)
  PROVE  AllInv'
<1> USE DEF AllInv
<1>1. phase' = [phase EXCEPT ![i] = IF done_count = 1 THEN "push" ELSE "gone"]
  BY DEF OnSet, Move
<1>2. i \notin Counted /\ Counted' = Counted \cup {i}
  BY <1>1, Processes DEF OnSet, Counted, AllTypeOK
<1>3. Cardinality(Counted') = Cardinality(Counted) + 1
  BY <1>2, CountedFacts
<1>4. done_count >= 1 /\ pushed = Nothing /\ ~all_deleted /\ ~all_ended
  BY <1>2, NotTheLast
<1>5. AllTypeOK'
  <2>1. phase' \in [Procs -> Phases]
    BY <1>1 DEF AllTypeOK, Phases
  <2>2. done_count' \in 0 .. B
    BY <1>4, BranchAssumption DEF OnSet, AllTypeOK
  <2> QED
    BY <2>1, <2>2 DEF OnSet, AllTypeOK
<1>6. CountInv'
  <2>1. (done_count = B - Cardinality(Counted))'
    BY <1>3, CountedFacts, BranchAssumption DEF OnSet, CountInv
  <2> QED
    BY <1>1, <2>1, Processes, BranchAssumption DEF OnSet, AllTypeOK, CountInv
<1>7. LastInv'
  <2>1. \A j \in Branches : phase[j] \notin {"push", "delete"}
    BY <1>4 DEF LastInv
  <2>2. done_count' = 0 => done_count = 1
    BY <1>4 DEF OnSet, AllTypeOK
  <2>3. CASE done_count = 1
    BY <1>1, <1>4, <2>1, <2>3, Processes DEF OnSet, AllTypeOK, LastInv
  <2>4. CASE done_count # 1
    BY <1>1, <1>4, <2>1, <2>2, <2>4, Processes DEF OnSet, AllTypeOK, LastInv
  <2> QED
    BY <2>3, <2>4
<1> QED
  BY <1>5, <1>6, <1>7

\* The push of the slots keeps the invariant.
LEMMA PushSlotsKeeps ==
  ASSUME AllInv, NEW i \in Branches, PushSlots(i)
  PROVE  AllInv'
<1> USE DEF AllInv
<1>1. phase' = [phase EXCEPT ![i] = "delete"]
  BY DEF PushSlots, Move
<1>2. Counted' = Counted
  BY <1>1, Processes DEF PushSlots, Counted, AllTypeOK
<1>3. done_count = 0 /\ pushed = Nothing /\ values = outcome
  BY DEF PushSlots, LastInv
<1>4. pushed' = {outcome} /\ pushed' # Nothing
  BY <1>3 DEF PushSlots, Nothing
<1>5. AllTypeOK'
  BY <1>1, <1>4 DEF PushSlots, AllTypeOK, Phases, Filled
<1>6. CountInv'
  BY <1>1, <1>2, Processes, BranchAssumption DEF PushSlots, AllTypeOK, CountInv
<1>7. LastInv'
  BY <1>1, <1>3, <1>4, Processes DEF PushSlots, AllTypeOK, LastInv
<1> QED
  BY <1>5, <1>6, <1>7

\* The deletion of the collector keeps the invariant.
LEMMA DeleteCollectorKeeps ==
  ASSUME AllInv, NEW i \in Branches, DeleteCollector(i)
  PROVE  AllInv'
<1> USE DEF AllInv
<1>1. phase' = [phase EXCEPT ![i] = "gone"]
  BY DEF DeleteCollector, Move
<1>2. Counted' = Counted
  BY <1>1, Processes DEF DeleteCollector, Counted, AllTypeOK
<1>3. pushed # Nothing
  BY DEF DeleteCollector, LastInv
<1>4. AllTypeOK'
  BY <1>1 DEF DeleteCollector, AllTypeOK, Phases
<1>5. CountInv'
  BY <1>1, <1>2, Processes, BranchAssumption DEF DeleteCollector, AllTypeOK, CountInv
<1>6. LastInv'
  BY <1>1, <1>3, Processes DEF DeleteCollector, AllTypeOK, LastInv
<1> QED
  BY <1>4, <1>5, <1>6

(* The invariant holds in every state, for every number of branches and    *)
(* whatever they end in.                                                   *)
THEOREM AllInvariance == AllSpec => []AllInv
<1>1. ASSUME AllInv, ParentDone PROVE AllInv'
  BY <1>1 DEF AllInv, ParentDone, AllTypeOK, CountInv, Counted, LastInv
<1>2. ASSUME AllInv, UNCHANGED allVars PROVE AllInv'
  BY <1>2 DEF AllInv, allVars, AllTypeOK, CountInv, Counted, LastInv
<1>3. AllInv /\ [AllNext]_allVars => AllInv'
  BY <1>1, <1>2, SubmitNextKeeps, ThrowOutKeeps, SetSlotKeeps, OnSetKeeps, PushSlotsKeeps,
     DeleteCollectorKeeps
  DEF AllNext, AllStep, Completes
<1> QED
  BY <1>3, AllInitInv, PTL DEF AllSpec

(* The parent gets every branch's outcome, after the last branch; nobody   *)
(* touches the collector or the parent's scope once they are deleted; and  *)
(* an exception of a submission never goes on beside the outcomes.         *)
THEOREM WhenAllIsSafe == AllSpec => []WhenAllSafe
<1>1. ASSUME AllInv, pushed # Nothing
      PROVE  \A p \in Procs : phase[p] \in {"push", "delete", "gone"}
  BY <1>1, AllCounted DEF AllInv, LastInv
<1>2. ASSUME AllInv PROVE PushedWhole
  BY <1>1, <1>2, Processes DEF AllInv, LastInv, PushedWhole, Nothing
<1>3. ASSUME AllInv PROVE NoUseAfterFree
  <2>1. ASSUME all_deleted, NEW p \in Procs PROVE phase[p] = "gone"
    <3>1. pushed # Nothing
      BY <1>3, <2>1 DEF AllInv, LastInv
    <3>2. phase[p] \in {"push", "delete", "gone"}
      BY <1>1, <1>3, <3>1
    <3> QED
      BY <1>3, <2>1, <3>1, <3>2, Processes DEF AllInv, CountInv, LastInv
  <2>2. ASSUME all_ended, NEW p \in Procs PROVE phase[p] \notin {"submit", "idle", "running"}
    BY <1>1, <1>3, <2>2 DEF AllInv, LastInv
  <2> QED
    BY <2>1, <2>2 DEF NoUseAfterFree
<1>4. ASSUME AllInv PROVE ThrownIsOnly
  BY <1>4, AllCounted, BranchAssumption DEF AllInv, AllTypeOK, LastInv, ThrownIsOnly, ThrownOn
<1>5. AllInv => WhenAllSafe
  BY <1>2, <1>3, <1>4 DEF WhenAllSafe
<1> QED
  BY <1>5, AllInvariance, PTL

(* When every process is through and no submission threw, the parent has   *)
(* been pushed and the collector deleted: one branch was the last.         *)
THEOREM SomebodyWasLast == AllSpec => []AllAtRest
<1>1. ASSUME AllInv, \A p \in Procs : phase[p] = "gone", started = B
      PROVE  pushed = {outcome} /\ all_deleted
  <2>1. Counted = Branches
    BY <1>1, Processes DEF Counted
  <2>2. done_count = 0
    <3>1. Cardinality(Branches) = B
      BY BranchAssumption, FS_Interval DEF Branches
    <3> QED
      BY <1>1, <2>1, <3>1, BranchAssumption DEF AllInv, CountInv
  <2> QED
    BY <1>1, <2>2, Processes DEF AllInv, LastInv
<1>2. AllInv => AllAtRest
  BY <1>1 DEF AllAtRest
<1> QED
  BY <1>2, AllInvariance, PTL

=============================================================================
