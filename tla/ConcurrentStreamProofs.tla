------------------------ MODULE ConcurrentStreamProofs ------------------------
(***************************************************************************)
(* Proofs about ConcurrentStream: its invariants hold for every range      *)
(* length, every concurrency limit and every placement of the elements.    *)
(***************************************************************************)
EXTENDS ConcurrentStream, FiniteSetTheorems, TLAPS

\* The shape of the process set.
LEMMA ProcsFacts ==
  /\ StartProc \in Procs /\ Elements \subseteq Procs
  /\ \A p \in Procs : p = StartProc \/ p \in Elements
  /\ StartProc \notin Elements
  /\ N \in Nat /\ MaxPending \in Nat
  /\ \A k \in 0 .. N : k < N => k + 1 \in Elements
BY SizesAssumption DEF StartProc, Elements, Procs

\* The word of outstanding elements: what each operation does to wait - done,
\* whatever amount the two halves have cancelled.
LEMMA PendingFacts ==
  ASSUME NEW s \in [wait : Nat, done : Nat]
  PROVE  /\ Cancel(s) \in [wait : Nat, done : Nat]
         /\ AddPending(s) \in [wait : Nat, done : Nat]
         /\ SubPending(s) \in [wait : Nat, done : Nat]
         /\ AddPending(s).wait - AddPending(s).done = s.wait - s.done + 1
         /\ SubPending(s).wait - SubPending(s).done = s.wait - s.done - 1
         /\ HasRoom(AddPending(s)) <=> s.wait - s.done + 1 < MaxPending
         /\ Unblocks(s) <=> s.wait - s.done = MaxPending
BY SizesAssumption DEF Cancel, AddPending, SubPending, HasRoom, Unblocks,
   Lesser

\* The elements that may be counted or in flight form finite sets.
LEMMA FiniteFacts ==
  /\ IsFiniteSet(Elements) /\ Cardinality(Elements) = N
  /\ IsFiniteSet(InFlight) /\ Cardinality(InFlight) \in Nat
  /\ IsFiniteSet(Counted) /\ Cardinality(Counted) \in Nat
  /\ Cardinality(Counted) <= N
  /\ Cardinality(Counted) = N => Counted = Elements
<1>1. IsFiniteSet(Elements) /\ Cardinality(Elements) = N
  BY SizesAssumption, FS_Interval DEF Elements
<1>2. InFlight \subseteq Elements /\ Counted \subseteq Elements
  BY DEF InFlight, Counted
<1>3. QED
  BY <1>1, <1>2, FS_Subset, FS_CardinalityType
-----------------------------------------------------------------------------
\* The initial states satisfy the inductive invariant.
LEMMA InitInv == Init => IInv
<1> SUFFICES ASSUME Init PROVE IInv
  OBVIOUS
<1> USE DEF Init
<1>1. TypeOK
  <2>1. pc \in [Procs -> Places] /\ loaded \in [Procs -> SUBSET Elements]
    BY DEF Places
  <2>2. push_count \in 0 .. N /\ counter \in [total : {0, N + 1}, done : 0 .. N]
    BY ProcsFacts
  <2>3. /\ poll_next_flag \in [pending : 0 .. 2, token : {0, 1}]
        /\ pending_status \in [wait : Nat, done : Nat]
    OBVIOUS
  <2>4. result \subseteq Elements /\ freed \in BOOLEAN
    OBVIOUS
  <2> QED
    BY <2>1, <2>2, <2>4 DEF TypeOK
<1>2. LifeInv
  BY ProcsFacts, KindsAssumption DEF LifeInv, Elements
<1>3. TokenInv
  BY DEF TokenInv, ExclusiveRunner, Holding
<1>4. PermitInv
  BY ProcsFacts DEF PermitInv, Permitted, Full, Outstanding, Ended
<1>5. InFlight = {} /\ Counted = {}
  BY ProcsFacts DEF InFlight, Counted
<1>6. BoundInv
  BY ProcsFacts, <1>5, FS_EmptySet DEF BoundInv, Outstanding
<1>7. CountInv
  BY <1>5, FS_EmptySet DEF CountInv, StreamDoneOnce
<1> QED
  BY <1>1, <1>2, <1>3, <1>4, <1>6, <1>7 DEF IInv

\* runner::start keeps the invariant.
LEMMA StartKeeps == ASSUME IInv, Start PROVE IInv'
<1> USE DEF Start, Goto, TryAcquire
<1>0. TypeOK /\ LifeInv /\ TokenInv /\ PermitInv /\ BoundInv /\ CountInv
  BY DEF IInv
<1>1. TypeOK'
  BY <1>0, ProcsFacts DEF TypeOK, Places, Running, Holding, PermitInv,
     Permitted
<1>2. LifeInv'
  BY <1>0, ProcsFacts DEF LifeInv, TypeOK, Holding
<1>3. TokenInv'
  BY <1>0, ProcsFacts DEF TokenInv, ExclusiveRunner, TypeOK, Holding, LifeInv
<1>4. PermitInv'
  BY <1>0 DEF PermitInv, Permitted, LifeInv, Full, Outstanding, Ended
<1>5. BoundInv'
  <2>1. InFlight' = InFlight
    BY DEF InFlight
  <2>2. QED
    BY <2>1, <1>0, ProcsFacts DEF BoundInv, Deciding, Outstanding, Permitted
<1>6. CountInv'
  <2>1. Counted' = Counted
    BY DEF Counted
  <2>2. QED
    BY <2>1, <1>0 DEF CountInv, StreamDoneOnce
<1> QED
  BY <1>1, <1>2, <1>3, <1>4, <1>5, <1>6 DEF IInv

\* Pushing an element keeps the invariant.
LEMMA LaunchKeeps == ASSUME IInv, NEW p \in Procs, Launch(p) PROVE IInv'
<1> USE DEF Launch, Goto
<1>0. TypeOK /\ LifeInv /\ TokenInv /\ PermitInv /\ BoundInv /\ CountInv
  BY DEF IInv
<1>1. TypeOK'
  BY <1>0, ProcsFacts DEF TypeOK, Places, Running, Holding
<1>2. LifeInv'
  <2>1. push_count + 1 \in Elements /\ push_count' = push_count + 1
    BY <1>0, ProcsFacts DEF TypeOK
  <2>2. \A q \in Procs : q # p /\ q # push_count + 1 => pc'[q] = pc[q]
    BY <1>0 DEF TypeOK
  <2>3. pc[push_count + 1] = "idle" /\ p # push_count + 1
    BY <1>0, ProcsFacts DEF LifeInv, TypeOK
  <2>4. pc'[p] = "pushed" /\ pc'[push_count + 1] = "flight"
    BY <1>0, ProcsFacts DEF TypeOK
  <2>5. \A q \in Elements : pc'[q] # "start" /\ (pc'[q] = "idle" <=> q > push_count')
    BY <1>0, ProcsFacts DEF LifeInv, TypeOK, Elements
  <2>6. StartProc # push_count + 1
    BY <2>1, ProcsFacts
  <2>7. pc'[StartProc] \in Holding \cup {"start", "total", "lastTotal", "gone"}
    BY <1>0, <2>2, <2>4, <2>6, ProcsFacts DEF LifeInv, Holding
  <2>8. pc'[StartProc] # "start"
    BY <1>0, <2>2, <2>4, ProcsFacts DEF PermitInv, Permitted
  <2>9. \A q \in Skipped : pc'[q] \notin {"count", "lastCount"}
    BY <1>0, <2>2, <2>4, ProcsFacts, KindsAssumption DEF LifeInv
  <2>10. QED
    BY <2>5, <2>7, <2>8, <2>9 DEF LifeInv
<1>3. TokenInv'
  BY <1>0 DEF TokenInv, ExclusiveRunner, TypeOK, Holding
<1>4. PermitInv'
  BY <1>0 DEF PermitInv, Permitted, TypeOK, Full, Outstanding, Ended
<1>5. BoundInv'
  <2>1. push_count + 1 \in Elements \ InFlight
    BY <1>0, ProcsFacts DEF TypeOK, LifeInv, InFlight
  <2>2. InFlight' = InFlight \cup {push_count + 1}
    BY <1>0, ProcsFacts DEF InFlight, TypeOK
  <2>3. Cardinality(InFlight') = Cardinality(InFlight) + 1
    BY <2>1, <2>2, FiniteFacts, FS_AddElement
  <2>4. Deciding /\ \A q \in Procs : pc[q] # "pushed"
    BY <1>0 DEF Deciding, PermitInv, Permitted
  <2>5. MaxPending > 0 => Outstanding < MaxPending /\ Outstanding \in Int
    BY <1>0, ProcsFacts DEF PermitInv, Full, Permitted, Outstanding, TypeOK
  <2>6. pc'[p] = "pushed" /\ Outstanding' = Outstanding
    BY <1>0 DEF TypeOK, Outstanding
  <2>7. QED
    BY <1>0, <2>3, <2>4, <2>5, <2>6, ProcsFacts DEF BoundInv
<1>6. CountInv'
  <2>1. Counted' = Counted
    BY <1>0, ProcsFacts DEF Counted, TypeOK, LifeInv
  <2>2. QED
    BY <2>1, <1>0 DEF CountInv, StreamDoneOnce, TypeOK
<1> QED
  BY <1>1, <1>2, <1>3, <1>4, <1>5, <1>6 DEF IInv

\* Reaching the end of the range keeps the invariant.
LEMMA EndOfRangeKeeps == ASSUME IInv, NEW p \in Procs, EndOfRange(p) PROVE IInv'
<1> USE DEF EndOfRange, Goto
<1>0. TypeOK /\ LifeInv /\ TokenInv /\ PermitInv /\ BoundInv /\ CountInv
  BY DEF IInv
<1>1. TypeOK'
  BY <1>0 DEF TypeOK, Places, Running
<1>2. LifeInv'
  BY <1>0 DEF LifeInv
<1>3. TokenInv'
  BY <1>0 DEF TokenInv, ExclusiveRunner, TypeOK, Holding
<1>4. PermitInv'
  BY <1>0 DEF TokenInv, ExclusiveRunner, PermitInv, Permitted, Holding, Full,
     Outstanding, Ended
<1>5. BoundInv'
  <2>1. InFlight' = InFlight
    BY DEF InFlight
  <2>2. QED
    BY <2>1, <1>0 DEF BoundInv, Deciding, Outstanding, Permitted
<1>6. CountInv'
  <2>1. Counted' = Counted
    BY DEF Counted
  <2>2. QED
    BY <2>1, <1>0 DEF CountInv, StreamDoneOnce, PermitInv, Ended, Holding
<1> QED
  BY <1>1, <1>2, <1>3, <1>4, <1>5, <1>6 DEF IInv

\* consume_and_continue keeps the invariant.
LEMMA ConsumeKeeps == ASSUME IInv, NEW p \in Procs, Consume(p) PROVE IInv'
<1> USE DEF Consume, Goto, AfterPoll
<1>0. TypeOK /\ LifeInv /\ TokenInv /\ PermitInv /\ BoundInv /\ CountInv
  BY DEF IInv
<1>1. TypeOK'
  BY <1>0 DEF TypeOK, Places, Running, Holding
<1>2. LifeInv'
  BY <1>0, ProcsFacts, KindsAssumption DEF LifeInv, TypeOK, Holding
<1>3. TokenInv'
  BY <1>0 DEF TokenInv, ExclusiveRunner, TypeOK, Holding
<1>4. PermitInv'
  BY <1>0 DEF PermitInv, Permitted, TypeOK, Holding, Full, Outstanding, Ended
<1>5. BoundInv'
  <2>1. InFlight' = InFlight
    BY <1>0, ProcsFacts DEF InFlight, TypeOK
  <2>2. QED
    BY <2>1, <1>0 DEF BoundInv, Deciding, Full, Outstanding, TypeOK, Permitted
<1>6. CountInv'
  <2>1. Counted' = Counted
    BY <1>0, ProcsFacts DEF Counted, TypeOK
  <2>2. QED
    BY <2>1, <1>0 DEF CountInv, StreamDoneOnce, TypeOK
<1> QED
  BY <1>1, <1>2, <1>3, <1>4, <1>5, <1>6 DEF IInv

\* add_now_pending_and_check keeps the invariant.
LEMMA AddKeeps == ASSUME IInv, NEW p \in Procs, Add(p) PROVE IInv'
<1> USE DEF Add, Goto, Returned, Nested
<1>0. TypeOK /\ LifeInv /\ TokenInv /\ PermitInv /\ BoundInv /\ CountInv
  BY DEF IInv
<1>1. TypeOK'
  BY <1>0, PendingFacts DEF TypeOK, Places, Running, Holding
<1>2. LifeInv'
  BY <1>0 DEF LifeInv, Holding
<1>3. TokenInv'
  BY <1>0 DEF TokenInv, ExclusiveRunner, Holding
<1>4. PermitInv'
  BY <1>0, ProcsFacts, PendingFacts DEF PermitInv, Permitted, TypeOK, Full,
     Outstanding, Ended
<1>5. BoundInv'
  <2>1. InFlight' = InFlight
    BY DEF InFlight
  <2>2. QED
    BY <2>1, <1>0, PendingFacts DEF BoundInv, Deciding, Outstanding, TypeOK,
       Permitted, TokenInv, ExclusiveRunner, Holding
<1>6. CountInv'
  <2>1. Counted' = Counted
    BY DEF Counted
  <2>2. QED
    BY <2>1, <1>0 DEF CountInv, StreamDoneOnce
<1> QED
  BY <1>1, <1>2, <1>3, <1>4, <1>5, <1>6 DEF IInv

\* A poll from inside the loop keeps the invariant.
LEMMA RepollKeeps == ASSUME IInv, NEW p \in Procs, Repoll(p) PROVE IInv'
<1> USE DEF Repoll, Goto, TryAcquire, Returned, Nested
<1>0. TypeOK /\ LifeInv /\ TokenInv /\ PermitInv /\ BoundInv /\ CountInv
  BY DEF IInv
<1>1. TypeOK'
  BY <1>0 DEF TypeOK, Places, Running, Holding, PermitInv, Permitted
<1>2. LifeInv'
  BY <1>0, ProcsFacts DEF LifeInv, Holding, PermitInv, Permitted
<1>3. TokenInv'
  BY <1>0 DEF TokenInv, ExclusiveRunner, TypeOK, Holding
<1>4. PermitInv'
  BY <1>0 DEF TokenInv, PermitInv, Permitted, TypeOK, Full, Outstanding, Ended
<1>5. BoundInv'
  <2>1. InFlight' = InFlight
    BY DEF InFlight
  <2>2. QED
    BY <2>1, <1>0 DEF BoundInv, Deciding, Outstanding, Permitted
<1>6. CountInv'
  <2>1. Counted' = Counted
    BY DEF Counted
  <2>2. QED
    BY <2>1, <1>0 DEF CountInv, StreamDoneOnce
<1> QED
  BY <1>1, <1>2, <1>3, <1>4, <1>5, <1>6 DEF IInv

\* A skipped element keeps the invariant.
LEMMA SkipReturnedKeeps == ASSUME IInv, NEW p \in Procs, SkipReturned(p) PROVE IInv'
<1> USE DEF SkipReturned, Goto, Returned, Nested
<1>0. TypeOK /\ LifeInv /\ TokenInv /\ PermitInv /\ BoundInv /\ CountInv
  BY DEF IInv
<1>1. TypeOK'
  BY <1>0 DEF TypeOK, Places, Running, Holding
<1>2. LifeInv'
  BY <1>0 DEF LifeInv, Holding
<1>3. TokenInv'
  BY <1>0 DEF TokenInv, ExclusiveRunner, Holding
<1>4. PermitInv'
  BY <1>0 DEF PermitInv, Permitted, Full, Outstanding, Ended
<1>5. BoundInv'
  <2>1. InFlight' = InFlight
    BY DEF InFlight
  <2>2. QED
    BY <2>1, <1>0 DEF BoundInv, Deciding, Full, Outstanding, PermitInv,
       Permitted
<1>6. CountInv'
  <2>1. Counted' = Counted
    BY DEF Counted
  <2>2. QED
    BY <2>1, <1>0 DEF CountInv, StreamDoneOnce
<1> QED
  BY <1>1, <1>2, <1>3, <1>4, <1>5, <1>6 DEF IInv

\* set_total keeps the invariant.
LEMMA SetTotalKeeps == ASSUME IInv, NEW p \in Procs, SetTotal(p) PROVE IInv'
<1> USE DEF SetTotal, Goto, AfterPoll
<1>0. TypeOK /\ LifeInv /\ TokenInv /\ PermitInv /\ BoundInv /\ CountInv
  BY DEF IInv
<1>1. TypeOK'
  BY <1>0 DEF TypeOK, Places, Running, PermitInv, Ended, CountInv,
     StreamDoneOnce
<1>2. LifeInv'
  BY <1>0 DEF LifeInv
<1>3. TokenInv'
  BY <1>0 DEF TokenInv, ExclusiveRunner, Holding
<1>4. PermitInv'
  BY <1>0 DEF PermitInv, Permitted, Holding, Full, Outstanding, Ended
<1>5. BoundInv'
  <2>1. InFlight' = InFlight
    BY DEF InFlight
  <2>2. QED
    BY <2>1, <1>0 DEF BoundInv, Deciding, Full, Outstanding, Permitted
<1>6. CountInv'
  <2>1. Counted' = Counted
    BY ProcsFacts DEF Counted
  <2>2. QED
    BY <2>1, <1>0 DEF CountInv, StreamDoneOnce, TypeOK, PermitInv, Ended
<1> QED
  BY <1>1, <1>2, <1>3, <1>4, <1>5, <1>6 DEF IInv

\* Pushing done keeps the invariant.
LEMMA FinishKeeps == ASSUME IInv, NEW p \in Procs, Finish(p) PROVE IInv'
<1> USE DEF Finish, Goto, AfterPoll
<1>0. TypeOK /\ LifeInv /\ TokenInv /\ PermitInv /\ BoundInv /\ CountInv
  BY DEF IInv
<1>1. TypeOK'
  BY <1>0 DEF TypeOK, Places, Running
<1>2. LifeInv'
  BY <1>0 DEF LifeInv
<1>3. TokenInv'
  BY <1>0 DEF TokenInv, ExclusiveRunner, Holding
<1>4. PermitInv'
  BY <1>0 DEF PermitInv, Permitted, Holding, Full, Outstanding, Ended
<1>5. BoundInv'
  <2>1. InFlight' = InFlight
    BY DEF InFlight
  <2>2. QED
    BY <2>1, <1>0 DEF BoundInv, Deciding, Full, Outstanding, Permitted
<1>6. CountInv'
  <2>1. Counted' = Counted
    BY ProcsFacts DEF Counted
  <2>2. QED
    BY <2>1, <1>0 DEF CountInv, StreamDoneOnce, TypeOK
<1> QED
  BY <1>1, <1>2, <1>3, <1>4, <1>5, <1>6 DEF IInv

\* Reading the accumulator keeps the invariant.
LEMMA FoldLoadKeeps == ASSUME IInv, NEW e \in Elements, FoldLoad(e) PROVE IInv'
<1> USE DEF FoldLoad, Goto
<1>0. TypeOK /\ LifeInv /\ TokenInv /\ PermitInv /\ BoundInv /\ CountInv
  BY DEF IInv
<1>1. TypeOK'
  BY <1>0 DEF TypeOK, Places, Running
<1>2. LifeInv'
  BY <1>0, ProcsFacts DEF LifeInv
<1>3. TokenInv'
  BY <1>0 DEF TokenInv, ExclusiveRunner, Holding
<1>4. PermitInv'
  BY <1>0 DEF PermitInv, Permitted, Holding, Full, Outstanding, Ended
<1>5. BoundInv'
  <2>1. InFlight' = InFlight
    BY DEF InFlight
  <2>2. QED
    BY <2>1, <1>0 DEF BoundInv, Deciding, Full, Outstanding, Permitted
<1>6. CountInv'
  <2>1. Counted' = Counted
    BY DEF Counted
  <2>2. QED
    BY <2>1, <1>0 DEF CountInv, StreamDoneOnce
<1> QED
  BY <1>1, <1>2, <1>3, <1>4, <1>5, <1>6 DEF IInv

\* Writing the accumulator keeps the invariant.
LEMMA FoldStoreKeeps == ASSUME IInv, NEW e \in Elements, FoldStore(e) PROVE IInv'
<1> USE DEF FoldStore, Goto
<1>0. TypeOK /\ LifeInv /\ TokenInv /\ PermitInv /\ BoundInv /\ CountInv
  BY DEF IInv
<1>1. TypeOK'
  BY <1>0, ProcsFacts DEF TypeOK, Places, Running
<1>2. LifeInv'
  BY <1>0, ProcsFacts DEF LifeInv
<1>3. TokenInv'
  BY <1>0 DEF TokenInv, ExclusiveRunner, Holding
<1>4. PermitInv'
  BY <1>0 DEF PermitInv, Permitted, Holding, Full, Outstanding, Ended
<1>5. BoundInv'
  <2>1. InFlight' = InFlight
    BY DEF InFlight
  <2>2. QED
    BY <2>1, <1>0 DEF BoundInv, Deciding, Full, Outstanding, Permitted
<1>6. CountInv'
  <2>1. Counted' = Counted
    BY DEF Counted
  <2>2. QED
    BY <2>1, <1>0 DEF CountInv, StreamDoneOnce
<1> QED
  BY <1>1, <1>2, <1>3, <1>4, <1>5, <1>6 DEF IInv

\* sub_now_pending_and_check keeps the invariant.
LEMMA SubKeeps == ASSUME IInv, NEW e \in Elements, Sub(e) PROVE IInv'
<1> USE DEF Sub, Goto, AfterPoll
<1>0. TypeOK /\ LifeInv /\ TokenInv /\ PermitInv /\ BoundInv /\ CountInv
  BY DEF IInv
<1>1. TypeOK'
  BY <1>0, PendingFacts DEF TypeOK, Places, Running
<1>2. LifeInv'
  BY <1>0, ProcsFacts, KindsAssumption DEF LifeInv, TypeOK
<1>3. TokenInv'
  BY <1>0 DEF TokenInv, ExclusiveRunner, TypeOK, Holding
<1>4. PermitInv'
  BY <1>0, ProcsFacts, PendingFacts DEF PermitInv, Permitted, TypeOK, Holding,
     Full, Outstanding, Ended
<1>5. BoundInv'
  <2>1. e \in InFlight /\ InFlight' = InFlight \ {e}
    BY <1>0, ProcsFacts DEF InFlight, TypeOK
  <2>2. Cardinality(InFlight') = Cardinality(InFlight) - 1
    BY <2>1, FiniteFacts, FS_RemoveElement
  <2>3. MaxPending > 0 => Outstanding' = Outstanding - 1 /\ Outstanding \in Int
    BY <1>0, PendingFacts DEF TypeOK, Outstanding
  <2>4. MaxPending > 0 /\ Deciding' => Deciding
    BY <1>0, PendingFacts DEF Deciding, Permitted, Full, Outstanding, TypeOK,
       PermitInv
  <2>5. (\E q \in Procs : pc'[q] = "pushed") <=> (\E q \in Procs : pc[q] = "pushed")
    BY <1>0 DEF TypeOK
  <2>6. QED
    BY <1>0, <2>2, <2>3, <2>4, <2>5, FiniteFacts, ProcsFacts DEF BoundInv
<1>6. CountInv'
  <2>1. Counted' = Counted
    BY <1>0, ProcsFacts DEF Counted, TypeOK
  <2>2. QED
    BY <2>1, <1>0 DEF CountInv, StreamDoneOnce, TypeOK
<1> QED
  BY <1>1, <1>2, <1>3, <1>4, <1>5, <1>6 DEF IInv

\* A poll by a completion keeps the invariant.
LEMMA PollKeeps == ASSUME IInv, NEW e \in Elements, Poll(e) PROVE IInv'
<1> USE DEF Poll, Goto, TryAcquire, AfterPoll
<1>0. TypeOK /\ LifeInv /\ TokenInv /\ PermitInv /\ BoundInv /\ CountInv
  BY DEF IInv
<1>1. TypeOK'
  BY <1>0, ProcsFacts DEF TypeOK, Places, Running, Holding, PermitInv,
     Permitted
<1>2. LifeInv'
  BY <1>0, ProcsFacts DEF LifeInv, PermitInv, Permitted
<1>3. TokenInv'
  BY <1>0, ProcsFacts DEF TokenInv, ExclusiveRunner, PermitInv, Permitted,
     TypeOK, Holding
<1>4. PermitInv'
  BY <1>0, ProcsFacts DEF TokenInv, PermitInv, Permitted, TypeOK, Full,
     Outstanding, Ended
<1>5. BoundInv'
  <2>1. InFlight' = InFlight
    BY DEF InFlight
  <2>2. QED
    BY <2>1, <1>0, ProcsFacts DEF BoundInv, Deciding, Outstanding, Permitted
<1>6. CountInv'
  <2>1. Counted' = Counted
    BY ProcsFacts DEF Counted
  <2>2. QED
    BY <2>1, <1>0 DEF CountInv, StreamDoneOnce
<1> QED
  BY <1>1, <1>2, <1>3, <1>4, <1>5, <1>6 DEF IInv

\* add_done keeps the invariant.
LEMMA CountKeeps == ASSUME IInv, NEW e \in Elements, Count(e) PROVE IInv'
<1> USE DEF Count, Goto
<1>0. TypeOK /\ LifeInv /\ TokenInv /\ PermitInv /\ BoundInv /\ CountInv
  BY DEF IInv
<1>a. e \notin Counted /\ Counted' = Counted \cup {e}
  BY <1>0, ProcsFacts DEF Counted, TypeOK, LifeInv
<1>b. Cardinality(Counted') = Cardinality(Counted) + 1
  BY <1>a, FiniteFacts, FS_AddElement
<1>c. counter.done = Cardinality(Counted) /\ counter.done + 1 <= N
  <2>1. Cardinality(Counted) # N
    BY <1>a, FiniteFacts
  <2> QED
    BY <1>0, <2>1, FiniteFacts, ProcsFacts DEF CountInv
<1>1. TypeOK'
  <2>1. counter.done + 1 \in 0 .. N
    BY <1>c, FiniteFacts
  <2> QED
    BY <1>0, <2>1 DEF TypeOK, Places, Running
<1>2. LifeInv'
  BY <1>0, ProcsFacts DEF LifeInv
<1>3. TokenInv'
  BY <1>0 DEF TokenInv, ExclusiveRunner, Holding
<1>4. PermitInv'
  BY <1>0 DEF PermitInv, Permitted, Holding, Full, Outstanding, Ended
<1>5. BoundInv'
  <2>1. InFlight' = InFlight
    BY DEF InFlight
  <2>2. QED
    BY <2>1, <1>0 DEF BoundInv, Deciding, Full, Outstanding, Permitted
<1>6. CountInv'
  <2>1. counter'.done = Cardinality(Counted')
    BY <1>b, <1>c
  <2>2. ~freed /\ \A q \in Procs : pc[q] \notin {"lastTotal", "lastCount"}
    BY <1>0, <1>c, ProcsFacts DEF CountInv
  <2>3. StreamDoneOnce'
    BY <1>0 DEF CountInv, StreamDoneOnce
  <2>4. QED
    BY <1>0, <2>1, <2>2, <2>3, ProcsFacts DEF CountInv, TypeOK
<1> QED
  BY <1>1, <1>2, <1>3, <1>4, <1>5, <1>6 DEF IInv

-----------------------------------------------------------------------------
\* Every step, stuttering included, preserves the inductive invariant.
LEMMA NextKeeps == IInv /\ [Next]_vars => IInv'
<1> SUFFICES ASSUME IInv, [Next]_vars PROVE IInv'
  OBVIOUS
<1>1. CASE UNCHANGED vars
  BY <1>1 DEF vars, IInv, TypeOK, LifeInv, TokenInv, ExclusiveRunner,
     PermitInv, Full, Outstanding, Ended, BoundInv, Deciding, InFlight,
     CountInv, StreamDoneOnce, Counted
<1>2. ASSUME NEW p \in Procs, Step(p) PROVE IInv'
  <2>1. CASE Loop(p)
    BY <2>1, LaunchKeeps, EndOfRangeKeeps, ConsumeKeeps, AddKeeps,
       RepollKeeps, SkipReturnedKeeps, SetTotalKeeps, FinishKeeps DEF Loop
  <2>2. CASE p = StartProc /\ Start
    BY <2>2, StartKeeps
  <2>3. CASE p \in Elements /\ Complete(p)
    BY <2>3, FoldLoadKeeps, FoldStoreKeeps, SubKeeps, PollKeeps, CountKeeps
       DEF Complete
  <2> QED
    BY <1>2, <2>1, <2>2, <2>3 DEF Step
<1> QED
  BY <1>1, <1>2 DEF Next

(* The invariant behind everything else: one permission to pull, held in   *)
(* one place, whatever the interleaving (for_each.hh, concurrent.hh).      *)
THEOREM Invariance == Spec => []IInv
<1>1. Init => IInv
  BY InitInv
<1>2. IInv /\ [Next]_vars => IInv'
  BY NextKeeps
<1> QED
  BY <1>1, <1>2, PTL DEF Spec

(* Every variable keeps its type; in particular the packed request count   *)
(* never exceeds two and the total is written once.                        *)
THEOREM TypeCorrect == Spec => []TypeOK
<1>1. IInv => TypeOK
  BY DEF IInv
<1> QED
  BY <1>1, Invariance, PTL

(* The plain-memory iterator of the runner is only ever used by the one    *)
(* process that holds the poll token (for_each.hh: poll_next).             *)
THEOREM RunnerIsExclusive == Spec => []ExclusiveRunner
<1>1. IInv => ExclusiveRunner
  BY DEF IInv, TokenInv
<1> QED
  BY <1>1, Invariance, PTL

(* concurrent(max) bounds the elements in flight (concurrent.hh: push_value*)
(* and poll_next of the starter).                                          *)
THEOREM ConcurrencyIsBounded == Spec => []ConcurrencyBound
<1>1. IInv => ConcurrencyBound
  BY DEF IInv, BoundInv, ConcurrencyBound
<1> QED
  BY <1>1, Invariance, PTL

(* The end of the range reaches the counter at most once.                  *)
THEOREM StreamDoneIsPushedOnce == Spec => []StreamDoneOnce
<1>1. IInv => StreamDoneOnce
  BY DEF IInv, CountInv
<1> QED
  BY <1>1, Invariance, PTL

\* Once done is pushed, no process has an access to the stream scope left.
LEMMA FreedMeansGone == IInv => NoAccessAfterFree
<1> SUFFICES ASSUME IInv, freed, NEW p \in Procs PROVE pc[p] = "gone"
  BY DEF NoAccessAfterFree
<1>1. Counted = Elements /\ counter.total # 0
  BY FiniteFacts DEF IInv, CountInv
<1>2. \A q \in Procs : pc[q] \notin {"lastTotal", "lastCount", "total"}
  BY DEF IInv, CountInv, StreamDoneOnce
<1>3. CASE p \in Elements
  BY <1>1, <1>2, <1>3 DEF Counted
<1>4. CASE p = StartProc
  BY <1>1, <1>2, <1>4 DEF IInv, LifeInv, PermitInv, Ended, Permitted
<1> QED
  BY <1>3, <1>4, ProcsFacts

(* The stream scope is deleted after the last access of every process to   *)
(* it (reduce.hh: push_done, concurrent.hh: "push value downstream BEFORE  *)
(* add_done").                                                             *)
THEOREM FreeIsSafe == Spec => []NoAccessAfterFree
<1>1. IInv => NoAccessAfterFree
  BY FreedMeansGone
<1> QED
  BY <1>1, Invariance, PTL
-----------------------------------------------------------------------------
\* With one reducing thread, each step keeps the fold exact.
LEMMA FoldKeeps ==
  ASSUME OneReducer, IInv, FoldInv, [Next]_vars
  PROVE  FoldInv'
<1> USE DEF Goto, FoldInv
<1>0. TypeOK /\ LifeInv
  BY DEF IInv
<1>1. CASE UNCHANGED vars
  BY <1>1 DEF vars
<1>2. ASSUME NEW p \in Procs, Launch(p) PROVE FoldInv'
  <2>1. push_count + 1 \in Elements /\ pc[push_count + 1] = "idle"
    BY <1>0, <1>2, ProcsFacts DEF Launch, TypeOK, LifeInv
  <2>2. QED
    BY <1>0, <1>2, <2>1, ProcsFacts DEF Launch, TypeOK, Running, Holding
<1>3. ASSUME NEW p \in Procs,
             \/ EndOfRange(p) \/ Consume(p) \/ Add(p) \/ Repoll(p)
             \/ SkipReturned(p) \/ SetTotal(p) \/ Finish(p)
      PROVE  FoldInv'
  <2>1. \A d \in Elements : d # p => pc'[d] = pc[d]
    BY <1>0, <1>3, ProcsFacts DEF EndOfRange, Consume, Add, Repoll,
       SkipReturned, SetTotal, Finish, TryAcquire, TypeOK
  <2>2. /\ pc[p] \in Running \ {"store"}
        /\ pc'[p] \notin {"idle", "flight", "store"}
    BY <1>0, <1>3 DEF EndOfRange, Consume, Add, Repoll, SkipReturned,
       SetTotal, Finish, TryAcquire, AfterPoll, TypeOK, Running, Holding
  <2>3. UNCHANGED <<result, loaded>>
    BY <1>3 DEF EndOfRange, Consume, Add, Repoll, SkipReturned, SetTotal,
       Finish
  <2>4. QED
    BY <2>1, <2>2, <2>3 DEF Running, Holding
<1>4. CASE Start
  BY <1>4, ProcsFacts DEF Start, TryAcquire
<1>5. ASSUME NEW e \in Elements, FoldLoad(e) PROVE FoldInv'
  <2>1. \A d \in Elements : pc[d] \notin Running
    BY <1>5, ProcsFacts DEF FoldLoad, Free, Nested, OneReducer
  <2>2. QED
    BY <1>0, <1>5, <2>1 DEF FoldLoad, TypeOK
<1>6. ASSUME NEW e \in Elements, FoldStore(e) PROVE FoldInv'
  BY <1>0, <1>6, ProcsFacts DEF FoldStore, TypeOK, Running
<1>7. ASSUME NEW e \in Elements, Sub(e) \/ Poll(e) \/ Count(e) PROVE FoldInv'
  BY <1>0, <1>7, ProcsFacts DEF Sub, Poll, Count, TryAcquire, AfterPoll,
     TypeOK, Running
<1> QED
  BY <1>1, <1>2, <1>3, <1>4, <1>5, <1>6, <1>7 DEF Next, Step, Loop, Complete

(* A reducer all of whose elements complete on one scheduler thread hands  *)
(* on a result that accounts for every element (reduce.hh: do_set_value).  *)
THEOREM OneReducerIsExact == ASSUME OneReducer PROVE Spec => []ResultExact
<1>1. Init => FoldInv
  BY ProcsFacts DEF Init, FoldInv, Running, Holding
<1>2. IInv /\ FoldInv /\ [Next]_vars => FoldInv'
  BY FoldKeeps
<1>3. IInv /\ FoldInv => ResultExact
  BY FreedMeansGone, ProcsFacts DEF FoldInv, ResultExact, NoAccessAfterFree
<1> QED
  BY <1>1, <1>2, <1>3, Invariance, PTL DEF Spec
-----------------------------------------------------------------------------
\* Every step of the engine is a step of the bounded stream, or a stutter.
LEMMA StepRefines == IInv /\ IInv' /\ [Next]_vars => [Abstract!ANext]_(Abstract!avars)
<1> SUFFICES ASSUME IInv, IInv', [Next]_vars
             PROVE  Abstract!ANext \/ UNCHANGED <<push_count, InFlight, freed>>
  BY DEF Abstract!avars
<1> USE DEF Goto
<1>0. TypeOK /\ LifeInv
  BY DEF IInv
<1>1. CASE UNCHANGED vars
  BY <1>1 DEF vars, InFlight
<1>2. ASSUME NEW p \in Procs, Launch(p) PROVE Abstract!StartElement
  <2>1. push_count + 1 \in Elements /\ pc[push_count + 1] = "idle"
    BY <1>0, <1>2, ProcsFacts DEF Launch, TypeOK, LifeInv
  <2>2. InFlight' = InFlight \cup {push_count + 1}
    BY <1>0, <1>2, ProcsFacts DEF Launch, InFlight, TypeOK
  <2>3. MaxPending = 0 \/ Cardinality(InFlight) < MaxPending
    <3>1. \A q \in Procs : pc[q] # "pushed"
      BY <1>2 DEF Launch, IInv, PermitInv, Permitted
    <3>2. MaxPending > 0 => Outstanding < MaxPending
      BY <1>2, ProcsFacts DEF Launch, IInv, PermitInv, Full, Permitted,
         Outstanding, TypeOK
    <3>3. QED
      BY <1>2, <3>1, ProcsFacts DEF Launch, IInv, BoundInv, Deciding,
         Permitted, Outstanding, TypeOK
  <2>4. Abstract!Cardinality(InFlight) = Cardinality(InFlight)
    BY DEF Cardinality, Abstract!Cardinality
  <2>5. QED
    BY <1>2, <2>2, <2>3, <2>4 DEF Launch, Abstract!StartElement
<1>3. ASSUME NEW p \in Procs,
             \/ EndOfRange(p) \/ Consume(p) \/ Add(p) \/ Repoll(p)
             \/ SkipReturned(p) \/ SetTotal(p)
      PROVE  UNCHANGED <<push_count, InFlight, freed>>
  BY <1>0, <1>3, ProcsFacts DEF EndOfRange, Consume, Add, Repoll,
     SkipReturned, SetTotal, TryAcquire, AfterPoll, TypeOK, InFlight
<1>4. CASE Start
  BY <1>4 DEF Start, TryAcquire, InFlight
<1>5. ASSUME NEW e \in Elements, FoldLoad(e) \/ FoldStore(e) \/ Poll(e) \/ Count(e)
      PROVE  UNCHANGED <<push_count, InFlight, freed>>
  BY <1>0, <1>5, ProcsFacts DEF FoldLoad, FoldStore, Poll, Count, TryAcquire,
     AfterPoll, TypeOK, InFlight
<1>6. ASSUME NEW e \in Elements, Sub(e) PROVE Abstract!Deliver(e)
  <2>1. e \in InFlight /\ InFlight' = InFlight \ {e}
    BY <1>0, <1>6, ProcsFacts DEF Sub, AfterPoll, InFlight, TypeOK
  <2>2. QED
    BY <1>6, <2>1 DEF Sub, Abstract!Deliver
<1>7. ASSUME NEW p \in Procs, Finish(p) PROVE Abstract!FinishStream
  <2>1. ~freed /\ Counted = Elements /\ counter.total # 0
    BY <1>7, FiniteFacts DEF Finish, IInv, CountInv
  <2>2. InFlight = {} /\ InFlight' = {} /\ push_count = N
    BY <1>7, <2>1 DEF Finish, Counted, InFlight, IInv, PermitInv, Ended
  <2>3. QED
    BY <1>7, <2>1, <2>2 DEF Finish, Abstract!FinishStream
<1> QED
  BY <1>1, <1>2, <1>3, <1>4, <1>5, <1>6, <1>7 DEF Next, Step, Loop, Complete,
     Abstract!ANext, Elements

(* The engine implements the bounded stream: the safety half of Refines,   *)
(* for every range length, limit and placement of the elements.            *)
THEOREM EngineRefinesStream == Spec => Abstract!ASafety
<1>1. Init => Abstract!AInit
  BY ProcsFacts DEF Init, Abstract!AInit, InFlight
<1>2. IInv /\ IInv' /\ [Next]_vars => [Abstract!ANext]_(Abstract!avars)
  BY StepRefines
<1> QED
  BY <1>1, <1>2, Invariance, PTL DEF Spec, Abstract!ASafety

===============================================================================
