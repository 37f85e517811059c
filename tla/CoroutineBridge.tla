--------------------------- MODULE CoroutineBridge ---------------------------
(***************************************************************************)
(* A coroutine of src/pump/coro that awaits senders                        *)
(* (src/pump/sender/await_sender.hh).  Its owner resumes it until it is    *)
(* done; co_yield gives the control back to the owner, co_await starts a   *)
(* sender, whose pipeline ends in await_receiver: a signal completes the   *)
(* await, within the call that starts the sender or later, from a          *)
(* scheduler.  The state of the await is plain: OwnCore says that senders  *)
(* complete on the core that awaits, so never between two steps of         *)
(* await_suspend.                                                          *)
(***************************************************************************)
EXTENDS Integers, Sequences

CONSTANTS Body,         \* sequence of "await" and "yield": the coroutine
          OwnCore       \* completions run on the core of the coroutine

ASSUME BodyAssumption == Body \in Seq({"await", "yield"}) /\ OwnCore \in BOOLEAN

VARIABLES pc,           \* position in Body
          frame,        \* "suspended", "running", "awaiting" or "done"
          caller,       \* who has resumed it: "owner", "sender" or "nobody"
          suspend,      \* await -> where its await_suspend() is: "no",
                        \* "starting", "returning"
          state,        \* await -> its await_state_value
          sender,       \* await -> "idle", "started" or "finished"
          scope_held,   \* awaits whose scope_holder keeps a root scope
          took,         \* await -> the outcomes with which the body went on
          thrown        \* the promise has an exception

cvars == <<pc, frame, caller, suspend, state, sender, scope_held, took, thrown>>

Awaits == {i \in DOMAIN Body : Body[i] = "await"}

CoInit ==
    /\ pc = 1 /\ frame = "suspended" /\ caller = "nobody"
    /\ suspend = [i \in Awaits |-> "no"]
    /\ state = [i \in Awaits |->
           [completed |-> FALSE, in_await_suspend |-> FALSE,
            continuation |-> FALSE, outcome |-> "none"]]
    /\ sender = [i \in Awaits |-> "idle"]
    /\ scope_held = {}
    /\ took = [i \in Awaits |-> <<>>]
    /\ thrown = FALSE

-----------------------------------------------------------------------------
(* co_object::resume(), iterator's ++ and begin(): by the owner, who has   *)
(* the control back since the last co_yield.                               *)
OwnerResumes ==
    /\ frame = "suspended" /\ caller = "nobody"
    /\ frame' = "running" /\ caller' = "owner"
    /\ UNCHANGED <<pc, suspend, state, sender, scope_held, took, thrown>>

(* yield_value(): suspend_always, and the caller goes on.                  *)
Yield ==
    /\ frame = "running" /\ pc \in DOMAIN Body /\ Body[pc] = "yield"
    /\ pc' = pc + 1
    /\ frame' = "suspended" /\ caller' = "nobody"
    /\ UNCHANGED <<suspend, state, sender, scope_held, took, thrown>>

(* return_value() and final_suspend().                                     *)
Return ==
    /\ frame = "running" /\ pc = Len(Body) + 1
    /\ frame' = "done" /\ caller' = "nobody"
    /\ UNCHANGED <<pc, suspend, state, sender, scope_held, took, thrown>>

(* co_await, up to start_sender(): the scope with its holder, and the      *)
(* first push.  From here on the frame may be resumed by the sender.       *)
AwaitSuspend ==
    /\ frame = "running" /\ pc \in Awaits
    /\ frame' = "awaiting"
    /\ suspend' = [suspend EXCEPT ![pc] = "starting"]
    /\ state' = [state EXCEPT ![pc].continuation = TRUE,
                              ![pc].in_await_suspend = TRUE]
    /\ sender' = [sender EXCEPT ![pc] = "started"]
    /\ scope_held' = scope_held \cup {pc}
    /\ UNCHANGED <<pc, caller, took, thrown>>

(* await_resume() of await i: the value, or an exception for all else,     *)
(* which the body catches or leaves to unhandled_exception(); the awaitable*)
(* dies, with its scope, at the end of the expression.                     *)
AwaitResume(i, outcome) ==
    /\ took' = [took EXCEPT ![i] = Append(@, outcome)]
    /\ scope_held' = scope_held \ {i}
    /\ \/ /\ frame' = "running" /\ pc' = i + 1
          /\ UNCHANGED thrown
       \/ /\ outcome # "value"
          /\ frame' = "done" /\ pc' = Len(Body) + 1
          /\ thrown' = TRUE

(* MUTANT a complete() that does not ask whether await_suspend still runs. *)
ResumesAlways(i) == state[i].continuation

(* complete() resumes the coroutine unless await_suspend still runs.       *)
Resumes(i) == ~state[i].in_await_suspend /\ state[i].continuation

(* await_receiver: push_value, push_exception, push_skip and push_done.    *)
(* On the core of the coroutine that happens inside start_sender() or after*)
(* await_suspend has returned.                                             *)
Complete(i) ==
    /\ sender[i] = "started" /\ ~state[i].completed
    /\ OwnCore => suspend[i] # "returning"
    /\ sender' = [sender EXCEPT ![i] = "finished"]
    /\ \E outcome \in {"value", "exception", "skip", "done"} :
          /\ state' = [state EXCEPT ![i].completed = TRUE,
                                    ![i].outcome = outcome,
                                    ![i].continuation = @ /\ ~Resumes(i)]
          /\ IF Resumes(i)
             THEN AwaitResume(i, outcome) /\ caller' = "sender"
             ELSE UNCHANGED <<caller, frame, pc, took, scope_held, thrown>>
    /\ UNCHANGED suspend

(* start_sender() has returned.                                            *)
StartReturns(i) ==
    /\ suspend[i] = "starting"
    /\ suspend' = [suspend EXCEPT ![i] = "returning"]
    /\ state' = [state EXCEPT ![i].in_await_suspend = FALSE]
    /\ UNCHANGED <<pc, frame, caller, sender, scope_held, took, thrown>>

(* MUTANT an await_suspend that always stays suspended.                    *)
StaysSuspendedAlways(i) == TRUE

(* await_suspend's answer: stay suspended unless the state is completed.   *)
StaysSuspended(i) == ~state[i].completed

AwaitReturns(i) ==
    /\ suspend[i] = "returning"
    /\ suspend' = [suspend EXCEPT ![i] = "no"]
    /\ IF StaysSuspended(i)
       THEN /\ caller' = "nobody"
            /\ UNCHANGED <<pc, frame, scope_held, took, thrown>>
       ELSE AwaitResume(i, state[i].outcome) /\ UNCHANGED caller
    /\ UNCHANGED <<state, sender>>

CoNext == \/ OwnerResumes \/ Yield \/ Return \/ AwaitSuspend
          \/ \E i \in Awaits : Complete(i) \/ StartReturns(i)
                               \/ AwaitReturns(i)

CoSpec == CoInit /\ [][CoNext]_cvars

-----------------------------------------------------------------------------
\* The await of position i is not over: its awaitable is in use.
InUse(i) == suspend[i] # "no" \/ (sender[i] = "started" /\ ~state[i].completed)

\* There is someone to go on: the owner, the body or an await.
CanGoOn ==
    \/ frame = "suspended" /\ caller = "nobody"
    \/ frame = "running"
    \/ \E i \in Awaits : InUse(i)

(* A coroutine goes on once after each co_await, with the signal of the    *)
(* sender and not before it, and is never left suspended in one: when      *)
(* nothing can happen, it has run to its end and every awaitable has freed *)
(* its scope.  Needs OwnCore: a sender that completes between the steps of *)
(* await_suspend on another core resumes the coroutine twice.              *)
TookOnce == \A i \in Awaits : took[i] \in {<<>>, <<state[i].outcome>>}
AwaitedOnce ==
    /\ TookOnce
    /\ ~CanGoOn => frame = "done" /\ scope_held = {}

(* CanGoOn says no more and no less than that some step can be taken.      *)
CanGoOnIsEnabled == CanGoOn <=> ENABLED CoNext
=============================================================================
