----------------------------- MODULE TaskRuntime -----------------------------
(***************************************************************************)
(* The share-nothing runtime and its task scheduler                        *)
(* (src/env/runtime/{runner,share_nothing}.hh,                             *)
(* src/env/scheduler/task/tasks_scheduler.hh).  Every core runs one loop   *)
(* over its schedulers until its is_running flag is cleared.  The task     *)
(* scheduler drains its queues, runs the timers that are due, and only a   *)
(* pass without work of its own takes one request from the preemptive      *)
(* queues that all cores share.  A callback may post further requests, to  *)
(* any core or to all.  A queue keeps the order of one sender only         *)
(* (PerCoreQueue), and no property here is about that order, so a queue is *)
(* the set of <<sending core, request>> in it.                             *)
(***************************************************************************)
EXTENDS Integers, Sequences, FiniteSets, SequencesExt

CONSTANTS Cores,
          Post,         \* request -> [kind: task or timer, to: a core or Shared]
          Shared,       \* the preemptive scheduler
          Follow,       \* request -> the requests its callback posts, in order
          OnInit,       \* core -> the requests its on_init posts, in order
          Address,      \* timer request -> its address
          Delay,        \* timer request -> when it should run
          TaskDepth,    \* slots of a queue between two cores
          AnyDepth,     \* slots of a preemptive queue
          Horizon       \* bound: how far the clock runs

(* Every request goes to a core or is shared, a timer has an address, and  *)
(* each is an op of its own: it is posted in one place of one function.    *)
ASSUME RuntimeAssumption ==
    /\ Shared \notin Cores
    /\ \A r \in DOMAIN Post : Post[r].to \in Cores \cup {Shared}
    /\ \A r \in DOMAIN Post : Post[r].kind # "task" => Address[r] \in Int
    /\ OnInit \in [Cores -> Seq(DOMAIN Post)] /\ Follow \in [DOMAIN Post -> Seq(DOMAIN Post)]
ASSUME PostedOnce ==
    /\ \A c, d \in Cores : \A i \in DOMAIN OnInit[c], j \in DOMAIN OnInit[d] :
          OnInit[c][i] = OnInit[d][j] => c = d /\ i = j
    /\ \A r, s \in DOMAIN Post : \A i \in DOMAIN Follow[r], j \in DOMAIN Follow[s] :
          Follow[r][i] = Follow[s][j] => r = s /\ i = j
    /\ \A c \in Cores, r \in DOMAIN Post : ToSet(OnInit[c]) \cap ToSet(Follow[r]) = {}

VARIABLES loop,         \* core -> "new", "running" or "left"
          is_running,   \* core -> is_running_by_core
          request_q,    \* core or Shared -> its tasks and timers
          timer_set,    \* core -> the timers it holds
          quiet,        \* core -> this pass has found no work of its own
          clock,        \* now_ms()
          ran,          \* request -> the cores that ran its callback
          accepted      \* the requests that a queue took

rtvars == <<loop, is_running, request_q, timer_set, quiet, clock, ran,
            accepted>>

Reqs == DOMAIN Post
Queues == Cores \cup {Shared}
IsTask(r) == Post[r].kind = "task"

(* add_core_schedulers() has given each core its scheduler.                *)
RtInit ==
    /\ loop = [c \in Cores |-> "new"]
    /\ is_running = [c \in Cores |-> FALSE]
    /\ request_q = [q \in Queues |-> {}]
    /\ timer_set = [c \in Cores |-> {}]
    /\ quiet = [c \in Cores |-> FALSE]
    /\ clock = 0
    /\ ran = [r \in Reqs |-> <<>>]
    /\ accepted = {}

(* MUTANT a make_op() that hands the time on: then timer_set, which is     *)
(* ordered by address, hides a timer that is due behind one that is not.   *)
StampKept(r) == Delay[r]

(* make_op() of the timer sender leaves the op's timestamp 0: every timer  *)
(* is due at once.                                                         *)
Stamp(r) == 0

-----------------------------------------------------------------------------
(* schedule() of core c: a full queue's answer is dropped with the request *)
NoRoom(queues, c, r) ==
    LET q == Post[r].to
        alike == {e \in queues[q] : IsTask(e[2]) = IsTask(r)} IN
    IF q = Shared THEN Cardinality(alike) = AnyDepth
               ELSE Cardinality({e \in alike : e[1] = c}) = TaskDepth

ScheduleOp(queues, c, r) ==
    IF NoRoom(queues, c, r) THEN queues
    ELSE [queues EXCEPT ![Post[r].to] = @ \cup {<<c, r>>}]

ScheduleAll(queues, c, rs) ==
    LET posted[i \in 0 .. Len(rs)] ==
          IF i = 0 THEN queues ELSE ScheduleOp(posted[i - 1], c, rs[i])
    IN posted[Len(rs)]

(* What core c posts, the queues otherwise being as given.                 *)
Posts(queues, c, rs) ==
    /\ request_q' = ScheduleAll(queues, c, rs)
    /\ accepted' = accepted \cup
           {r \in ToSet(rs) : \E q \in Queues : <<c, r>> \in request_q'[q]}

Call(queues, c, r) ==
    /\ ran' = [ran EXCEPT ![r] = Append(@, c)]
    /\ Posts(queues, c, Follow[r])

-----------------------------------------------------------------------------
(* run(): the flag is set when the loop begins, whatever it was.           *)
Run(c) ==
    /\ loop[c] = "new"
    /\ loop' = [loop EXCEPT ![c] = "running"]
    /\ is_running' = [is_running EXCEPT ![c] = TRUE]
    /\ Posts(request_q, c, OnInit[c])
    /\ UNCHANGED <<timer_set, quiet, clock, ran>>

(* The application clears a flag; the loop looks at it between two passes. *)
Stop(c) ==
    /\ is_running[c]
    /\ is_running' = [is_running EXCEPT ![c] = FALSE]
    /\ UNCHANGED <<loop, request_q, timer_set, quiet, clock, ran, accepted>>

Leave(c) ==
    /\ loop[c] = "running" /\ ~is_running[c]
    /\ loop' = [loop EXCEPT ![c] = "left"]
    /\ UNCHANGED <<is_running, request_q, timer_set, quiet, clock, ran,
                   accepted>>

Tick == /\ clock < Horizon
        /\ clock' = clock + 1
        /\ UNCHANGED <<loop, is_running, request_q, timer_set, quiet, ran,
                       accepted>>

Waiting(q, task) == {e \in request_q[q] : IsTask(e[2]) = task}

FrontTimer(c) == CHOOSE r \in timer_set[c] :
               \A s \in timer_set[c] : Address[r] <= Address[s]
Due(c) == timer_set[c] # {} /\ clock >= Stamp(FrontTimer(c))

(* handle_timer(): the queue is drained into timer_set ...                 *)
HandleTimer(c) ==
    /\ loop[c] = "running" /\ Waiting(c, FALSE) # {}
    /\ timer_set' = [timer_set EXCEPT ![c] =
           @ \cup {e[2] : e \in Waiting(c, FALSE)}]
    /\ request_q' = [request_q EXCEPT ![c] = @ \ Waiting(c, FALSE)]
    /\ quiet' = [quiet EXCEPT ![c] = FALSE]
    /\ UNCHANGED <<loop, is_running, clock, ran, accepted>>

(* MUTANT a loop that erases after the callback, where begin() may be      *)
(* another timer: the erased one is the last.                              *)
RunTimerThenErase(c) ==
    /\ loop[c] = "running" /\ Due(c)
    /\ LET last == CHOOSE r \in timer_set[c] :
                      \A s \in timer_set[c] : Address[r] >= Address[s] IN
       timer_set' = [timer_set EXCEPT ![c] = @ \ {last}]
    /\ Call(request_q, c, FrontTimer(c))
    /\ quiet' = [quiet EXCEPT ![c] = FALSE]
    /\ UNCHANGED <<loop, is_running, clock>>

(* ... and the timers run from the lowest address on until one is not due. *)
RunTimer(c) ==
    /\ loop[c] = "running" /\ Due(c)
    /\ timer_set' = [timer_set EXCEPT ![c] = @ \ {FrontTimer(c)}]
    /\ Call(request_q, c, FrontTimer(c))
    /\ quiet' = [quiet EXCEPT ![c] = FALSE]
    /\ UNCHANGED <<loop, is_running, clock>>

(* handle_tasks(): one round of the drain.                                 *)
HandleTasks(c) ==
    /\ loop[c] = "running"
    /\ \E e \in Waiting(c, TRUE) :
           Call([request_q EXCEPT ![c] = @ \ {e}], c, e[2])
    /\ quiet' = [quiet EXCEPT ![c] = FALSE]
    /\ UNCHANGED <<loop, is_running, timer_set, clock>>

(* advance(): the pass has found no timer and no task; what arrives from   *)
(* now on waits for the next one.                                          *)
NothingOwn(c) ==
    /\ loop[c] = "running" /\ ~quiet[c]
    /\ request_q[c] = {} /\ ~Due(c)
    /\ quiet' = [quiet EXCEPT ![c] = TRUE]
    /\ UNCHANGED <<loop, is_running, request_q, timer_set, clock, ran,
                   accepted>>

(* MUTANT a handle_preemptive() that looks at the tasks only.              *)
HandlePreemptiveTasks(c) ==
    /\ loop[c] = "running" /\ quiet[c]
    /\ \E e \in Waiting(Shared, TRUE) :
           Call([request_q EXCEPT ![Shared] = @ \ {e}], c, e[2])
    /\ quiet' = [quiet EXCEPT ![c] = FALSE]
    /\ UNCHANGED <<loop, is_running, timer_set, clock>>

(* handle_preemptive(): a task of the shared queue, or else a timer, which *)
(* this core then keeps in its own timer_set.                              *)
HandlePreemptive(c) ==
    /\ loop[c] = "running" /\ quiet[c]
    /\ \/ \E e \in Waiting(Shared, TRUE) :
             /\ Call([request_q EXCEPT ![Shared] = @ \ {e}], c, e[2])
             /\ UNCHANGED timer_set
       \/ /\ Waiting(Shared, TRUE) = {}
          /\ \E e \in Waiting(Shared, FALSE) :
                /\ request_q' = [request_q EXCEPT ![Shared] = @ \ {e}]
                /\ timer_set' = [timer_set EXCEPT ![c] = @ \cup {e[2]}]
          /\ UNCHANGED <<ran, accepted>>
    /\ quiet' = [quiet EXCEPT ![c] = FALSE]
    /\ UNCHANGED <<loop, is_running, clock>>

CoreStep == \E c \in Cores :
    \/ Run(c) \/ Leave(c) \/ HandleTimer(c) \/ RunTimer(c) \/ HandleTasks(c)
    \/ NothingOwn(c) \/ HandlePreemptive(c)

RtNext == CoreStep \/ Tick \/ \E c \in Cores : Stop(c)

RtSpec == RtInit /\ [][RtNext]_rtvars

-----------------------------------------------------------------------------
(* The core that keeps a request that has not run: the one it was posted   *)
(* to, or the one that took it from the preemptive queue.                  *)
KeptBy(c, r) == r \in timer_set[c] \/ \E e \in request_q[c] : e[2] = r

(* Nothing is left to do: a core that runs has found nothing in a pass,    *)
(* and the preemptive queues are empty as long as one does.                *)
CoresQuiet ==
    \A c \in Cores :
       /\ loop[c] # "new"
       /\ loop[c] = "running" =>
             /\ is_running[c] /\ quiet[c] /\ ~Due(c)
             /\ request_q[c] = {} /\ request_q[Shared] = {}

(* Then a request that a queue accepted has run, unless the core that      *)
(* keeps it has left its loop, or every core has.  A request that waits    *)
(* behind another, or in a queue nobody drains, would break this; so would *)
(* a shared request that no quiet core takes, and a timer that waits.      *)
AcceptedRun ==
    CoresQuiet =>
        \A r \in accepted :
            \/ ran[r] # <<>>
            \/ \A c \in Cores : loop[c] = "left"
            \/ \E c \in Cores : KeptBy(c, r) /\ loop[c] = "left"

RequestsRun == AcceptedRun /\ (~ENABLED CoreStep => CoresQuiet)

(* A request runs once, on the core it was posted to; from the shared      *)
(* queue on one core only, the timer included that moved to a timer_set.   *)
RunOnce ==
    \A r \in Reqs :
        /\ Len(ran[r]) <= 1
        /\ ran[r] # <<>> /\ Post[r].to # Shared => Head(ran[r]) = Post[r].to
=============================================================================
