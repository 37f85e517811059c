----------------------------- MODULE TcpConnections -----------------------------
(***************************************************************************)
(* The accept and connect schedulers of tcp, epoll or io_uring.  An accept *)
(* scheduler matches wait_connection requests with accepted sockets: the   *)
(* asker looks into conn_fd_q and then queues its request, the scheduler   *)
(* looks into conn_request_q and then queues its socket, so the two may    *)
(* pass each other.  A connect scheduler keeps the connections in progress *)
(* in a list, which shutdown empties.                                      *)
(*                                                                         *)
(* Askers in Local call from the scheduler's own thread, between two of    *)
(* its handlers; the others from threads of their own.                     *)
(***************************************************************************)
EXTENDS Integers, Sequences, FiniteSets, SequencesExt

CONSTANTS
  Askers,      \* callers of wait_connection, one request each
  Local,       \* those on the scheduler's thread
  Dialers,     \* callers of connect, on the scheduler's thread
  Sockets,     \* bound: sockets the kernel accepts, and those it makes to connect
  FdRoom       \* capacity of conn_fd_q and conn_request_q

ASSUME CallersAssumption == Local \subseteq Askers /\ Askers \cap Dialers = {}
ASSUME BoundAssumption   == Sockets \in Nat /\ FdRoom \in Nat

None == -1            \* what a refused caller gets

VARIABLES
  backend,         \* "epoll" or "io_uring"
  backlog,         \* listening socket: connections to accept
  armed,           \* io_uring: the accept submitted, and what became of it
  accepting,       \* <<fd>> while the scheduler is between maybe_accept and its enqueue
  conn_request_q,  \* askers waiting (per_core::queue: any of them may come first)
  conn_fd_q,       \* accepted sockets nobody asked for
  asked,           \* of each caller: "idle", "looked", "waiting" or "answered"
  answer,          \* of each caller: the socket it got, or None so far
  pending_connects,\* connections in progress: [fd, asker]
  completions,     \* those the kernel has an event or a cqe for: [fd, asker, ok]
  made,            \* sockets made so far
  shut,            \* sockets closed by the scheduler
  stopped          \* _shutdown

acceptVars  == <<backlog, armed, accepting, conn_request_q, conn_fd_q>>
connectVars == <<pending_connects, completions>>
connVars    == <<backend, acceptVars, connectVars, asked, answer, made, shut, stopped>>

Callers == Askers \cup Dialers

Answer(a, fd) ==
  /\ asked' = [asked EXCEPT ![a] = "answered"]
  /\ answer' = [answer EXCEPT ![a] = fd]

-----------------------------------------------------------------------------
(* The accept scheduler. *)

\* The kernel has another connection.
Arrive ==
  /\ made < Sockets
  /\ made' = made + 1
  /\ backlog' = Append(backlog, made + 1)
  /\ UNCHANGED <<armed, accepting, conn_request_q, conn_fd_q, connectVars, asked, answer, shut, stopped>>

\* The end of schedule: the request is queued, or refused when there is no room.
Wait(a) ==
  IF Cardinality(conn_request_q) < FdRoom
  THEN /\ conn_request_q' = conn_request_q \cup {a}
       /\ asked' = [asked EXCEPT ![a] = "waiting"]
       /\ UNCHANGED answer
  ELSE Answer(a, None) /\ UNCHANGED conn_request_q

\* schedule: an accepted socket, if there is one; on its own thread the
\* scheduler cannot come in between the look and the enqueue.
WaitConnection(a) ==
  /\ asked[a] = "idle"
  /\ a \in Local => accepting = <<>>
  /\ IF conn_fd_q # <<>>
       THEN /\ Answer(a, Head(conn_fd_q))
            /\ conn_fd_q' = Tail(conn_fd_q)
            /\ UNCHANGED conn_request_q
     ELSE /\ UNCHANGED conn_fd_q
          /\ IF a \in Local THEN Wait(a)
             ELSE asked' = [asked EXCEPT ![a] = "looked"] /\ UNCHANGED <<answer, conn_request_q>>
  /\ UNCHANGED <<backlog, armed, accepting, connectVars, made, shut, stopped>>

Enqueue(a) ==
  /\ asked[a] = "looked"
  /\ Wait(a)
  /\ UNCHANGED <<backend, backlog, armed, accepting, conn_fd_q, connectVars, made, shut, stopped>>

\* Mutant: the request stays in the queue.
MaybeAcceptKeeps(fd) ==
  IF conn_request_q # {}
  THEN (\E a \in conn_request_q : Answer(a, fd)) /\ UNCHANGED <<accepting, conn_request_q>>
  ELSE accepting' = <<fd>> /\ UNCHANGED <<asked, answer, conn_request_q>>

\* Mutant: the socket is queued without a look at the requests.
MaybeAcceptLater(fd) == accepting' = <<fd>> /\ UNCHANGED <<asked, answer, conn_request_q>>

\* accept gave a socket: a waiting request gets it, or it is to be queued.
MaybeAccept(fd) ==
  IF conn_request_q # {}
  THEN /\ \E a \in conn_request_q : Answer(a, fd) /\ conn_request_q' = conn_request_q \ {a}
       /\ UNCHANGED accepting
  ELSE accepting' = <<fd>> /\ UNCHANGED <<asked, answer, conn_request_q>>

\* handle_new_connections.  A failing accept leaves everything as it is.
HandleNewConnections ==
  /\ backend = "epoll"
  /\ backlog # <<>> /\ accepting = <<>> /\ ~stopped
  /\ MaybeAccept(Head(backlog))
  /\ backlog' = Tail(backlog)
  /\ UNCHANGED <<armed, conn_fd_q, connectVars, made, shut, stopped>>

\* The kernel completes the accept that is submitted: with a socket or an error.
AcceptCompletes ==
  /\ backend = "io_uring" /\ armed = "submitted"
  /\ \/ armed' = "failed"
     \/ backlog # <<>> /\ armed' = "accepted"
  /\ UNCHANGED <<backend, backlog, accepting, conn_request_q, conn_fd_q, connectVars, asked, answer, made, shut, stopped>>

\* handle_io_uring: after every completion the next accept is submitted.
HandleIoUring ==
  /\ backend = "io_uring" /\ armed \in {"failed", "accepted"}
  /\ accepting = <<>> /\ ~stopped
  /\ IF armed = "failed"
       THEN UNCHANGED <<backlog, accepting, conn_request_q, asked, answer>>
       ELSE MaybeAccept(Head(backlog)) /\ backlog' = Tail(backlog)
  /\ armed' = "submitted"
  /\ UNCHANGED <<conn_fd_q, connectVars, made, shut, stopped>>

\* Nobody waited: the socket is queued, or closed when there is no room.
EnqueueFd ==
  /\ accepting # <<>>
  /\ accepting' = <<>>
  /\ IF Len(conn_fd_q) < FdRoom
       THEN conn_fd_q' = conn_fd_q \o accepting /\ UNCHANGED shut
       ELSE shut' = shut \cup Range(accepting) /\ UNCHANGED conn_fd_q
  /\ UNCHANGED <<backlog, armed, conn_request_q, connectVars, asked, answer, made, stopped>>

-----------------------------------------------------------------------------
(* The connect scheduler. *)

Pending(a) ==
  /\ pending_connects' = pending_connects \cup {[fd |-> made + 1, asker |-> a]}
  /\ asked' = [asked EXCEPT ![a] = "waiting"]
  /\ UNCHANGED <<answer, shut>>

Refuse(a) == Answer(a, None) /\ shut' = shut \cup {made + 1} /\ UNCHANGED pending_connects

\* No socket; or connect fails, connects at once, or is in progress.
InitiateConnect(a) ==
  /\ backend = "epoll"
  /\ asked[a] = "idle" /\ accepting = <<>>
  /\ \/ Answer(a, None) /\ UNCHANGED <<made, shut, pending_connects>>
     \/ /\ made < Sockets /\ made' = made + 1
        /\ \/ Refuse(a)
           \/ Answer(a, made + 1) /\ UNCHANGED <<shut, pending_connects>>
           \/ Pending(a)
  /\ UNCHANGED <<acceptVars, completions, stopped>>

\* No socket; or no submission entry, which takes the entry out of the list
\* again; or submitted.
SubmitConnect(a) ==
  /\ backend = "io_uring"
  /\ asked[a] = "idle" /\ accepting = <<>>
  /\ \/ Answer(a, None) /\ UNCHANGED <<made, shut, pending_connects>>
     \/ made < Sockets /\ made' = made + 1 /\ (Refuse(a) \/ Pending(a))
  /\ UNCHANGED <<acceptVars, completions, stopped>>

\* The kernel: connected, or failed.
Complete(p) ==
  /\ p \in pending_connects
  /\ \A c \in completions : c.fd # p.fd
  /\ \E ok \in BOOLEAN : completions' = completions \cup {[fd |-> p.fd, asker |-> p.asker, ok |-> ok]}
  /\ UNCHANGED <<backend, acceptVars, pending_connects, asked, answer, made, shut, stopped>>

Connected(c) ==
  /\ completions' = completions \ {c}
  /\ pending_connects' = {p \in pending_connects : p.fd # c.fd}
  /\ IF c.ok THEN Answer(c.asker, c.fd) /\ UNCHANGED shut
             ELSE Answer(c.asker, None) /\ shut' = shut \cup {c.fd}
  /\ UNCHANGED <<acceptVars, made, stopped>>

\* handle_connect_completion: the entry is found by its descriptor.
HandleConnectCompletion(c) ==
  /\ backend = "epoll"
  /\ c \in completions /\ ~stopped /\ accepting = <<>>
  /\ \E p \in pending_connects : p.fd = c.fd
  /\ Connected(c)

\* The completion carries the entry's address.
ConnectCqe(c) ==
  /\ backend = "io_uring"
  /\ c \in completions /\ ~stopped /\ accepting = <<>>
  /\ Connected(c)

-----------------------------------------------------------------------------
Shutdown ==
  /\ ~stopped
  /\ stopped' = TRUE
  /\ UNCHANGED <<acceptVars, connectVars, asked, answer, made, shut>>

\* Mutant: only the accept side is drained.
DrainAccepts ==
  /\ stopped /\ accepting = <<>>
  /\ conn_request_q # {}
  /\ asked' = [a \in Callers |-> IF a \in conn_request_q THEN "answered" ELSE asked[a]]
  /\ conn_request_q' = {}
  /\ UNCHANGED <<backlog, armed, accepting, conn_fd_q, answer, made, shut, stopped, connectVars>>

\* drain_on_shutdown of both, in every pass from then on.  The sockets in
\* conn_fd_q, and what the kernel still reports, are left as they are.
DrainOnShutdown ==
  LET failed == conn_request_q \cup {p.asker : p \in pending_connects} IN
  /\ stopped /\ accepting = <<>>
  /\ failed # {}
  /\ asked' = [a \in Callers |-> IF a \in failed THEN "answered" ELSE asked[a]]
  /\ conn_request_q' = {}
  /\ pending_connects' = {}
  /\ shut' = shut \cup {p.fd : p \in pending_connects}
  /\ UNCHANGED <<backlog, armed, accepting, conn_fd_q, answer, made, stopped, completions>>

ConnInit ==
  /\ backend \in {"epoll", "io_uring"} /\ armed = "submitted"
  /\ backlog = <<>> /\ accepting = <<>> /\ conn_request_q = {} /\ conn_fd_q = <<>>
  /\ asked = [a \in Callers |-> "idle"]
  /\ answer = [a \in Callers |-> None]
  /\ pending_connects = {} /\ completions = {}
  /\ made = 0 /\ shut = {} /\ stopped = FALSE

SchedulerStep ==
  /\ UNCHANGED backend
  /\ \/ HandleNewConnections \/ HandleIoUring \/ EnqueueFd \/ DrainOnShutdown
     \/ \E c \in completions : HandleConnectCompletion(c) \/ ConnectCqe(c)

CallerStep ==
  /\ UNCHANGED backend
  /\ \/ \E a \in Askers : WaitConnection(a) \/ Enqueue(a)
     \/ \E a \in Dialers : InitiateConnect(a) \/ SubmitConnect(a)

KernelStep == AcceptCompletes \/ \E p \in pending_connects : Complete(p)

ConnNext ==
  \/ (Arrive \/ Shutdown) /\ UNCHANGED backend
  \/ SchedulerStep \/ KernelStep \/ CallerStep

ConnSpec == ConnInit /\ [][ConnNext]_connVars

-----------------------------------------------------------------------------
(* Properties. *)

Held(fd) == {a \in Callers : answer[a] = fd}

(* Every socket made is in one place: a single caller has it, or it is     *)
(* queued, in progress, being handed over, or closed.  (Not so the sockets *)
(* whose connection completes after shutdown closed them: completions are  *)
(* then never looked at.)                                                  *)
SocketsAccounted == \A fd \in 1 .. made :
  1 = Cardinality(Held(fd))
      + Cardinality({p \in pending_connects : p.fd = fd})
      + (IF Contains(backlog, fd) THEN 1 ELSE 0)
      + (IF Contains(conn_fd_q, fd) THEN 1 ELSE 0)
      + (IF Contains(accepting, fd) THEN 1 ELSE 0)
      + (IF fd \in shut THEN 1 ELSE 0)

(* A caller on the scheduler's own thread never waits while a socket is    *)
(* queued: only the two threads' looks can pass each other.                *)
Meet == conn_request_q \cap Local = {} \/ conn_fd_q = <<>>

(* Nothing is left to do: no socket is being handed over, no connection is *)
(* in progress, no caller is between its look and its enqueue, and after a *)
(* shutdown all is drained.                                                *)
ConnQuiet ==
  /\ accepting = <<>> /\ pending_connects = {}
  /\ \A a \in Askers : asked[a] # "looked"
  /\ stopped => conn_request_q = {}

(* Then every caller of connect has been answered, and after a shutdown    *)
(* every caller of wait_connection too; before it, one that was not waits  *)
(* in the queue.                                                           *)
CallersHeard == ConnQuiet =>
  /\ \A a \in Dialers : asked[a] # "waiting"
  /\ \A a \in Askers : asked[a] = "waiting" => a \in conn_request_q /\ ~stopped

ConnAtRest ==
  ~ENABLED <<SchedulerStep \/ KernelStep \/ \E a \in Askers : Enqueue(a)>>_connVars
CallersAnswered == CallersHeard /\ (ConnAtRest => ConnQuiet)

-----------------------------------------------------------------------------
(* The inductive invariant behind SocketsAccounted. *)

Asked == {"idle", "looked", "waiting", "answered"}
Entry == [fd : 1 .. made, asker : Dialers]

(* Every variable that holds sockets or callers has its type.              *)
ConnTypeOK ==
  /\ asked \in [Callers -> Asked]
  /\ answer \in [Callers -> {None} \cup 1 .. made]
  /\ made \in Nat /\ shut \subseteq 1 .. made
  /\ backlog \in Seq(1 .. made) /\ conn_fd_q \in Seq(1 .. made)
  /\ accepting \in Seq(1 .. made) /\ Len(accepting) <= 1
  /\ armed = "accepted" => backend = "io_uring" /\ backlog # <<>>
  /\ conn_request_q \subseteq Askers
  /\ pending_connects \subseteq Entry
  /\ completions \subseteq [fd : 1 .. made, asker : Dialers, ok : BOOLEAN]

\* The places that a socket can be in.
Handed     == {answer[a] : a \in Callers} \ {None}
InProgress == {p.fd : p \in pending_connects}
Backlog    == Range(backlog)
Queued     == Range(conn_fd_q)
Accepting  == Range(accepting)

\* A socket is in one place, and there once.
InOnePlace(fd) ==
  1 = (IF fd \in Handed THEN 1 ELSE 0) + (IF fd \in InProgress THEN 1 ELSE 0)
      + (IF fd \in Backlog THEN 1 ELSE 0) + (IF fd \in Queued THEN 1 ELSE 0)
      + (IF fd \in Accepting THEN 1 ELSE 0) + (IF fd \in shut THEN 1 ELSE 0)

PlaceInv ==
  /\ \A fd \in 1 .. made : InOnePlace(fd)
  /\ IsInjective(backlog) /\ IsInjective(conn_fd_q)
  /\ \A a, b \in Callers : answer[a] = answer[b] /\ answer[a] # None => a = b
  /\ \A p, q \in pending_connects : p.fd = q.fd \/ p.asker = q.asker => p = q

\* Who is still to be answered has no socket, and a completion that will be
\* looked at is that of a connection in progress.
WaitInv ==
  /\ \A a \in Callers : asked[a] # "answered" => answer[a] = None
  /\ \A a \in conn_request_q : asked[a] = "waiting"
  /\ \A p \in pending_connects : asked[p.asker] = "waiting"
  /\ ~stopped => \A c \in completions :
       \E p \in pending_connects : p.fd = c.fd /\ p.asker = c.asker
  /\ \A c, d \in completions : c.fd = d.fd => c = d

(* Every socket is in one place.                                           *)
ConnInv == ConnTypeOK /\ PlaceInv /\ WaitInv

=============================================================================
