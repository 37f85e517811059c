------------------------------- MODULE TcpSessions -------------------------------
(***************************************************************************)
(* The session scheduler of tcp, epoll or io_uring, and the sessions it    *)
(* serves: tcp_bind, frame_receiver and session_lifecycle, composed into   *)
(* one object that is deleted when both its users, the application's       *)
(* pipeline and the scheduler's read chain, have ended.  A session's       *)
(* pipeline joins, receives and sends, and stops the session or ends.      *)
(* Sends carry a descriptor, joins and stops a pointer to the session.     *)
(*                                                                         *)
(* One thread runs the scheduler and the pipelines it continues: an action *)
(* is one handler.  The kernel keeps a connection per session; descriptors *)
(* are reused, lowest first.                                               *)
(***************************************************************************)
EXTENDS Integers, Sequences, FiniteSets, SequencesExt

CONSTANTS
  Sessions,    \* the sessions created
  Descriptors, \* bound: descriptors open at a time, 1 .. Descriptors
  Frames,      \* bound: frames a peer sends
  Sends        \* bound: frames a pipeline sends

Closed == 0    \* fd -1

ASSUME SessionAssumption == Closed \notin Sessions
ASSUME SessionBounds     == Descriptors \in Nat /\ Frames \in Nat /\ Sends \in Nat

VARIABLES
  poller,     \* "epoll" or "io_uring"
  sess,        \* the session objects, and their pipelines (app)
  owner,       \* kernel: the session whose connection a descriptor stands for
  touched,     \* history: a handler has used a deleted session
  inbox,       \* kernel: of each connection, the frames to read
  hung_up,     \* kernel: connections whose peer has closed
  arrived,     \* bound: frames a peer has sent
  reading,     \* epoll: sessions registered; io_uring: those with a read outstanding
  event,       \* sessions with an event or a completed read
  join_q, stop_q,     \* requests, as sets: a per_core::queue keeps only each poster's order
  send_q, send_list,  \* send requests: [from, fd]
  writing,     \* io_uring: writes the kernel has: [from, to]
  sent,        \* of each session: [made, ok, failed], its send requests
  wrote,       \* history: which connection a session's frame was written to
  down         \* _shutdown

objects   == <<sess, owner, touched>>
kernel    == <<inbox, hung_up, arrived>>
queues    == <<join_q, stop_q, send_q, send_list, writing, sent, wrote>>
tcpVars   == <<poller, objects, kernel, reading, event, queues, down>>

-----------------------------------------------------------------------------
(* The session object.  w = [sess, owner, touched]. *)

Objects == [sess |-> sess, owner |-> owner, touched |-> touched]
Becomes(w) == sess' = w.sess /\ owner' = w.owner /\ touched' = w.touched

\* A handler uses the session s and leaves o in its place.
Put(w, s, o) == [w EXCEPT !.sess[s] = o, !.touched = @ \/ w.sess[s].freed]

DoClose(w, s) ==
  LET f == w.sess[s].fd
  IN [Put(w, s, [w.sess[s] EXCEPT !.fd = Closed, !.status = "closed"])
        EXCEPT !.owner = [d \in DOMAIN w.owner |-> IF d = f THEN Closed ELSE w.owner[d]]]

Delete(w, s) ==
  LET t == DoClose(w, s) IN Put(t, s, [t.sess[s] EXCEPT !.freed = TRUE])

PipelineEnd(w, s) ==
  LET t == Put(w, s, [w.sess[s] EXCEPT !.pipeline_active = FALSE, !.app = "ended"])
  IN IF w.sess[s].pipeline_active /\ ~w.sess[s].read_active THEN Delete(t, s) ELSE t

\* The ends of the pipelines of several sessions, each on its own.
EndAll(w, S) ==
  [sess |-> [s \in Sessions |-> IF s \in S THEN PipelineEnd(w, s).sess[s] ELSE w.sess[s]],
   owner |-> [d \in DOMAIN w.owner |->
                IF \E s \in S : PipelineEnd(w, s).owner[d] = Closed THEN Closed ELSE w.owner[d]],
   touched |-> w.touched \/ \E s \in S : PipelineEnd(w, s).touched]

ReadEnd(w, s) ==
  LET t == Put(w, s, [w.sess[s] EXCEPT !.read_active = FALSE])
  IN IF w.sess[s].read_active /\ ~w.sess[s].pipeline_active THEN Delete(t, s) ELSE t

\* on_error: tcp_bind's status, and frame_receiver fails the waiting receiver,
\* whose pipeline ends, and forgets its frames.
OnError(w, s) ==
  LET t == Put(w, s, [w.sess[s] EXCEPT !.status = "errors", !.ready = 0])
  IN IF w.sess[s].app = "recv" THEN PipelineEnd(t, s) ELSE t

HandleSessionError(w, s) == DoClose(OnError(w, s), s)

\* n frames come out of the ring buffer: the receiver takes the first.
OnRecv(w, s, n) ==
  LET o == w.sess[s]
  IN Put(w, s, IF n > 0 /\ o.app = "recv"
               THEN [o EXCEPT !.app = "open", !.ready = @ + n - 1]
               ELSE [o EXCEPT !.ready = @ + n])

-----------------------------------------------------------------------------
(* The pipelines. *)

\* A descriptor from the accept scheduler, the lowest that is free.
Create(s) ==
  /\ sess[s].app = "none"
  /\ \E f \in 1 .. Descriptors :
       /\ owner[f] = Closed /\ \A d \in 1 .. f - 1 : owner[d] # Closed
       /\ sess' = [sess EXCEPT ![s].fd = f, ![s].app = "joining"]
       /\ owner' = [owner EXCEPT ![f] = s]
  /\ join_q' = join_q \cup {s}
  /\ UNCHANGED <<touched, kernel, reading, event, stop_q, send_q, send_list, writing, sent, wrote, down>>

Recv(s) ==
  /\ sess[s].app = "open"
  /\ Becomes(IF sess[s].status # "normal" THEN PipelineEnd(Objects, s)
             ELSE Put(Objects, s, IF sess[s].ready > 0 THEN [sess[s] EXCEPT !.ready = @ - 1]
                                                       ELSE [sess[s] EXCEPT !.app = "recv"]))
  /\ UNCHANGED <<kernel, reading, event, queues, down>>

\* do_send: the request carries the descriptor.
Send(s) ==
  /\ sess[s].app = "open" /\ sent[s].made < Sends
  /\ sent' = [sent EXCEPT ![s].made = @ + 1]
  /\ send_q' = Append(send_q, [from |-> s, fd |-> sess[s].fd])
  /\ UNCHANGED <<objects, kernel, reading, event, join_q, stop_q, send_list, writing, wrote, down>>

\* The pipeline that owns the session stops it, and waits; or just ends.
Stop(s) ==
  /\ sess[s].app = "open"
  /\ sess' = [sess EXCEPT ![s].app = "stopping"]
  /\ stop_q' = stop_q \cup {s}
  /\ UNCHANGED <<owner, touched, kernel, reading, event, join_q, send_q, send_list, writing, sent, wrote, down>>

End(s) ==
  /\ sess[s].app = "open"
  /\ Becomes(PipelineEnd(Objects, s))
  /\ UNCHANGED <<kernel, reading, event, queues, down>>

-----------------------------------------------------------------------------
(* The peer and the kernel. *)

\* Edge-triggered: whatever comes in raises an event of a registered session,
\* or completes the outstanding read.
FrameArrives(s) ==
  /\ sess[s].app # "none" /\ s \notin hung_up /\ arrived[s] < Frames
  /\ arrived' = [arrived EXCEPT ![s] = @ + 1]
  /\ inbox' = [inbox EXCEPT ![s] = @ + 1]
  /\ event' = IF s \in reading THEN event \cup {s} ELSE event
  /\ UNCHANGED <<objects, hung_up, reading, queues, down>>

HangUp(s) ==
  /\ sess[s].app # "none" /\ s \notin hung_up
  /\ hung_up' = hung_up \cup {s}
  /\ event' = IF s \in reading THEN event \cup {s} ELSE event
  /\ UNCHANGED <<objects, inbox, arrived, reading, queues, down>>

-----------------------------------------------------------------------------
(* The scheduler. *)

\* A closed descriptor leaves the epoll set; a read the ring has stays.
Registered(w) == IF poller = "epoll" THEN {s \in reading : w.sess[s].fd # Closed} ELSE reading

Settle(w) ==
  /\ Becomes(w)
  /\ reading' = Registered(w)
  /\ event' = event \cap Registered(w)

\* handle_join_req: registered, or a read is submitted.
HandleJoin(s) ==
  /\ s \in join_q /\ ~down
  /\ join_q' = join_q \ {s}
  /\ \/ /\ sess[s].status = "normal"
        /\ Becomes(Put(Objects, s, [sess[s] EXCEPT !.app = "open"]))
        /\ reading' = reading \cup {s}
        /\ event' = IF inbox[s] > 0 \/ s \in hung_up THEN event \cup {s} ELSE event
     \/ /\ sess[s].status # "normal" \/ poller = "epoll"
        /\ Settle([PipelineEnd(Objects, s) EXCEPT !.sess[s].app = "refused"])
  /\ UNCHANGED <<kernel, stop_q, send_q, send_list, writing, sent, wrote, down>>

\* Mutant: the io_uring scheduler reports the end of the read chain, as epoll does.
StopReadToo(w, s) == PipelineEnd(ReadEnd(HandleSessionError(w, s), s), s)

\* epoll's stop ends the read chain; in io_uring the read's completion does.
StopRead(w, s) ==
  LET t == HandleSessionError(w, s)
  IN PipelineEnd(IF poller = "epoll" THEN ReadEnd(t, s) ELSE t, s)

HandleStop(s) ==
  /\ s \in stop_q /\ ~down
  /\ stop_q' = stop_q \ {s}
  /\ Settle(IF sess[s].status # "normal" THEN PipelineEnd(Objects, s)
            ELSE StopRead(Objects, s))
  /\ UNCHANGED <<kernel, join_q, send_q, send_list, writing, sent, wrote, down>>

\* Mutant: an error ends the session, and the read chain is not reported.
EpollEventSilently(s) ==
  /\ poller = "epoll" /\ s \in event /\ ~down
  /\ LET t == OnRecv(Objects, s, inbox[s])
     IN Settle(IF s \in hung_up THEN HandleSessionError(t, s) ELSE t)
  /\ inbox' = [inbox EXCEPT ![s] = 0]
  /\ UNCHANGED <<hung_up, arrived, queues, down>>

\* handle_events: reads until there is nothing left, then sees the peer's end.
EpollEvent(s) ==
  /\ poller = "epoll" /\ s \in event /\ ~down
  /\ LET t == OnRecv(Objects, s, inbox[s])
         w == IF s \in hung_up THEN ReadEnd(HandleSessionError(t, s), s) ELSE t
     IN /\ Becomes(w)
        /\ reading' = Registered(w)
        /\ event' = event \ {s}
  /\ inbox' = [inbox EXCEPT ![s] = 0]
  /\ UNCHANGED <<hung_up, arrived, queues, down>>

\* process_cqe, process_err: the next read is submitted while the session is normal.
ReadCompletes(s) ==
  /\ poller = "io_uring" /\ s \in event /\ ~down
  /\ LET t == OnRecv(Objects, s, inbox[s])
         more == inbox[s] > 0 /\ sess[s].status = "normal"
         w == IF inbox[s] = 0 THEN ReadEnd(HandleSessionError(Objects, s), s)
              ELSE IF more THEN t ELSE ReadEnd(t, s)
     IN /\ Becomes(w)
        /\ reading' = IF more THEN reading ELSE reading \ {s}
        /\ event' = IF more /\ s \in hung_up THEN event ELSE event \ {s}
  /\ inbox' = [inbox EXCEPT ![s] = 0]
  /\ UNCHANGED <<hung_up, arrived, queues, down>>

DrainSends ==
  /\ send_q # <<>> /\ ~down
  /\ send_list' = send_list \o send_q
  /\ send_q' = <<>>
  /\ UNCHANGED <<objects, kernel, reading, event, join_q, stop_q, writing, sent, wrote, down>>

Report(r, ok) ==
  sent' = IF ok THEN [sent EXCEPT ![r.from].ok = @ + 1] ELSE [sent EXCEPT ![r.from].failed = @ + 1]

\* The connection a descriptor stands for now; Closed when it stands for none.
Target(f) == IF f = Closed THEN Closed ELSE owner[f]

\* handle_send_request (epoll): a writev that would block is passed over; one
\* that writes less than the frame counts as failed.
WriteNow(i) ==
  /\ poller = "epoll" /\ i \in DOMAIN send_list /\ ~down
  /\ LET r == send_list[i] IN
       /\ send_list' = RemoveAt(send_list, i)
       /\ IF Target(r.fd) = Closed THEN Report(r, FALSE) /\ UNCHANGED wrote
          ELSE /\ \E ok \in BOOLEAN : Report(r, ok)
               /\ wrote' = wrote \cup {[from |-> r.from, to |-> Target(r.fd)]}
  /\ UNCHANGED <<objects, kernel, reading, event, join_q, stop_q, send_q, writing, down>>

\* submit_write: the ring resolves the descriptor; a closed one is a no-op.
SubmitWrite ==
  /\ poller = "io_uring" /\ send_list # <<>> /\ ~down
  /\ writing' = Append(writing, [from |-> Head(send_list).from, to |-> Target(Head(send_list).fd)])
  /\ send_list' = Tail(send_list)
  /\ UNCHANGED <<objects, kernel, reading, event, join_q, stop_q, send_q, sent, wrote, down>>

\* on_write_event, process_err.
WriteCompletes(i) ==
  /\ i \in DOMAIN writing /\ ~down
  /\ writing' = RemoveAt(writing, i)
  /\ IF writing[i].to = Closed THEN Report(writing[i], FALSE) /\ UNCHANGED wrote
     ELSE (\E ok \in BOOLEAN : Report(writing[i], ok)) /\ wrote' = wrote \cup {writing[i]}
  /\ UNCHANGED <<objects, kernel, reading, event, join_q, stop_q, send_q, send_list, down>>

SessionShutdown ==
  /\ ~down
  /\ down' = TRUE
  /\ UNCHANGED <<objects, kernel, reading, event, queues>>

FailAll(reqs) ==
  [s \in Sessions |-> [sent[s] EXCEPT !.failed = @ + Len(SelectSeq(reqs, LAMBDA r : r.from = s))]]

\* Mutant: the sends that could not be written yet are left.
DrainQueuesOnly ==
  /\ down /\ <<join_q, stop_q, send_q>> # <<{}, {}, <<>>>>
  /\ Settle(EndAll(Objects, join_q \cup stop_q))
  /\ sent' = FailAll(send_q)
  /\ join_q' = {} /\ stop_q' = {} /\ send_q' = <<>>
  /\ UNCHANGED <<kernel, send_list, writing, wrote, down>>

\* drain_on_shutdown: every request fails.  Writes and reads in the ring, and
\* the receivers, stay as they are.
DrainSessions ==
  /\ down /\ <<join_q, stop_q, send_q, send_list>> # <<{}, {}, <<>>, <<>>>>
  /\ Settle(EndAll(Objects, join_q \cup stop_q))
  /\ sent' = FailAll(send_q \o send_list)
  /\ join_q' = {} /\ stop_q' = {} /\ send_q' = <<>> /\ send_list' = <<>>
  /\ UNCHANGED <<kernel, writing, wrote, down>>

-----------------------------------------------------------------------------
NewSession ==
  [fd |-> Closed, status |-> "normal", pipeline_active |-> TRUE, read_active |-> TRUE,
   freed |-> FALSE, app |-> "none", ready |-> 0]

TcpInit ==
  /\ poller \in {"epoll", "io_uring"}
  /\ sess = [s \in Sessions |-> NewSession]
  /\ owner = [d \in 1 .. Descriptors |-> Closed]
  /\ touched = FALSE
  /\ inbox = [s \in Sessions |-> 0] /\ hung_up = {} /\ arrived = [s \in Sessions |-> 0]
  /\ reading = {} /\ event = {}
  /\ join_q = {} /\ stop_q = {} /\ send_q = <<>> /\ send_list = <<>> /\ writing = <<>>
  /\ sent = [s \in Sessions |-> [made |-> 0, ok |-> 0, failed |-> 0]]
  /\ wrote = {} /\ down = FALSE

\* advance: the requests, the sends, and what the kernel reports.
Requests == (\E s \in join_q : HandleJoin(s)) \/ (\E s \in stop_q : HandleStop(s)) \/ DrainSessions
Writes ==
  \/ DrainSends \/ SubmitWrite
  \/ (\E i \in DOMAIN send_list : WriteNow(i)) \/ (\E i \in DOMAIN writing : WriteCompletes(i))
Reads == \E s \in event : EpollEvent(s) \/ ReadCompletes(s)

Pipeline(s) == Create(s) \/ Recv(s) \/ Send(s) \/ Stop(s) \/ End(s)
Peer(s) == FrameArrives(s) \/ HangUp(s)

TcpNext ==
  /\ UNCHANGED poller
  /\ \/ Requests \/ Writes \/ Reads \/ SessionShutdown
     \/ \E s \in Sessions : Pipeline(s) \/ Peer(s)

TcpSpec == TcpInit /\ [][TcpNext]_tcpVars

-----------------------------------------------------------------------------
(* Properties. *)

(* No handler uses a session after it was deleted, although joins, stops,  *)
(* events and outstanding reads hold bare pointers to it.                  *)
NoSessionUseAfterFree == ~touched

(* A frame is written to the connection of the session it was sent on.     *)
OwnConnection == \A w \in wrote : w.from = w.to

AtRest == ~ENABLED (Requests \/ Writes \/ Reads)

(* When the scheduler has nothing left to do, every join, stop and send    *)
(* has been answered, except the sends the ring had at the shutdown.       *)
RequestsAnswered == AtRest => \A s \in Sessions :
  /\ sess[s].app \notin {"joining", "stopping"}
  /\ sent[s].made = sent[s].ok + sent[s].failed \/ (down /\ writing # <<>>)

(* A session whose pipeline has ended is deleted, or is still to be: its   *)
(* read chain waits for the peer (with io_uring even after a stop), and    *)
(* once the peer has hung up the event that ends it is under way.  After a *)
(* shutdown no read chain ends any more.                                   *)
SessionsReclaimed == ~down => \A s \in Sessions : sess[s].app = "ended" =>
  sess[s].freed \/ (s \in reading /\ (s \in hung_up => s \in event))

-----------------------------------------------------------------------------
(* The inductive invariant behind the first and the last of these. *)

Apps == {"none", "joining", "open", "recv", "stopping", "ended", "refused"}
Statuses == {"normal", "errors", "closed"}
SessionObject ==
  [fd : 0 .. Descriptors, status : Statuses, pipeline_active : BOOLEAN,
   read_active : BOOLEAN, freed : BOOLEAN, app : Apps, ready : Nat]
World == [sess : [Sessions -> SessionObject],
          owner : [1 .. Descriptors -> Sessions \cup {Closed}], touched : BOOLEAN]

(* Every variable that a session's life depends on has its type.           *)
TcpTypeOK ==
  /\ poller \in {"epoll", "io_uring"} /\ down \in BOOLEAN
  /\ Objects \in World
  /\ inbox \in [Sessions -> Nat] /\ arrived \in [Sessions -> Nat]
  /\ hung_up \subseteq Sessions /\ event \subseteq reading /\ reading \subseteq Sessions
  /\ join_q \subseteq Sessions /\ stop_q \subseteq Sessions

\* A session is deleted exactly when both its users have ended, and a normal
\* one still has its read chain.
Alive(o) ==
  /\ o.freed <=> ~o.pipeline_active /\ ~o.read_active
  /\ o.pipeline_active <=> o.app \in {"none", "joining", "open", "recv", "stopping"}
  /\ o.status = "normal" => o.read_active
  /\ o.freed => o.fd = Closed

AliveInv == ~touched /\ \A s \in Sessions : Alive(sess[s])

\* Whoever holds a pointer to a session is a user of it that has not ended.
HolderInv ==
  /\ \A s \in join_q : sess[s].app = "joining" /\ sess[s].fd # Closed
  /\ \A s \in stop_q : sess[s].app = "stopping"
  /\ \A s \in reading : /\ sess[s].read_active /\ sess[s].app \notin {"none", "joining"}
                        /\ (poller = "epoll" => sess[s].fd # Closed)

\* A read chain that has begun has not ended unseen.
ChainInv ==
  ~down => \A s \in Sessions :
    /\ sess[s].read_active /\ sess[s].app \in {"open", "recv", "stopping", "ended"} => s \in reading
    /\ s \in reading /\ s \in hung_up => s \in event
    /\ poller = "epoll" /\ sess[s].status # "normal" => ~sess[s].read_active

(* A session lives as long as one of its users.                            *)
SessInv == TcpTypeOK /\ AliveInv /\ HolderInv /\ ChainInv

=============================================================================
