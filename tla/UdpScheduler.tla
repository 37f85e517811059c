---------------------------- MODULE UdpScheduler ----------------------------
(***************************************************************************)
(* The UDP schedulers (src/env/scheduler/net/udp/{epoll,io_uring,dpdk}/    *)
(* scheduler.hh) over their datagram transports (net/dgram).  Pipelines on *)
(* other cores ask to receive or to send; the scheduler's own thread       *)
(* drains the requests, reads the socket and answers.  The epoll transport *)
(* is edge triggered: it reads until the socket is empty and keeps a send  *)
(* that met a full socket for the next writable edge; io_uring and DPDK    *)
(* answer a send when it completes or when its burst has gone.             *)
(***************************************************************************)
EXTENDS Integers, Sequences, FiniteSets, SequencesExt, Functions

CONSTANTS Receivers, Senders,  \* the requests that pipelines make
          QueueRoom,           \* places of recv_q and of send_q
          PendingRoom,         \* places of pending_recv and of ready_q
          Arrivals,            \* bound: datagrams that arrive
          BurstRoom            \* sends that a ring or a burst buffer holds

ASSUME UdpAssumption ==
    /\ Receivers \cap Senders = {}
    /\ QueueRoom \in Nat /\ PendingRoom \in Nat

VARIABLES transport,           \* "epoll", "io_uring" or "dpdk"
          recv_q, pending_recv, ready_q, dgram_send_q, pending_sends,
          rx,                  \* the socket's datagrams: "some" or "empty"
          edge,                \* epoll has an event to report
          seen,                \* its EPOLLOUT half is still to be handled
          writable,            \* the socket takes a datagram
          burst,               \* sends in the ring, or in _tx_bufs
          came,                \* the sizes of the datagrams that have arrived
          replies,             \* request -> what its callback was given
          made_of, dropped,    \* requests made; those a full queue loses
          _shutdown

udpvars == <<transport, recv_q, pending_recv, ready_q, dgram_send_q,
             pending_sends, rx, edge, seen, writable, burst, came,
             replies, made_of, dropped, _shutdown>>

UdpInit ==
    /\ transport \in {"epoll", "io_uring", "dpdk"}
    /\ recv_q = <<>> /\ pending_recv = <<>> /\ ready_q = <<>>
    /\ dgram_send_q = <<>> /\ pending_sends = <<>>
    /\ rx = <<>> /\ edge = FALSE /\ seen = FALSE /\ writable = TRUE /\ burst = <<>>
    /\ came = <<>>
    /\ replies = [r \in Receivers \cup Senders |-> <<>>]
    /\ made_of = {} /\ dropped = {}
    /\ _shutdown = FALSE

Reply(r, x) == replies' = [replies EXCEPT ![r] = Append(@, x)]
ReplyAll(rs, x) == [r \in DOMAIN replies |->
                       replies[r] \o [i \in 1..Cardinality({j \in DOMAIN rs :
                                                  rs[j] = r}) |-> x]]
Failed == 0       \* an exception, or false; datagrams are numbered from 1
Done == 1

-----------------------------------------------------------------------------
(* schedule() of a receive or of a send: a full queue is told at once.     *)
AskRecv(r) ==
    /\ r \notin made_of
    /\ made_of' = made_of \cup {r}
    /\ \/ /\ Len(recv_q) < QueueRoom
          /\ recv_q' = Append(recv_q, r)
          /\ UNCHANGED replies
       \/ /\ Len(recv_q) = QueueRoom
          /\ Reply(r, Failed)
          /\ UNCHANGED recv_q
    /\ UNCHANGED <<transport, pending_recv, ready_q, dgram_send_q,
                   pending_sends, rx, edge, seen, writable, burst, came,
                   dropped, _shutdown>>

AskSend(r) ==
    /\ r \notin made_of
    /\ made_of' = made_of \cup {r}
    /\ \/ /\ Len(dgram_send_q) < QueueRoom
          /\ dgram_send_q' = Append(dgram_send_q, r)
          /\ UNCHANGED replies
       \/ /\ Len(dgram_send_q) = QueueRoom
          /\ Reply(r, Failed)
          /\ UNCHANGED dgram_send_q
    /\ UNCHANGED <<transport, recv_q, pending_recv, ready_q, pending_sends,
                   rx, edge, seen, writable, burst, came, dropped, _shutdown>>

(* The network and the socket.                                             *)
DatagramArrives ==
    /\ Len(came) < Arrivals
    /\ \E size \in {"some", "empty"} :
          /\ came' = Append(came, size)
          /\ rx' = Append(rx, [size |-> size, id |-> Len(came) + 1])
    /\ edge' = TRUE
    /\ UNCHANGED <<transport, recv_q, pending_recv, ready_q, dgram_send_q,
                   pending_sends, seen, writable, burst, replies, made_of,
                   dropped, _shutdown>>

SocketDrains ==
    /\ ~writable
    /\ writable' = TRUE /\ edge' = TRUE
    /\ UNCHANGED <<transport, recv_q, pending_recv, ready_q, dgram_send_q,
                   pending_sends, rx, seen, burst, came, replies, made_of,
                   dropped, _shutdown>>

-----------------------------------------------------------------------------
(* drain_recv_q(), one request: a datagram that waits, or wait for one.    *)
(* What pending_recv cannot hold is lost: nobody looks at try_enqueue.     *)
DrainRecv ==
    /\ recv_q # <<>>
    /\ recv_q' = Tail(recv_q)
    /\ LET r == Head(recv_q) IN
       \/ /\ ready_q # <<>>
          /\ Reply(r, Head(ready_q))
          /\ ready_q' = Tail(ready_q)
          /\ UNCHANGED <<pending_recv, dropped>>
       \/ /\ ready_q = <<>> /\ Len(pending_recv) < PendingRoom
          /\ pending_recv' = Append(pending_recv, r)
          /\ UNCHANGED <<replies, ready_q, dropped>>
       \/ /\ ready_q = <<>> /\ Len(pending_recv) = PendingRoom
          /\ dropped' = dropped \cup {r}
          /\ UNCHANGED <<replies, ready_q, pending_recv>>
    /\ UNCHANGED <<transport, dgram_send_q, pending_sends, rx, edge, seen, writable,
                   burst, came, made_of, _shutdown>>

(* try_send(): the socket takes it, perhaps as the last one for now, or    *)
(* refuses it for good (an error that is not EAGAIN).                      *)
Sent(r) == /\ writable
           /\ writable' \in BOOLEAN
           /\ \E x \in {Done, Failed} : Reply(r, x)

(* MUTANT drain_send_q() that takes a full socket for a sent datagram.     *)
DrainSendForgets ==
    /\ transport = "epoll" /\ dgram_send_q # <<>>
    /\ dgram_send_q' = Tail(dgram_send_q)
    /\ \/ Sent(Head(dgram_send_q)) /\ UNCHANGED pending_sends
       \/ ~writable /\ UNCHANGED <<replies, pending_sends, writable>>
    /\ UNCHANGED <<transport, recv_q, pending_recv, ready_q, rx, edge, seen, burst,
                   came, made_of, dropped, _shutdown>>

(* drain_send_q() of the epoll scheduler.                                  *)
DrainSendEpoll ==
    /\ transport = "epoll" /\ dgram_send_q # <<>>
    /\ dgram_send_q' = Tail(dgram_send_q)
    /\ LET r == Head(dgram_send_q) IN
       \/ /\ Sent(r)
          /\ UNCHANGED pending_sends
       \/ /\ ~writable
          /\ pending_sends' = Append(pending_sends, r)
          /\ UNCHANGED <<replies, writable>>
    /\ UNCHANGED <<transport, recv_q, pending_recv, ready_q, rx, edge, seen, burst,
                   came, made_of, dropped, _shutdown>>

(* drain_send_q() of the other two: a full ring or burst fails the send.   *)
EnqueueSendmsg ==
    /\ transport # "epoll" /\ dgram_send_q # <<>>
    /\ dgram_send_q' = Tail(dgram_send_q)
    /\ \/ /\ Len(burst) < BurstRoom
          /\ burst' = Append(burst, Head(dgram_send_q))
          /\ UNCHANGED replies
       \/ /\ Len(burst) = BurstRoom
          /\ Reply(Head(dgram_send_q), Failed)
          /\ UNCHANGED burst
    /\ UNCHANGED <<transport, recv_q, pending_recv, ready_q, pending_sends,
                   rx, edge, seen, writable, came, made_of, dropped, _shutdown>>

(* on_send_complete(): a completion of the ring, in any order, or the      *)
(* burst, of which a first part was sent.                                  *)
SendCompletes ==
    /\ burst # <<>>
    /\ \/ /\ transport = "io_uring"
          /\ \E i \in DOMAIN burst, res \in {Done, Failed} :
                Reply(burst[i], res) /\ burst' = RemoveAt(burst, i)
       \/ /\ transport = "dpdk"
          /\ \E sent \in 0..Len(burst) :
                replies' = [r \in DOMAIN replies |->
                    IF r \notin {burst[i] : i \in DOMAIN burst} THEN replies[r]
                    ELSE Append(replies[r],
                                IF \E i \in 1..sent : burst[i] = r
                                THEN Done ELSE Failed)]
          /\ burst' = <<>>
    /\ UNCHANGED <<transport, recv_q, pending_recv, ready_q, dgram_send_q,
                   pending_sends, rx, edge, seen, writable, came, made_of,
                   dropped, _shutdown>>

-----------------------------------------------------------------------------
(* MUTANT on_recv() that stores the datagram whoever waits.                *)
OnRecvStores(ids) ==
    /\ ready_q' = ready_q \o ids
    /\ UNCHANGED <<pending_recv, replies>>

(* on_recv(), the datagrams of one read in order: each to the receiver     *)
(* that waits longest, else to ready_q, which drops what it cannot hold.   *)
Matched(ids) == IF Len(ids) < Len(pending_recv) THEN Len(ids)
               ELSE Len(pending_recv)

OnDatagrams(ids) ==
    LET n == Matched(ids)
        room == PendingRoom - Len(ready_q)
        rest == SubSeq(ids, n + 1, Len(ids)) IN
    /\ pending_recv' = SubSeq(pending_recv, n + 1, Len(pending_recv))
    /\ replies' = [r \in DOMAIN replies |->
           IF \E i \in 1..n : pending_recv[i] = r
           THEN Append(replies[r],
                       ids[CHOOSE i \in 1..n : pending_recv[i] = r])
           ELSE replies[r]]
    /\ ready_q' = ready_q \o SubSeq(rest, 1, IF Len(rest) < room THEN Len(rest)
                                             ELSE room)

(* MUTANT transport::advance() that reads one datagram an event.           *)
ReadableOne(n) == n = IF rx = <<>> THEN 0 ELSE 1

(* recvfrom() until EAGAIN; an empty datagram returns 0, which ends the    *)
(* loop as an error would.                                                 *)
Readable(n) ==
    /\ n < Len(rx) => (n > 0 /\ rx[n].size = "empty")
    /\ \A i \in 1..n-1 : rx[i].size # "empty"

(* The first n datagrams, in order.  An empty one is handed on by DPDK     *)
(* only: it is as long as its packet, and the handlers of the other two    *)
(* ask for more than 0 bytes.                                              *)
HandedOn(n) == {i \in 1..n : rx[i].size = "some" \/ transport = "dpdk"}
Batches(n) == {ids \in [1..Cardinality(HandedOn(n)) -> {rx[i].id : i \in HandedOn(n)}] :
                \A i, j \in DOMAIN ids : i < j => ids[i] < ids[j]}

(* transport::advance() of epoll: the reads of an event, then its          *)
(* flush_pending_sends(), until the socket is full again.                  *)
EpollRead ==
    /\ transport = "epoll" /\ edge /\ ~seen
    /\ \E n \in 0..Len(rx) :
          /\ Readable(n)
          /\ \E ids \in Batches(n) : OnDatagrams(ids)
          /\ rx' = SubSeq(rx, n + 1, Len(rx))
    /\ edge' = FALSE /\ seen' = TRUE
    /\ UNCHANGED <<transport, recv_q, dgram_send_q, pending_sends, writable,
                   burst, came, made_of, dropped, _shutdown>>

FlushPendingSends ==
    /\ seen
    /\ seen' = FALSE
    /\ \E n \in 0..Len(pending_sends) :
       /\ n = 0 \/ writable
       /\ pending_sends' = SubSeq(pending_sends, n + 1, Len(pending_sends))
       /\ \E x \in {Done, Failed} :
             replies' = ReplyAll(SubSeq(pending_sends, 1, n), x)
       /\ writable' \in IF n < Len(pending_sends) THEN {FALSE}
                        ELSE IF n = 0 THEN {writable} ELSE BOOLEAN
       /\ (n = 0 /\ pending_sends # <<>>) => ~writable
    /\ UNCHANGED <<transport, recv_q, pending_recv, ready_q, dgram_send_q, rx,
                   edge, burst, came, made_of, dropped, _shutdown>>

(* transport::advance() of io_uring and DPDK: what has come in.            *)
Receive ==
    /\ transport # "epoll" /\ rx # <<>>
    /\ \E n \in 1..Len(rx) :
          /\ \E ids \in Batches(n) : OnDatagrams(ids)
          /\ rx' = SubSeq(rx, n + 1, Len(rx))
    /\ UNCHANGED <<transport, recv_q, dgram_send_q, pending_sends, edge, seen,
                   writable, burst, came, made_of, dropped, _shutdown>>
-----------------------------------------------------------------------------
(* shutdown() may come from any thread; every later advance() drains.      *)
UdpShutdown ==
    /\ ~_shutdown
    /\ _shutdown' = TRUE
    /\ UNCHANGED <<transport, recv_q, pending_recv, ready_q, dgram_send_q,
                   pending_sends, rx, edge, seen, writable, burst, came,
                   replies, made_of, dropped>>

(* MUTANT drain_on_shutdown() that forgets the sends kept for later.       *)
DrainUdpQueues ==
    /\ _shutdown
    /\ pending_recv' = <<>> /\ recv_q' = <<>> /\ dgram_send_q' = <<>>
    /\ replies' = ReplyAll(pending_recv \o recv_q \o dgram_send_q, Failed)
    /\ UNCHANGED <<transport, ready_q, pending_sends, rx, edge, seen, writable,
                   burst, came, made_of, dropped, _shutdown>>

(* drain_on_shutdown().  What is in the ring or in the burst is left.      *)
DrainUdp ==
    /\ _shutdown
    /\ pending_recv' = <<>> /\ recv_q' = <<>> /\ ready_q' = <<>>
    /\ dgram_send_q' = <<>> /\ pending_sends' = <<>>
    /\ replies' = ReplyAll(pending_recv \o recv_q \o dgram_send_q \o
                               pending_sends, Failed)
    /\ UNCHANGED <<transport, rx, edge, seen, writable, burst, came,
                   made_of, dropped, _shutdown>>

(* advance().                                                              *)
UdpAdvance ==
    \/ /\ ~_shutdown
       /\ \/ DrainRecv \/ DrainSendEpoll \/ EnqueueSendmsg \/ SendCompletes
          \/ EpollRead \/ FlushPendingSends \/ Receive
    \/ DrainUdp

UdpCaller == (\E r \in Receivers : AskRecv(r)) \/ (\E r \in Senders : AskSend(r))

UdpNext == UdpCaller \/ DatagramArrives \/ SocketDrains \/ UdpShutdown \/ UdpAdvance
UdpSpec == UdpInit /\ [][UdpNext]_udpvars

-----------------------------------------------------------------------------
(* A datagram never waits in ready_q while a receiver waits in             *)
(* pending_recv, and no two receivers get the same one (drain_recv_q and   *)
(* on_recv each look at what the other has left).                          *)
DatagramsMeetReceivers ==
    /\ pending_recv = <<>> \/ ready_q = <<>>
    /\ \A r, s \in Receivers :
          (r # s /\ replies[r] # <<>> /\ replies[r] = replies[s]) =>
             replies[r][1] = Failed

(* No request is told twice.                                               *)
ToldOnce == \A r \in DOMAIN replies : Len(replies[r]) <= 1

(* Nothing is left to do: the requests are drained, and there is no event, *)
(* datagram or completion to handle; or, once shut down, all is drained.   *)
UdpQuiet ==
    /\ writable /\ recv_q = <<>> /\ dgram_send_q = <<>>
    /\ _shutdown => pending_recv = <<>> /\ pending_sends = <<>>
    /\ ~_shutdown => /\ burst = <<>>
                     /\ IF transport = "epoll" THEN ~edge /\ ~seen ELSE rx = <<>>

(* Then every request has had its one answer, but for the receives that    *)
(* found pending_recv full and the sends that a shutdown caught in the     *)
(* ring or in the burst buffer; a receive may wait for a datagram, unless  *)
(* the scheduler is shut down.                                             *)
RequestsTold ==
    /\ ToldOnce
    /\ UdpQuiet => \A r \in made_of : \/ Len(replies[r]) = 1
                                      \/ r \in dropped
                                      \/ _shutdown /\ r \in Range(burst)
                                      \/ ~_shutdown /\ r \in Range(pending_recv)

UdpAtRest == ~ENABLED <<UdpAdvance \/ SocketDrains>>_udpvars
UdpAnswered == RequestsTold /\ (UdpAtRest => UdpQuiet)

(* Nothing is left unread in the socket of a scheduler that is quiet, as   *)
(* long as no empty datagram comes: the edge is reported once, and the     *)
(* read loop of the epoll transport takes an empty datagram for the end.   *)
NothingUnread ==
    (UdpQuiet /\ ~_shutdown /\ rx # <<>>) =>
       \E i \in DOMAIN came : came[i] = "empty" /\ i < rx[1].id
=============================================================================
