---------------------------- MODULE KcpHandshake ----------------------------
(***************************************************************************)
(* How two KCP schedulers agree on a connection                            *)
(* (src/env/scheduler/net/kcp/{epoll,io_uring,dpdk}/scheduler.hh: the      *)
(* three copies differ in their transport only).  A connect request takes  *)
(* the next conversation number of its scheduler, sends SYN and repeats    *)
(* it on a timer; the peer creates the connection, answers ACK and hands   *)
(* the conversation to a waiting accept request or keeps it for the next.  *)
(* Datagrams are lost, repeated and overtaken; a request that meets a full *)
(* per-core queue is dropped without an answer, as schedule() drops it.    *)
(***************************************************************************)
EXTENDS Integers, Sequences, FiniteSets, SequencesExt, Functions

CONSTANTS Dial,         \* connect request -> [from, to]
          Accept,       \* accept request -> the scheduler it asks
          RequestRoom,  \* places of a connect_q or an accept_q
          Retries,      \* SYNs a connect request sends (10 in the code)
          WireRoom      \* bound: datagrams in flight

ASSUME KcpAssumption == DOMAIN Dial \cap DOMAIN Accept = {}

VARIABLES connect_q, accept_q,   \* scheduler -> sequence of requests
          pending_accepts, ready_accepts,
          dials,                 \* _pending_connects
          next_conv,             \* scheduler -> the next conversation number
          connections,           \* scheduler -> (conv -> peer and session)
          packets,               \* handshake packets in flight
          asked_of, refused,     \* requests made; those a full queue dropped
          given                  \* request -> what its callback was given

kcpvars == <<connect_q, accept_q, pending_accepts, ready_accepts,
             dials, next_conv, connections, packets, asked_of,
             refused, given>>

Dials == DOMAIN Dial
Accepts == DOMAIN Accept
Hosts == {Dial[r].from : r \in Dials} \cup {Dial[r].to : r \in Dials}
         \cup {Accept[r] : r \in Accepts}

SYN == "SYN"
ACK == "ACK"
Timeout == 0        \* stands for the exception; conversations start at 1

Has(f, x) == x \in DOMAIN f
Entered(f, x, v) == [y \in DOMAIN f \cup {x} |-> IF y = x THEN v ELSE f[y]]

KcpInit ==
    /\ connect_q = [h \in Hosts |-> <<>>] /\ accept_q = [h \in Hosts |-> <<>>]
    /\ pending_accepts = [h \in Hosts |-> <<>>]
    /\ ready_accepts = [h \in Hosts |-> <<>>]
    /\ dials = [h \in Hosts |-> <<>>]
    /\ next_conv = [h \in Hosts |-> 1]
    /\ connections = [h \in Hosts |-> <<>>]
    /\ packets = {}
    /\ asked_of = {} /\ refused = {}
    /\ given = [r \in Dials \cup Accepts |-> <<>>]

(* send_handshake(): one datagram; the wire may lose it, so a full wire    *)
(* is one that loses it.                                                   *)
WithSent(sent, p) == IF Cardinality(sent \cup {p}) > WireRoom THEN sent
                     ELSE sent \cup {p}
SendHandshake(type, conv, from, to) ==
    packets' = WithSent(packets, [type |-> type, conv |-> conv,
                                  from |-> from, to |-> to])

(* create_connection(): a new control block and a new session, whatever    *)
(* the number stood for before.                                            *)
CreateConnection(h, conv, peer) ==
    connections' = [connections EXCEPT ![h] =
        Entered(@, conv, [peer |-> peer,
                      session |-> IF Has(@, conv) THEN @[conv].session + 1
                                  ELSE 1])]

Give(r, x) == given' = [given EXCEPT ![r] = Append(@, x)]

-----------------------------------------------------------------------------
(* A pipeline reaches accept() or connect(): schedule() ignores what       *)
(* try_enqueue says.                                                       *)
AskAccept(r) ==
    LET h == Accept[r] IN
    /\ r \notin asked_of
    /\ asked_of' = asked_of \cup {r}
    /\ \/ /\ Len(accept_q[h]) < RequestRoom
          /\ accept_q' = [accept_q EXCEPT ![h] = Append(@, r)]
          /\ UNCHANGED refused
       \/ /\ Len(accept_q[h]) = RequestRoom
          /\ refused' = refused \cup {r}
          /\ UNCHANGED accept_q
    /\ UNCHANGED <<connect_q, pending_accepts, ready_accepts, dials,
                   next_conv, connections, packets, given>>

AskConnect(r) ==
    LET h == Dial[r].from IN
    /\ r \notin asked_of
    /\ asked_of' = asked_of \cup {r}
    /\ \/ /\ Len(connect_q[h]) < RequestRoom
          /\ connect_q' = [connect_q EXCEPT ![h] = Append(@, r)]
          /\ UNCHANGED refused
       \/ /\ Len(connect_q[h]) = RequestRoom
          /\ refused' = refused \cup {r}
          /\ UNCHANGED connect_q
    /\ UNCHANGED <<accept_q, pending_accepts, ready_accepts, dials,
                   next_conv, connections, packets, given>>

-----------------------------------------------------------------------------
(* drain_accept_q(), one request of it.                                    *)
DrainAccept(h) ==
    /\ accept_q[h] # <<>>
    /\ accept_q' = [accept_q EXCEPT ![h] = Tail(@)]
    /\ LET r == Head(accept_q[h]) IN
       \/ /\ ready_accepts[h] # <<>>
          /\ Give(r, Head(ready_accepts[h]))
          /\ ready_accepts' = [ready_accepts EXCEPT ![h] = Tail(@)]
          /\ UNCHANGED pending_accepts
       \/ /\ ready_accepts[h] = <<>>
          /\ pending_accepts' = [pending_accepts EXCEPT ![h] = Append(@, r)]
          /\ UNCHANGED <<given, ready_accepts>>
    /\ UNCHANGED <<connect_q, dials, next_conv, connections,
                   packets, asked_of, refused>>

(* drain_connect_q(), one request of it: the first SYN.                    *)
DrainConnect(h) ==
    /\ connect_q[h] # <<>>
    /\ connect_q' = [connect_q EXCEPT ![h] = Tail(@)]
    /\ LET r == Head(connect_q[h]) IN
       /\ SendHandshake(SYN, next_conv[h], h, Dial[r].to)
       /\ dials' = [dials EXCEPT ![h] =
              Append(@, [req |-> r, conv |-> next_conv[h], retries |-> 1])]
    /\ next_conv' = [next_conv EXCEPT ![h] = @ + 1]
    /\ UNCHANGED <<accept_q, pending_accepts, ready_accepts, connections,
                   asked_of, refused, given>>

(* MUTANT handle_syn() without the look at the connections it already has. *)
HandleSynAgain(h, p) ==
    /\ CreateConnection(h, p.conv, p.from)
    /\ SendHandshake(ACK, p.conv, h, p.from)
    /\ ready_accepts' = [ready_accepts EXCEPT ![h] = Append(@, p.conv)]
    /\ UNCHANGED <<pending_accepts, given>>

(* handle_syn(): a known conversation is acknowledged again, to whoever    *)
(* asks; a new one is created and given to an acceptor or kept.            *)
HandleSyn(h, p) ==
    /\ SendHandshake(ACK, p.conv, h, p.from)
    /\ \/ /\ Has(connections[h], p.conv)
          /\ UNCHANGED <<connections, pending_accepts, ready_accepts, given>>
       \/ /\ ~Has(connections[h], p.conv)
          /\ CreateConnection(h, p.conv, p.from)
          /\ \/ /\ pending_accepts[h] # <<>>
                /\ Give(Head(pending_accepts[h]), p.conv)
                /\ pending_accepts' = [pending_accepts EXCEPT ![h] = Tail(@)]
                /\ UNCHANGED ready_accepts
             \/ /\ pending_accepts[h] = <<>>
                /\ ready_accepts' = [ready_accepts EXCEPT ![h] =
                                         Append(@, p.conv)]
                /\ UNCHANGED <<pending_accepts, given>>

(* MUTANT handle_ack() that leaves the request pending.                    *)
HandleAckKeeps(h, p) ==
    /\ \E i \in DOMAIN dials[h] :
          /\ dials[h][i].conv = p.conv
          /\ CreateConnection(h, p.conv, p.from)
          /\ Give(dials[h][i].req, p.conv)
    /\ UNCHANGED dials

(* handle_ack(): the pending request with that number, if it is still      *)
(* pending, whoever the sender of the ACK is.                              *)
HandleAck(h, p) ==
    LET mine == {i \in DOMAIN dials[h] :
                    dials[h][i].conv = p.conv} IN
    \/ /\ mine = {}
       /\ UNCHANGED <<connections, dials, given>>
    \/ \E i \in mine :
       /\ \A j \in mine : i <= j
       /\ CreateConnection(h, p.conv, p.from)
       /\ Give(dials[h][i].req, p.conv)
       /\ dials' = [dials EXCEPT ![h] = RemoveAt(@, i)]

(* on_raw_packet(): a datagram arrives; it may arrive again.               *)
OnRawPacket(h) ==
    \E p \in packets :
       /\ p.to = h
       /\ \/ /\ p.type = SYN
             /\ HandleSyn(h, p)
             /\ UNCHANGED dials
          \/ /\ p.type = ACK
             /\ HandleAck(h, p)
             /\ UNCHANGED <<pending_accepts, ready_accepts, packets>>
       /\ UNCHANGED <<connect_q, accept_q, next_conv, asked_of, refused>>

(* MUTANT retry_connects() that gives up in silence.                       *)
GiveUpSilently(h, i) ==
    /\ dials[h][i].retries >= Retries
    /\ dials' = [dials EXCEPT ![h] = RemoveAt(@, i)]
    /\ UNCHANGED <<given, packets>>

(* retry_connects(): the timer of a request has passed.                    *)
GiveUp(h, i) ==
    /\ dials[h][i].retries >= Retries
    /\ Give(dials[h][i].req, Timeout)
    /\ dials' = [dials EXCEPT ![h] = RemoveAt(@, i)]
    /\ UNCHANGED packets

RetryConnects(h) ==
    \E i \in DOMAIN dials[h] :
       LET c == dials[h][i] IN
       /\ \/ GiveUp(h, i)
          \/ /\ c.retries < Retries
             /\ SendHandshake(SYN, c.conv, h, Dial[c.req].to)
             /\ dials' = [dials EXCEPT
                                        ![h][i].retries = @ + 1]
             /\ UNCHANGED given
       /\ UNCHANGED <<connect_q, accept_q, pending_accepts, ready_accepts,
                      next_conv, connections, asked_of, refused>>

(* The wire: a datagram is lost, or was its last copy.                     *)
Lose ==
    /\ \E p \in packets : packets' = packets \ {p}
    /\ UNCHANGED <<connect_q, accept_q, pending_accepts, ready_accepts,
                   dials, next_conv, connections, asked_of, refused,
                   given>>

-----------------------------------------------------------------------------
(* advance(): the drains, the transport, the timers, in any interleaving   *)
(* of the schedulers' passes.                                              *)
KcpAdvance(h) ==
    DrainAccept(h) \/ DrainConnect(h) \/ OnRawPacket(h) \/ RetryConnects(h)

KcpAsk == (\E r \in Accepts : AskAccept(r)) \/ (\E r \in Dials : AskConnect(r))

KcpNext == KcpAsk \/ (\E h \in Hosts : KcpAdvance(h)) \/ Lose
KcpSpec == KcpInit /\ [][KcpNext]_kcpvars

-----------------------------------------------------------------------------
(* A conversation is given to one acceptor at most, and at once neither    *)
(* given twice nor kept twice: the SYN that the client repeats because an  *)
(* ACK was lost must not become a second connection (handle_syn).          *)
Given(h) == {r \in Accepts : Accept[r] = h /\ given[r] # <<>>}
AcceptedOnce ==
    \A h \in Hosts :
       /\ IsInjective(ready_accepts[h])
       /\ \A r \in Given(h) : /\ Len(given[r]) = 1
                              /\ given[r][1] \notin Range(ready_accepts[h])
       /\ \A r, s \in Given(h) : given[r] = given[s] => r = s

(* What connect() reports is true: its callback runs once, and the session *)
(* it gets has, at the peer it dialled, a connection that leads back to it *)
(* (handle_ack after handle_syn, through losses, repeats and late ACKs).   *)
(* With two schedulers dialling the same one this fails: every scheduler   *)
(* numbers its conversations from 1, and handle_syn takes the second for   *)
(* the first.                                                              *)
ConnectedTruly ==
    \A r \in Dials :
       /\ Len(given[r]) <= 1
       /\ (given[r] # <<>> /\ given[r][1] # Timeout) =>
             LET here == connections[Dial[r].from]
                 there == connections[Dial[r].to] IN
             /\ Has(here, given[r][1]) /\ Has(there, given[r][1])
             /\ here[given[r][1]] = [peer |-> Dial[r].to, session |-> 1]
             /\ there[given[r][1]] = [peer |-> Dial[r].from, session |-> 1]

(* No conversation is kept while an acceptor waits (drain_accept_q and     *)
(* handle_syn each look at what the other has left).  And when the queues  *)
(* are drained and no timer runs, every connect that a queue admitted has  *)
(* been answered, and every accept has, or waits for a conversation.       *)
KcpQuiet == \A h \in Hosts : connect_q[h] = <<>> /\ accept_q[h] = <<>> /\ dials[h] = <<>>
RequestsHeard ==
    /\ \A h \in Hosts : pending_accepts[h] = <<>> \/ ready_accepts[h] = <<>>
    /\ KcpQuiet => \A r \in asked_of :
          \/ given[r] # <<>> \/ r \in refused
          \/ r \in Accepts /\ r \in Range(pending_accepts[Accept[r]])

KcpAtRest == ~ENABLED <<\E h \in Hosts : KcpAdvance(h)>>_kcpvars
KcpAnswered == RequestsHeard /\ (KcpAtRest => KcpQuiet)

-----------------------------------------------------------------------------
(* Why the two hold.  A conversation is handed out when it enters the      *)
(* connections, and it never leaves them.                                  *)
Conversations(h) == DOMAIN connections[h]
Waiting == [req : Dials, conv : Nat, retries : Nat]
Packet == [type : {SYN, ACK}, conv : Nat, from : Hosts, to : Hosts]

KcpTypeOK ==
    /\ connect_q \in [Hosts -> Seq(Dials)] /\ accept_q \in [Hosts -> Seq(Accepts)]
    /\ pending_accepts \in [Hosts -> Seq(Accepts)]
    /\ ready_accepts \in [Hosts -> Seq(Nat)]
    /\ dials \in [Hosts -> Seq(Waiting)]
    /\ next_conv \in [Hosts -> Nat \ {0}]
    /\ DOMAIN connections = Hosts
    /\ packets \subseteq Packet
    /\ given \in [Dials \cup Accepts -> Seq(Nat)]

\* A request waits in one place, and there once, until it is answered.
Unanswered(r) == r \in asked_of /\ given[r] = <<>>
AcceptAt(h) ==
    /\ IsInjective(accept_q[h]) /\ IsInjective(pending_accepts[h])
    /\ \A r \in Range(accept_q[h]) :
          Accept[r] = h /\ Unanswered(r) /\ r \notin Range(pending_accepts[h])
    /\ \A r \in Range(pending_accepts[h]) : Accept[r] = h /\ Unanswered(r)

DialAt(h) ==
    /\ IsInjective(connect_q[h])
    /\ \A r \in Range(connect_q[h]) : Dial[r].from = h /\ Unanswered(r)
    /\ \A i \in DOMAIN dials[h] :
          LET e == dials[h][i] IN
          /\ Dial[e.req].from = h /\ Unanswered(e.req) /\ e.req \notin Range(connect_q[h])
          /\ e.conv \in 1 .. next_conv[h] - 1
          /\ \A j \in DOMAIN dials[h] :
                e.req = dials[h][j].req \/ e.conv = dials[h][j].conv => i = j

\* Every conversation that was handed out, or is kept, is a connection.
HandedAt(h) ==
    /\ IsInjective(ready_accepts[h]) /\ Range(ready_accepts[h]) \subseteq Conversations(h)
    /\ \A r \in Given(h) : given[r][1] \in Conversations(h) \ Range(ready_accepts[h])
    /\ \A r, s \in Given(h) : given[r] = given[s] => r = s

HostInv == \A h \in Hosts : AcceptAt(h) /\ DialAt(h) /\ HandedAt(h)
GivenInv == \A r \in Dials \cup Accepts :
    Len(given[r]) <= 1 /\ (given[r] # <<>> => r \in asked_of)

KcpInv == KcpTypeOK /\ HostInv /\ GivenInv

(* The premise of ConnectedTruly: a scheduler that is dialled is dialled by *)
(* one other, and does not dial.                                           *)
OneDialler ==
    \A q, r \in Dials : /\ Dial[q].to = Dial[r].to => Dial[q].from = Dial[r].from
                        /\ Dial[q].to # Dial[r].from

\* At the peer r dials, the numbers are those of r's scheduler.
PeerInv ==
    \A r \in Dials : \A c \in Conversations(Dial[r].to) :
       /\ c \in 1 .. next_conv[Dial[r].from] - 1
       /\ connections[Dial[r].to][c] = [peer |-> Dial[r].from, session |-> 1]

\* A number stands for one peer: that of the request that waits with it.
Caller(p) == IF p.type = SYN THEN p.from ELSE p.to
Callee(p) == IF p.type = SYN THEN p.to ELSE p.from
PacketTrue(p) ==
    /\ \E r \in Dials : Dial[r].from = Caller(p) /\ Dial[r].to = Callee(p)
    /\ p.conv \in 1 .. next_conv[Caller(p)] - 1
    /\ p.type = ACK => p.conv \in Conversations(Callee(p))
    /\ \A i \in DOMAIN dials[Caller(p)] :
          LET e == dials[Caller(p)][i] IN e.conv = p.conv => Dial[e.req].to = Callee(p)
NumbersTrue(r) ==
    /\ Conversations(Dial[r].from) \subseteq 1 .. next_conv[Dial[r].from] - 1
    /\ \A i \in DOMAIN dials[Dial[r].from] :
          LET e == dials[Dial[r].from][i] IN
          /\ e.conv \notin Conversations(Dial[r].from)
          /\ e.conv \in Conversations(Dial[r].to) => Dial[e.req].to = Dial[r].to
NumberInv == (\A p \in packets : PacketTrue(p)) /\ \A r \in Dials : NumbersTrue(r)

TruthInv == KcpInv /\ PeerInv /\ NumberInv /\ ConnectedTruly
=============================================================================
