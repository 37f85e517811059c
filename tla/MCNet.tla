-------------------------------- MODULE MCNet --------------------------------
(* The schedulers of the network layer in one run.  They share a thread's  *)
(* run loop and no state, so a behaviour of all of them is, for each, a    *)
(* behaviour of its own: `part' says which one this behaviour explores.    *)
EXTENDS TcpConnections, TcpSessions, TcpFraming, KcpHandshake, UdpScheduler, KcpArq

VARIABLES part,
  \* RpcCalls
  call, got, slots, r_send_q, r_recv_q, r_ready_q, r_closed, requests,
  responses, broken, serving, handling, serv_ready_q, serv_send_q,
  serv_closed, lost

\* Three calls, of two services, at once; a server that handles two at a
\* time, whose responses overtake each other, and one whose queue fills up.
Services == [c \in 0 .. 2 |-> IF c = 2 THEN "sub" ELSE "add"]
Rpc == INSTANCE RpcCalls WITH
  Calls <- 3, ServiceOf <- Services, MapCapacity <- 4, QueueRoom <- 1,
  Concurrency <- 2, InFlight <- 3, MayBreak <- TRUE,
  send_q <- r_send_q, recv_q <- r_recv_q, ready_q <- r_ready_q,
  closed <- r_closed
Slow == INSTANCE RpcCalls WITH
  Calls <- 3, ServiceOf <- Services, MapCapacity <- 4, QueueRoom <- 1,
  Concurrency <- 1, InFlight <- 3, MayBreak <- TRUE,
  send_q <- r_send_q, recv_q <- r_recv_q, ready_q <- r_ready_q,
  closed <- r_closed

\* Frames that wrap the ring, are empty, fill it or are too large for it.
ThreeStreams == {<<2, 0, 7, 1>>, <<1, 2, 6>>, <<13>>}

\* Two dials to one server, over a wire of two datagrams.
KcpDial == [r1 |-> [from |-> "client", to |-> "server"],
            r2 |-> [from |-> "client", to |-> "server"]]
KcpAccept == [q1 |-> "server", q2 |-> "server"]

\* A message of the window's size, one too large, and one more.
ThreeMessages == [a |-> <<2, 3, 1>>, b |-> <<>>]

rpcs == <<call, got, slots, r_send_q, r_recv_q, r_ready_q, r_closed, requests,
          responses, broken, serving, handling, serv_ready_q, serv_send_q,
          serv_closed, lost>>

\* The variables of the other parts keep one initial value.
NetInit ==
  /\ part \in {"rpc", "slow rpc", "connections", "sessions", "framing", "kcp", "arq", "udp"}
  /\ IF part = "slow rpc" THEN Slow!RpcInit ELSE Rpc!RpcInit
  /\ ConnInit /\ TcpInit /\ FramingInit
  /\ KcpInit /\ ArqInit /\ UdpInit
  /\ part # "connections" => backend = "epoll"
  /\ part # "sessions" => poller = "epoll"
  /\ part # "framing" => unpacker = "stream" /\ lens = <<13>>
  /\ part # "udp" => transport = "epoll"

RpcPart     == part = "rpc" /\ Rpc!RpcNext
                 /\ UNCHANGED <<part, connVars, tcpVars, framingVars, kcpvars, arqvars, udpvars>>
SlowRpcPart == part = "slow rpc" /\ Slow!RpcNext
                 /\ UNCHANGED <<part, connVars, tcpVars, framingVars, kcpvars, arqvars, udpvars>>
ConnPart    == part = "connections" /\ ConnNext
                 /\ UNCHANGED <<part, rpcs, tcpVars, framingVars, kcpvars, arqvars, udpvars>>
TcpPart     == part = "sessions" /\ TcpNext
                 /\ UNCHANGED <<part, rpcs, connVars, framingVars, kcpvars, arqvars, udpvars>>
FramingPart == part = "framing" /\ FramingNext
                 /\ UNCHANGED <<part, rpcs, connVars, tcpVars, kcpvars, arqvars, udpvars>>
KcpPart     == part = "kcp" /\ KcpNext
                 /\ UNCHANGED <<part, rpcs, connVars, tcpVars, framingVars, arqvars, udpvars>>
ArqPart     == part = "arq" /\ ArqNext
                 /\ UNCHANGED <<part, rpcs, connVars, tcpVars, framingVars, kcpvars, udpvars>>
UdpPart     == part = "udp" /\ UdpNext
                 /\ UNCHANGED <<part, rpcs, connVars, tcpVars, framingVars, kcpvars, arqvars>>

NetNext == RpcPart \/ SlowRpcPart \/ ConnPart \/ TcpPart \/ FramingPart
             \/ KcpPart \/ ArqPart \/ UdpPart

NetSpec == NetInit /\ [][NetNext]_<<part, rpcs, connVars, tcpVars, framingVars, kcpvars, arqvars, udpvars>>
-----------------------------------------------------------------------------
\* Nobody waits for what has come, nor for what can no longer come; and a
\* call gets its own answer.
EveryoneAnswered ==
  CASE part = "rpc"         -> Rpc!CallsEnd /\ Rpc!OwnAnswer
    [] part = "slow rpc"    -> Slow!CallsEnd /\ Slow!OwnAnswer
    [] part = "connections" -> CallersAnswered
    [] part = "sessions"    -> RequestsAnswered
    [] part = "framing"     -> NoneHeldBack
    [] part = "kcp"         -> KcpAnswered
    [] part = "arq"         -> SilentIsDone
    [] part = "udp"         -> UdpAnswered /\ NothingUnread
=============================================================================
