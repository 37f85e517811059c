-------------------------------- MODULE TcpProofs --------------------------------
(***************************************************************************)
(* The tcp and udp schedulers, for any callers, sockets, sessions and      *)
(* bounds.                                                                 *)
(*                                                                         *)
(* Accept and connect: the step that could break Meet is EnqueueFd, a      *)
(* handler after MaybeAccept looked: a caller on the scheduler's thread    *)
(* cannot have come in between, because it only looks and queues when no   *)
(* socket is being handed over (accepting).                                *)
(*                                                                         *)
(* Sessions: an object is deleted when the later of its two users ends, so *)
(* the invariant says who holds a pointer to it and which user that is.    *)
(*                                                                         *)
(* The udp schedulers: a datagram that was read goes to one receiver or to *)
(* ready_q, and a request waits in one queue until it is told.             *)
(***************************************************************************)
EXTENDS TcpConnections, TcpSessions, UdpScheduler, FiniteSetTheorems, SequenceTheorems, TLAPS

AskedType == asked \in [Callers -> {"idle", "looked", "waiting", "answered"}]

\* Callers on the scheduler's thread look and queue in one step.
LocalNeverLooked == \A a \in Local : asked[a] # "looked"

\* A socket that is queued, or about to be, has no local caller waiting.
NoLocalWaits ==
  accepting # <<>> \/ conn_fd_q # <<>> => conn_request_q \cap Local = {}

MeetInv == AskedType /\ LocalNeverLooked /\ NoLocalWaits

LEMMA InitMeetInv == ConnInit => MeetInv
BY CallersAssumption DEF ConnInit, MeetInv, AskedType, LocalNeverLooked, NoLocalWaits, Callers

LEMMA NextMeetInv ==
  ASSUME MeetInv, [ConnNext]_connVars
  PROVE  MeetInv'
<1> USE CallersAssumption DEF Callers
<1>0. AskedType /\ LocalNeverLooked /\ NoLocalWaits
  BY DEF MeetInv
<1>1. CASE Arrive \/ Shutdown \/ AcceptCompletes \/ UNCHANGED connVars
  BY <1>0, <1>1 DEF MeetInv, AskedType, LocalNeverLooked, NoLocalWaits, Arrive,
                    Shutdown, AcceptCompletes, connVars, acceptVars
<1>2. CASE \E p \in pending_connects : Complete(p)
  BY <1>0, <1>2 DEF MeetInv, AskedType, LocalNeverLooked, NoLocalWaits, Complete,
                    acceptVars
<1>3. ASSUME NEW fd, MaybeAccept(fd), accepting = <<>>, UNCHANGED conn_fd_q
      PROVE  MeetInv'
  <2>1. CASE conn_request_q # {}
    <3>1. PICK a \in conn_request_q :
            Answer(a, fd) /\ conn_request_q' = conn_request_q \ {a}
      BY <1>3, <2>1 DEF MaybeAccept
    <3>2. accepting' = accepting
      BY <1>3, <2>1 DEF MaybeAccept
    <3>3. AskedType' /\ LocalNeverLooked'
      BY <1>0, <3>1 DEF AskedType, LocalNeverLooked, Answer
    <3> QED BY <1>0, <1>3, <3>1, <3>2, <3>3 DEF MeetInv, NoLocalWaits
  <2>2. CASE conn_request_q = {}
    <3>1. conn_request_q' = {} /\ UNCHANGED asked
      BY <1>3, <2>2 DEF MaybeAccept
    <3> QED BY <1>0, <3>1 DEF MeetInv, AskedType, LocalNeverLooked, NoLocalWaits
  <2> QED BY <2>1, <2>2
<1>4. CASE HandleNewConnections
  BY <1>3, <1>4 DEF HandleNewConnections
<1>5. CASE HandleIoUring
  <2>1. CASE armed = "failed"
    BY <1>0, <1>5, <2>1 DEF HandleIoUring, MeetInv, AskedType, LocalNeverLooked,
                            NoLocalWaits
  <2>2. CASE armed # "failed"
    BY <1>3, <1>5, <2>2 DEF HandleIoUring
  <2> QED BY <2>1, <2>2
<1>6. CASE EnqueueFd
  BY <1>0, <1>6 DEF EnqueueFd, MeetInv, AskedType, LocalNeverLooked, NoLocalWaits
<1>7. CASE DrainOnShutdown
  <2>1. conn_request_q' = {}
    BY <1>7 DEF DrainOnShutdown
  <2>2. AskedType' /\ LocalNeverLooked'
    BY <1>0, <1>7 DEF DrainOnShutdown, AskedType, LocalNeverLooked
  <2> QED BY <2>1, <2>2 DEF MeetInv, NoLocalWaits
<1>8. ASSUME NEW c \in completions, HandleConnectCompletion(c) \/ ConnectCqe(c)
      PROVE  MeetInv'
  <2>1. Connected(c)
    BY <1>8 DEF HandleConnectCompletion, ConnectCqe
  <2>2. UNCHANGED <<accepting, conn_fd_q, conn_request_q>>
    BY <2>1 DEF Connected, acceptVars
  <2>3. PICK fd : Answer(c.asker, fd)
    BY <2>1 DEF Connected
  <2>4. AskedType' /\ LocalNeverLooked'
    BY <1>0, <2>3 DEF AskedType, LocalNeverLooked, Answer
  <2> QED BY <1>0, <2>2, <2>4 DEF MeetInv, NoLocalWaits
<1>9. ASSUME NEW a \in Askers, WaitConnection(a)
      PROVE  MeetInv'
  <2>1. CASE conn_fd_q # <<>>
    <3>1. conn_fd_q' = Tail(conn_fd_q) /\ UNCHANGED <<accepting, conn_request_q>>
      BY <1>9, <2>1 DEF WaitConnection
    <3>2. Answer(a, Head(conn_fd_q))
      BY <1>9, <2>1 DEF WaitConnection
    <3>3. AskedType' /\ LocalNeverLooked'
      BY <1>0, <3>2 DEF AskedType, LocalNeverLooked, Answer
    <3> QED BY <1>0, <2>1, <3>1, <3>3 DEF MeetInv, NoLocalWaits
  <2>2. CASE conn_fd_q = <<>> /\ a \in Local
    <3>1. accepting' = <<>> /\ conn_fd_q' = <<>> /\ Wait(a)
      BY <1>9, <2>2 DEF WaitConnection
    <3>2. AskedType' /\ LocalNeverLooked'
      BY <1>0, <3>1 DEF AskedType, LocalNeverLooked, Wait, Answer
    <3> QED BY <3>1, <3>2 DEF MeetInv, NoLocalWaits
  <2>3. CASE conn_fd_q = <<>> /\ a \notin Local
    <3>1. UNCHANGED <<accepting, conn_fd_q, conn_request_q>>
      BY <1>9, <2>3 DEF WaitConnection
    <3>2. asked' = [asked EXCEPT ![a] = "looked"]
      BY <1>9, <2>3 DEF WaitConnection
    <3>3. AskedType' /\ LocalNeverLooked'
      BY <1>0, <2>3, <3>2 DEF AskedType, LocalNeverLooked
    <3> QED BY <1>0, <3>1, <3>3 DEF MeetInv, NoLocalWaits
  <2> QED BY <2>1, <2>2, <2>3
<1>10. ASSUME NEW a \in Askers, Enqueue(a)
       PROVE  MeetInv'
  <2>1. a \notin Local /\ UNCHANGED <<accepting, conn_fd_q>> /\ Wait(a)
    BY <1>0, <1>10 DEF Enqueue, LocalNeverLooked
  <2>2. AskedType' /\ LocalNeverLooked'
    BY <1>0, <2>1 DEF AskedType, LocalNeverLooked, Wait, Answer
  <2>3. conn_request_q' \cap Local \subseteq conn_request_q \cap Local
    BY <2>1 DEF Wait
  <2> QED BY <1>0, <2>1, <2>2, <2>3 DEF MeetInv, NoLocalWaits
<1>11. ASSUME NEW a \in Dialers, InitiateConnect(a) \/ SubmitConnect(a)
       PROVE  MeetInv'
  <2>1. UNCHANGED <<accepting, conn_fd_q, conn_request_q>>
    BY <1>11 DEF InitiateConnect, SubmitConnect, acceptVars
  <2>2. (\E fd : Answer(a, fd)) \/ asked' = [asked EXCEPT ![a] = "waiting"]
    BY <1>11 DEF InitiateConnect, SubmitConnect, Refuse, Pending
  <2>3. AskedType' /\ LocalNeverLooked'
    BY <1>0, <2>2 DEF AskedType, LocalNeverLooked, Answer
  <2> QED BY <1>0, <2>1, <2>3 DEF MeetInv, NoLocalWaits
<1> QED BY <1>1, <1>2, <1>4, <1>5, <1>6, <1>7, <1>8, <1>9, <1>10, <1>11
        DEF ConnNext, SchedulerStep, CallerStep, KernelStep

(* A caller on the scheduler's own thread never waits while a socket is    *)
(* queued, however many callers, sockets and places there are.             *)
THEOREM LocalCallersMeet == ConnSpec => []Meet
<1>1. MeetInv => Meet
  BY DEF MeetInv, NoLocalWaits, Meet
<1>2. MeetInv /\ [ConnNext]_connVars => MeetInv'
  BY NextMeetInv
<1> QED BY <1>1, <1>2, InitMeetInv, PTL DEF ConnSpec

-----------------------------------------------------------------------------
(* Where the sockets are. *)

\* The head of a sequence without repetitions leaves it.
LEMMA HeadTaken ==
  ASSUME NEW T, NEW s \in Seq(T), s # <<>>, IsInjective(s)
  PROVE  /\ Tail(s) \in Seq(T) /\ Head(s) \in T /\ Head(s) \in Range(s)
         /\ IsInjective(Tail(s)) /\ Range(Tail(s)) = Range(s) \ {Head(s)}
<1>1. Len(s) \in Nat /\ Len(s) >= 1 /\ DOMAIN s = 1 .. Len(s)
  OBVIOUS
<1>2. /\ Tail(s) \in Seq(T) /\ Len(Tail(s)) = Len(s) - 1 /\ DOMAIN Tail(s) = 1 .. Len(s) - 1
      /\ \A i \in 1 .. Len(s) - 1 : Tail(s)[i] = s[i + 1]
  BY <1>1
<1>3. Head(s) = s[1] /\ Head(s) \in T /\ Head(s) \in Range(s)
  BY <1>1 DEF Range
<1>4. IsInjective(Tail(s))
  BY <1>1, <1>2 DEF IsInjective
<1>5. ASSUME NEW x \in Range(Tail(s)) PROVE x \in Range(s) /\ x # Head(s)
  <2>1. PICK i \in 1 .. Len(s) - 1 : x = s[i + 1]
    BY <1>2 DEF Range
  <2>2. i + 1 \in DOMAIN s /\ 1 \in DOMAIN s /\ i + 1 # 1
    BY <1>1
  <2> QED BY <1>3, <2>1, <2>2 DEF Range, IsInjective
<1>6. ASSUME NEW x \in Range(s), x # Head(s) PROVE x \in Range(Tail(s))
  <2>1. PICK j \in 1 .. Len(s) : x = s[j]
    BY <1>1 DEF Range
  <2>2. j - 1 \in 1 .. Len(s) - 1 /\ Tail(s)[j - 1] = x
    BY <1>1, <1>2, <1>3, <1>6, <2>1
  <2> QED BY <1>2, <2>2 DEF Range
<1> QED BY <1>2, <1>3, <1>4, <1>5, <1>6

\* A new element joins a sequence without repetitions.
LEMMA NewInSequence ==
  ASSUME NEW T, NEW s \in Seq(T), NEW x, x \notin Range(s), IsInjective(s)
  PROVE  IsInjective(Append(s, x)) /\ Range(Append(s, x)) = Range(s) \cup {x}
<1>1. s \in Seq(T \cup {x}) /\ Len(s) \in Nat /\ DOMAIN s = 1 .. Len(s)
  OBVIOUS
<1>2. /\ DOMAIN Append(s, x) = 1 .. Len(s) + 1
      /\ \A i \in 1 .. Len(s) : Append(s, x)[i] = s[i]
      /\ Append(s, x)[Len(s) + 1] = x
  BY <1>1
<1>3. \A i \in 1 .. Len(s) : s[i] # x
  BY <1>1 DEF Range
<1>4. IsInjective(Append(s, x))
  BY <1>1, <1>2, <1>3 DEF IsInjective
<1>5. ASSUME NEW y \in Range(s) \cup {x} PROVE y \in Range(Append(s, x))
  BY <1>1, <1>2, <1>5 DEF Range
<1>6. ASSUME NEW y \in Range(Append(s, x)) PROVE y \in Range(s) \cup {x}
  BY <1>1, <1>2, <1>6 DEF Range
<1> QED BY <1>4, <1>5, <1>6

\* A sequence of one.
LEMMA OneElement ==
  ASSUME NEW T, NEW s \in Seq(T), s # <<>>, Len(s) <= 1
  PROVE  \E x \in T : s = <<x>>
<1>1. Len(s) = 1
  <2>1. Len(s) \in Nat \ {0}
    BY EmptySeq
  <2> QED BY <2>1
<1>2. s[1] \in T
  BY <1>1, ElementOfSeq
<1>3. <<s[1]>> \in Seq(T) /\ Len(<<s[1]>>) = 1 /\ <<s[1]>>[1] = s[1]
  BY <1>2
<1>4. s = <<s[1]>>
  BY <1>1, <1>3, SeqEqual
<1> QED BY <1>2, <1>4

\* Every place holds sockets that were made.
LEMMA PlacesHoldSockets ==
  ASSUME ConnTypeOK
  PROVE  /\ Handed \subseteq 1 .. made /\ InProgress \subseteq 1 .. made
         /\ Backlog \subseteq 1 .. made /\ Queued \subseteq 1 .. made
         /\ Accepting \subseteq 1 .. made /\ shut \subseteq 1 .. made
         /\ None \notin 1 .. made /\ made + 1 \notin 1 .. made
<1>1. Handed \subseteq 1 .. made
  BY DEF ConnTypeOK, Handed
<1>2. InProgress \subseteq 1 .. made
  BY DEF ConnTypeOK, InProgress, Entry
<1>3. /\ Backlog \subseteq 1 .. made /\ Queued \subseteq 1 .. made
      /\ Accepting \subseteq 1 .. made
  <2>1. \A S : \A s \in Seq(S) : Range(s) \subseteq S
    BY DEF Range
  <2>2. backlog \in Seq(1 .. made) /\ conn_fd_q \in Seq(1 .. made) /\ accepting \in Seq(1 .. made)
    BY DEF ConnTypeOK
  <2> QED BY <2>1, <2>2 DEF Backlog, Queued, Accepting
<1> QED BY <1>1, <1>2, <1>3 DEF ConnTypeOK, None

\* An answer to a caller that has none yet.
LEMMA CallerAnswered ==
  ASSUME ConnTypeOK, PlaceInv, NEW a \in Callers, answer[a] = None,
         NEW fd \in {None} \cup Nat, fd \notin Handed, Answer(a, fd)
  PROVE  /\ asked' \in [Callers -> Asked] /\ asked'[a] = "answered"
         /\ \A b \in Callers : b # a => asked'[b] = asked[b] /\ answer'[b] = answer[b]
         /\ answer' \in [Callers -> {None, fd} \cup 1 .. made]
         /\ Handed' = (Handed \cup {fd}) \ {None}
         /\ \A b, c \in Callers : answer'[b] = answer'[c] /\ answer'[b] # None => b = c
<1>1. answer' = [answer EXCEPT ![a] = fd] /\ asked' = [asked EXCEPT ![a] = "answered"]
  BY DEF Answer
<1>2. answer'[a] = fd /\ \A b \in Callers : b # a => answer'[b] = answer[b]
  BY <1>1 DEF ConnTypeOK
<1>3. answer' \in [Callers -> {None, fd} \cup 1 .. made]
  BY <1>1 DEF ConnTypeOK
<1>4. asked' \in [Callers -> Asked] /\ asked'[a] = "answered"
      /\ \A b \in Callers : b # a => asked'[b] = asked[b]
  BY <1>1 DEF ConnTypeOK, Asked
<1>5. Handed' = (Handed \cup {fd}) \ {None}
  <2>1. Handed' = {answer'[b] : b \in Callers} \ {None}
    BY DEF Handed
  <2>2. ASSUME NEW x, x # None
        PROVE  (\E b \in Callers : answer'[b] = x) <=> x = fd \/ \E b \in Callers : answer[b] = x
    BY <1>2, <2>2
  <2> QED BY <2>1, <2>2 DEF Handed
<1>6. ASSUME NEW b \in Callers, NEW c \in Callers, answer'[b] = answer'[c], answer'[b] # None
      PROVE  b = c
  <2>1. \A d \in Callers : d # a /\ answer[d] # None => answer[d] # fd
    BY DEF Handed
  <2> QED BY <1>2, <1>6, <2>1 DEF PlaceInv
<1> QED BY <1>2, <1>3, <1>4, <1>5, <1>6

\* The initial states satisfy the invariant.
LEMMA InitConnInv == ConnInit => ConnInv
<1> SUFFICES ASSUME ConnInit PROVE ConnInv
  OBVIOUS
<1>1. ConnTypeOK
  BY DEF ConnInit, ConnTypeOK, Asked, Entry, None
<1>2. PlaceInv
  <2>1. 1 .. made = {} /\ IsInjective(<<>>)
    BY DEF ConnInit, IsInjective
  <2> QED BY <2>1 DEF ConnInit, PlaceInv
<1>3. WaitInv
  BY CallersAssumption DEF ConnInit, WaitInv, Callers
<1> QED BY <1>1, <1>2, <1>3 DEF ConnInv

\* The kernel's next connection.
LEMMA ArriveKeepsConn ==
  ASSUME ConnInv, Arrive, UNCHANGED backend
  PROVE  ConnInv'
<1> USE DEF ConnInv
<1>1. /\ made' = made + 1 /\ backlog' = Append(backlog, made + 1)
      /\ UNCHANGED <<armed, accepting, conn_request_q, conn_fd_q, connectVars, asked, answer, shut,
                     stopped>>
  BY DEF Arrive
<1>2. 1 .. made' = (1 .. made) \cup {made + 1} /\ made \in Nat
  BY <1>1 DEF ConnTypeOK
<1>3. made + 1 \notin Backlog
  BY PlacesHoldSockets
<1>4. IsInjective(backlog') /\ Backlog' = Backlog \cup {made + 1}
  BY <1>1, <1>3, NewInSequence DEF ConnTypeOK, PlaceInv, Backlog
<1>5. ConnTypeOK'
  <2>1. /\ backlog' \in Seq(1 .. made') /\ backlog' # <<>>
        /\ conn_fd_q' \in Seq(1 .. made') /\ accepting' \in Seq(1 .. made')
    <3>1. /\ backlog \in Seq(1 .. made') /\ made + 1 \in 1 .. made'
          /\ conn_fd_q \in Seq(1 .. made') /\ accepting \in Seq(1 .. made')
      BY <1>2, SeqMonotonic DEF ConnTypeOK
    <3>2. Append(backlog, made + 1) \in Seq(1 .. made') /\ Append(backlog, made + 1) # <<>>
      BY <3>1
    <3> QED BY <1>1, <3>1, <3>2
  <2>2. pending_connects' \subseteq Entry'
    BY <1>1, <1>2 DEF ConnTypeOK, Entry, connectVars
  <2>3. completions' \subseteq [fd : 1 .. made', asker : Dialers, ok : BOOLEAN]
    BY <1>1, <1>2 DEF ConnTypeOK, connectVars
  <2>4. made' \in Nat /\ shut' \subseteq 1 .. made' /\ answer' \in [Callers -> {None} \cup 1 .. made']
    BY <1>1, <1>2 DEF ConnTypeOK
  <2> QED BY <1>1, <2>1, <2>2, <2>3, <2>4 DEF ConnTypeOK
<1>6. PlaceInv'
  <2>1. UNCHANGED <<Handed, InProgress, Queued, Accepting, shut>>
    BY <1>1 DEF Handed, InProgress, Queued, Accepting, connectVars
  <2>2. \A fd \in 1 .. made' : InOnePlace(fd)'
    BY <1>2, <1>4, <2>1, PlacesHoldSockets DEF PlaceInv, InOnePlace
  <2> QED BY <1>1, <1>4, <2>2 DEF PlaceInv, connectVars
<1>7. WaitInv'
  BY <1>1 DEF WaitInv, connectVars
<1> QED BY <1>5, <1>6, <1>7

\* A socket is accepted: it goes from the backlog to a caller, or is to be queued.
LEMMA AcceptKeepsConn ==
  ASSUME ConnInv, backlog # <<>>, accepting = <<>>, MaybeAccept(Head(backlog)),
         backlog' = Tail(backlog), armed' # "accepted",
         UNCHANGED <<backend, conn_fd_q, connectVars, made, shut, stopped>>
  PROVE  ConnInv'
<1> USE DEF ConnInv
<1> DEFINE fd == Head(backlog)
<1>1. /\ backlog' \in Seq(1 .. made) /\ IsInjective(backlog') /\ fd \in 1 .. made
      /\ fd \in Backlog /\ Backlog' = Backlog \ {fd}
  BY HeadTaken DEF ConnTypeOK, PlaceInv, Backlog
<1>2. fd \notin Handed /\ fd \notin Accepting /\ Accepting = {}
  <2>1. Accepting = {}
    BY DEF Accepting, Range
  <2> QED BY <1>1, <2>1 DEF PlaceInv, InOnePlace
<1>3. UNCHANGED <<InProgress, Queued, shut, made>>
  BY DEF InProgress, Queued, connectVars
<1> HIDE DEF fd
<1>4. CASE conn_request_q # {}
  <2>1. PICK a \in conn_request_q : Answer(a, fd) /\ conn_request_q' = conn_request_q \ {a}
    BY <1>4 DEF MaybeAccept, fd
  <2>2. accepting' = accepting
    BY <1>4 DEF MaybeAccept
  <2>3. a \in Callers /\ a \in Askers /\ a \notin Dialers /\ asked[a] = "waiting" /\ answer[a] = None
    BY CallersAssumption DEF ConnTypeOK, WaitInv, Callers
  <2>4. fd \in {None} \cup Nat /\ fd # None
    BY <1>1 DEF None
  <2>5. /\ asked' \in [Callers -> Asked] /\ asked'[a] = "answered"
        /\ \A b \in Callers : b # a => asked'[b] = asked[b] /\ answer'[b] = answer[b]
        /\ answer' \in [Callers -> {None, fd} \cup 1 .. made]
        /\ Handed' = (Handed \cup {fd}) \ {None}
        /\ \A b, c \in Callers : answer'[b] = answer'[c] /\ answer'[b] # None => b = c
    BY <1>2, <2>1, <2>3, <2>4, CallerAnswered
  <2>6. Handed' = Handed \cup {fd}
    BY <2>4, <2>5 DEF Handed
  <2>7. ConnTypeOK'
    <3>1. answer' \in [Callers -> {None} \cup 1 .. made]
      BY <1>1, <2>5
    <3> QED BY <1>1, <1>3, <2>1, <2>2, <2>5, <3>1 DEF ConnTypeOK, Entry, connectVars
  <2>8. PlaceInv'
    <3>1. \A x \in 1 .. made : InOnePlace(x)'
      BY <1>1, <1>2, <1>3, <2>2, <2>6 DEF PlaceInv, InOnePlace, Accepting
    <3> QED BY <1>1, <1>3, <2>5, <3>1 DEF PlaceInv, connectVars
  <2>9. WaitInv'
    <3>1. \A b \in Callers : asked'[b] # "answered" => answer'[b] = None
      BY <2>5 DEF WaitInv
    <3>2. \A b \in conn_request_q' : asked'[b] = "waiting"
      BY <2>1, <2>5 DEF WaitInv, ConnTypeOK, Callers
    <3>3. \A p \in pending_connects : asked'[p.asker] = "waiting"
      BY <2>3, <2>5 DEF WaitInv, ConnTypeOK, Callers, Entry
    <3> QED BY <3>1, <3>2, <3>3 DEF WaitInv, connectVars
  <2> QED BY <2>7, <2>8, <2>9
<1>5. CASE conn_request_q = {}
  <2>1. accepting' = <<fd>> /\ UNCHANGED <<asked, answer, conn_request_q>>
    BY <1>5 DEF MaybeAccept, fd
  <2>2. Accepting' = {fd}
    BY <2>1 DEF Accepting, Range
  <2>3. Handed' = Handed
    BY <2>1 DEF Handed
  <2>4. ConnTypeOK'
    BY <1>1, <1>3, <2>1 DEF ConnTypeOK, Entry, connectVars
  <2>5. PlaceInv'
    <3>1. \A x \in 1 .. made : InOnePlace(x)'
      BY <1>1, <1>2, <1>3, <2>2, <2>3 DEF PlaceInv, InOnePlace
    <3> QED BY <1>1, <1>3, <2>1, <3>1 DEF PlaceInv, connectVars
  <2>6. WaitInv'
    BY <2>1 DEF WaitInv, connectVars
  <2> QED BY <2>4, <2>5, <2>6
<1> QED BY <1>4, <1>5

\* The accepted socket is queued, or closed when there is no room.
LEMMA EnqueueFdKeepsConn ==
  ASSUME ConnInv, EnqueueFd, UNCHANGED backend
  PROVE  ConnInv'
<1> USE DEF ConnInv
<1>1. PICK fd \in 1 .. made : accepting = <<fd>>
  <2>1. accepting \in Seq(1 .. made) /\ accepting # <<>> /\ Len(accepting) <= 1
    BY DEF EnqueueFd, ConnTypeOK
  <2> QED BY <2>1, OneElement
<1>2. /\ accepting' = <<>>
      /\ UNCHANGED <<backlog, armed, conn_request_q, connectVars, asked, answer, made, stopped>>
  BY DEF EnqueueFd
<1>3. Accepting = {fd} /\ Accepting' = {}
  BY <1>1, <1>2 DEF Accepting, Range
<1>4. fd \notin Queued /\ fd \notin shut
  BY <1>3 DEF PlaceInv, InOnePlace
<1>5. UNCHANGED <<Handed, InProgress, Backlog>>
  BY <1>2 DEF Handed, InProgress, Backlog, connectVars
<1>6. WaitInv'
  BY <1>2 DEF WaitInv, connectVars
<1>7. CASE Len(conn_fd_q) < FdRoom
  <2>1. conn_fd_q' = Append(conn_fd_q, fd) /\ UNCHANGED shut
    BY <1>1, <1>7 DEF EnqueueFd, ConnTypeOK
  <2>2. IsInjective(conn_fd_q') /\ Queued' = Queued \cup {fd}
    BY <1>4, <2>1, NewInSequence DEF ConnTypeOK, PlaceInv, Queued
  <2>3. ConnTypeOK'
    BY <1>2, <2>1 DEF ConnTypeOK, Entry, connectVars
  <2>4. \A x \in 1 .. made : InOnePlace(x)'
    BY <1>3, <1>4, <1>5, <2>1, <2>2 DEF PlaceInv, InOnePlace
  <2>5. PlaceInv'
    BY <1>2, <2>2, <2>4 DEF PlaceInv, connectVars
  <2> QED BY <1>6, <2>3, <2>5
<1>8. CASE ~(Len(conn_fd_q) < FdRoom)
  <2>1. shut' = shut \cup {fd} /\ UNCHANGED conn_fd_q
    BY <1>1, <1>3, <1>8 DEF EnqueueFd, Accepting
  <2>2. Queued' = Queued
    BY <2>1 DEF Queued
  <2>3. ConnTypeOK'
    BY <1>2, <2>1 DEF ConnTypeOK, Entry, connectVars
  <2>4. \A x \in 1 .. made : InOnePlace(x)'
    BY <1>3, <1>4, <1>5, <2>1, <2>2 DEF PlaceInv, InOnePlace
  <2>5. PlaceInv'
    BY <1>2, <2>1, <2>4 DEF PlaceInv, connectVars
  <2> QED BY <1>6, <2>3, <2>5
<1> QED BY <1>7, <1>8

\* A caller that has looked in vain, or that then queues its request.
LEMMA LookOrWaitKeepsConn ==
  ASSUME ConnInv, NEW a \in Askers, asked[a] \in {"idle", "looked"},
         \/ UNCHANGED <<answer, conn_request_q>> /\ asked' = [asked EXCEPT ![a] = "looked"]
         \/ Wait(a),
         UNCHANGED <<backend, backlog, armed, accepting, conn_fd_q, connectVars, made, shut, stopped>>
  PROVE  ConnInv'
<1> USE DEF ConnInv
<1>1. a \in Callers /\ answer[a] = None /\ a \notin conn_request_q
  BY DEF WaitInv, Callers
<1>2. UNCHANGED <<InProgress, Backlog, Queued, Accepting>>
  BY DEF InProgress, Backlog, Queued, Accepting, connectVars
<1>3. \A p \in pending_connects : p.asker # a
  BY CallersAssumption DEF ConnTypeOK, Entry
<1>4. /\ answer' = answer
      /\ asked' \in [Callers -> Asked]
      /\ \A b \in Callers : b # a => asked'[b] = asked[b]
      /\ conn_request_q' \subseteq Askers
      /\ \A b \in conn_request_q' : b \in conn_request_q \/ (b = a /\ asked'[a] = "waiting")
  <2>1. CASE UNCHANGED <<answer, conn_request_q>> /\ asked' = [asked EXCEPT ![a] = "looked"]
    BY <2>1 DEF ConnTypeOK, Asked
  <2>2. CASE Wait(a) /\ Cardinality(conn_request_q) < FdRoom
    BY <1>1, <2>2 DEF Wait, ConnTypeOK, Asked
  <2>3. CASE Wait(a) /\ ~(Cardinality(conn_request_q) < FdRoom)
    <3>1. Answer(a, None) /\ UNCHANGED conn_request_q
      BY <2>3 DEF Wait
    <3>2. answer' = answer
      BY <1>1, <3>1 DEF Answer, ConnTypeOK
    <3> QED BY <3>1, <3>2 DEF Answer, ConnTypeOK, Asked
  <2> QED BY <2>1, <2>2, <2>3
<1>5. ConnTypeOK'
  BY <1>4 DEF ConnTypeOK, Entry, connectVars
<1>6. PlaceInv'
  <2>1. Handed' = Handed
    BY <1>4 DEF Handed
  <2>2. \A x \in 1 .. made : InOnePlace(x)'
    BY <1>2, <2>1 DEF PlaceInv, InOnePlace
  <2> QED BY <1>4, <2>2 DEF PlaceInv, connectVars
<1>7. WaitInv'
  <2>1. \A b \in Callers : asked'[b] # "answered" => answer'[b] = None
    BY <1>1, <1>4 DEF WaitInv
  <2>2. \A b \in conn_request_q' : asked'[b] = "waiting"
    BY <1>1, <1>4 DEF WaitInv, ConnTypeOK, Callers
  <2>3. \A p \in pending_connects : asked'[p.asker] = "waiting"
    BY <1>3, <1>4 DEF WaitInv, ConnTypeOK, Callers, Entry
  <2> QED BY <2>1, <2>2, <2>3 DEF WaitInv, connectVars
<1> QED BY <1>5, <1>6, <1>7

\* schedule() on the scheduler's thread or another: a queued socket, or a look.
LEMMA WaitConnectionKeepsConn ==
  ASSUME ConnInv, NEW a \in Askers, WaitConnection(a), UNCHANGED backend
  PROVE  ConnInv'
<1> USE DEF ConnInv
<1>1. asked[a] = "idle" /\ a \in Callers /\ answer[a] = None
  BY DEF WaitConnection, WaitInv, Callers
<1>2. UNCHANGED <<backlog, armed, accepting, connectVars, made, shut, stopped>>
  BY DEF WaitConnection
<1>3. UNCHANGED <<InProgress, Backlog, Accepting>>
  BY <1>2 DEF InProgress, Backlog, Accepting, connectVars
<1>4. \A p \in pending_connects : p.asker # a
  BY CallersAssumption DEF ConnTypeOK, Entry
<1>5. a \notin conn_request_q
  BY <1>1 DEF WaitInv
<1>6. CASE conn_fd_q # <<>>
  <2> DEFINE fd == Head(conn_fd_q)
  <2>1. /\ conn_fd_q' = Tail(conn_fd_q) /\ Answer(a, fd) /\ UNCHANGED conn_request_q
    BY <1>6 DEF WaitConnection
  <2>2. /\ conn_fd_q' \in Seq(1 .. made) /\ IsInjective(conn_fd_q') /\ fd \in 1 .. made
        /\ fd \in Queued /\ Queued' = Queued \ {fd}
    BY <1>6, <2>1, HeadTaken DEF ConnTypeOK, PlaceInv, Queued
  <2>3. fd \notin Handed /\ fd \in {None} \cup Nat /\ fd # None
    BY <2>2 DEF PlaceInv, InOnePlace, None
  <2> HIDE DEF fd
  <2>4. /\ asked' \in [Callers -> Asked] /\ asked'[a] = "answered"
        /\ \A b \in Callers : b # a => asked'[b] = asked[b] /\ answer'[b] = answer[b]
        /\ answer' \in [Callers -> {None, fd} \cup 1 .. made]
        /\ Handed' = (Handed \cup {fd}) \ {None}
        /\ \A b, c \in Callers : answer'[b] = answer'[c] /\ answer'[b] # None => b = c
    BY <1>1, <2>1, <2>3, CallerAnswered
  <2>5. Handed' = Handed \cup {fd}
    BY <2>3, <2>4 DEF Handed
  <2>6. ConnTypeOK'
    <3>1. answer' \in [Callers -> {None} \cup 1 .. made]
      BY <2>2, <2>4
    <3> QED BY <1>2, <2>1, <2>2, <2>4, <3>1 DEF ConnTypeOK, Entry, connectVars
  <2>7. PlaceInv'
    <3>1. \A x \in 1 .. made : InOnePlace(x)'
      BY <1>2, <1>3, <2>2, <2>3, <2>5 DEF PlaceInv, InOnePlace
    <3> QED BY <1>2, <2>2, <2>4, <3>1 DEF PlaceInv, connectVars
  <2>8. WaitInv'
    <3>1. \A b \in Callers : asked'[b] # "answered" => answer'[b] = None
      BY <2>4 DEF WaitInv
    <3>2. \A b \in conn_request_q' : asked'[b] = "waiting"
      BY <1>5, <2>1, <2>4 DEF WaitInv, ConnTypeOK, Callers
    <3>3. \A p \in pending_connects : asked'[p.asker] = "waiting"
      BY <1>4, <2>4 DEF WaitInv, ConnTypeOK, Callers, Entry
    <3> QED BY <1>2, <3>1, <3>2, <3>3 DEF WaitInv, connectVars
  <2> QED BY <2>6, <2>7, <2>8
<1>7. CASE conn_fd_q = <<>>
  BY <1>1, <1>2, <1>7, LookOrWaitKeepsConn DEF WaitConnection
<1> QED BY <1>6, <1>7

\* connect(): refused, connected at once, or in progress.
LEMMA ConnectKeepsConn ==
  ASSUME ConnInv, NEW a \in Dialers, InitiateConnect(a) \/ SubmitConnect(a), UNCHANGED backend
  PROVE  ConnInv'
<1> USE DEF ConnInv
<1>1. asked[a] = "idle" /\ a \in Callers /\ a \notin Askers /\ answer[a] = None
  BY CallersAssumption DEF InitiateConnect, SubmitConnect, WaitInv, Callers
<1>2. /\ UNCHANGED <<backlog, armed, accepting, conn_request_q, conn_fd_q, completions, stopped>>
      /\ UNCHANGED <<Backlog, Queued, Accepting>>
  BY DEF InitiateConnect, SubmitConnect, acceptVars, Backlog, Queued, Accepting
<1>3. /\ a \notin conn_request_q
      /\ \A p \in pending_connects : p.asker # a
  BY <1>1 DEF WaitInv
<1>4. \/ Answer(a, None) /\ UNCHANGED <<made, shut, pending_connects>>
      \/ made' = made + 1 /\ Answer(a, None) /\ shut' = shut \cup {made + 1} /\ UNCHANGED pending_connects
      \/ made' = made + 1 /\ Answer(a, made + 1) /\ UNCHANGED <<shut, pending_connects>>
      \/ made' = made + 1 /\ Pending(a)
  BY DEF InitiateConnect, SubmitConnect, Refuse
<1>5. /\ None \in {None} \cup Nat /\ None \notin Handed /\ None # made + 1
      /\ made \in Nat /\ made + 1 \in {None} \cup Nat /\ made + 1 \notin Handed
  <2>1. made \in Nat /\ made + 1 \notin Handed
    BY PlacesHoldSockets DEF ConnTypeOK
  <2>2. None \notin Handed
    BY DEF Handed
  <2> QED BY <2>1, <2>2 DEF None
<1>6. 1 .. made + 1 = (1 .. made) \cup {made + 1}
  BY <1>5
<1>7. ASSUME NEW fd \in {None, made + 1}, Answer(a, fd)
      PROVE  /\ asked' \in [Callers -> Asked] /\ asked'[a] = "answered"
             /\ \A b \in Callers : b # a => asked'[b] = asked[b] /\ answer'[b] = answer[b]
             /\ answer' \in [Callers -> {None, fd} \cup 1 .. made]
             /\ Handed' = (Handed \cup {fd}) \ {None}
             /\ \A b, c \in Callers : answer'[b] = answer'[c] /\ answer'[b] # None => b = c
             /\ \A b \in Callers : asked'[b] # "answered" => answer'[b] = None
  <2>1. /\ asked' \in [Callers -> Asked] /\ asked'[a] = "answered"
        /\ \A b \in Callers : b # a => asked'[b] = asked[b] /\ answer'[b] = answer[b]
        /\ answer' \in [Callers -> {None, fd} \cup 1 .. made]
        /\ Handed' = (Handed \cup {fd}) \ {None}
        /\ \A b, c \in Callers : answer'[b] = answer'[c] /\ answer'[b] # None => b = c
    BY <1>1, <1>5, <1>7, CallerAnswered
  <2> QED BY <2>1 DEF WaitInv
<1>8. ASSUME UNCHANGED pending_connects, \E fd \in {None, made + 1} : Answer(a, fd)
      PROVE  WaitInv'
  <2>1. PICK fd \in {None, made + 1} : Answer(a, fd)
    BY <1>8
  <2>2. \A b \in conn_request_q' : asked'[b] = "waiting"
    BY <1>2, <1>3, <1>7, <2>1 DEF WaitInv, ConnTypeOK, Callers
  <2>3. \A p \in pending_connects' : asked'[p.asker] = "waiting"
    BY <1>3, <1>7, <1>8, <2>1 DEF WaitInv, ConnTypeOK, Callers, Entry
  <2> QED BY <1>2, <1>7, <1>8, <2>1, <2>2, <2>3 DEF WaitInv
<1>9. ASSUME made' = made + 1
      PROVE  /\ made' \in Nat /\ pending_connects \subseteq [fd : 1 .. made', asker : Dialers]
             /\ completions' \subseteq [fd : 1 .. made', asker : Dialers, ok : BOOLEAN]
             /\ backlog' \in Seq(1 .. made') /\ conn_fd_q' \in Seq(1 .. made')
             /\ accepting' \in Seq(1 .. made') /\ Len(accepting') <= 1
             /\ (armed = "accepted" => backend = "io_uring" /\ backlog # <<>>)'
             /\ conn_request_q' \subseteq Askers
  <2>1. backlog \in Seq(1 .. made') /\ conn_fd_q \in Seq(1 .. made') /\ accepting \in Seq(1 .. made')
    BY <1>6, <1>9, SeqMonotonic DEF ConnTypeOK
  <2>2. made' \in Nat /\ pending_connects \subseteq [fd : 1 .. made', asker : Dialers]
    BY <1>5, <1>6, <1>9 DEF ConnTypeOK, Entry
  <2>3. completions' \subseteq [fd : 1 .. made', asker : Dialers, ok : BOOLEAN]
    BY <1>2, <1>6, <1>9 DEF ConnTypeOK
  <2> QED BY <1>2, <2>1, <2>2, <2>3 DEF ConnTypeOK
<1>10. CASE Answer(a, None) /\ UNCHANGED <<made, shut, pending_connects>>
  <2>1. Handed' = Handed /\ InProgress' = InProgress
    BY <1>5, <1>7, <1>10 DEF InProgress
  <2>2. ConnTypeOK'
    BY <1>2, <1>7, <1>10 DEF ConnTypeOK, Entry
  <2>3. \A x \in 1 .. made : InOnePlace(x)'
    BY <1>2, <1>10, <2>1 DEF PlaceInv, InOnePlace
  <2>4. PlaceInv'
    BY <1>2, <1>7, <1>10, <2>3 DEF PlaceInv
  <2> QED BY <1>8, <1>10, <2>2, <2>4
<1>11. CASE /\ made' = made + 1 /\ Answer(a, None) /\ shut' = shut \cup {made + 1}
            /\ UNCHANGED pending_connects
  <2>1. Handed' = Handed /\ InProgress' = InProgress
    BY <1>5, <1>7, <1>11 DEF InProgress
  <2>2. ConnTypeOK'
    <3>1. answer' \in [Callers -> {None} \cup 1 .. made'] /\ shut' \subseteq 1 .. made'
      BY <1>6, <1>7, <1>11 DEF ConnTypeOK
    <3> QED BY <1>7, <1>9, <1>11, <3>1 DEF ConnTypeOK, Entry
  <2>3. \A x \in 1 .. made' : InOnePlace(x)'
    BY <1>2, <1>6, <1>11, <2>1, PlacesHoldSockets DEF PlaceInv, InOnePlace
  <2>4. PlaceInv'
    BY <1>2, <1>7, <1>11, <2>3 DEF PlaceInv
  <2> QED BY <1>8, <1>11, <2>2, <2>4
<1>12. CASE made' = made + 1 /\ Answer(a, made + 1) /\ UNCHANGED <<shut, pending_connects>>
  <2>1. Handed' = Handed \cup {made + 1} /\ InProgress' = InProgress
    <3>1. Handed' = (Handed \cup {made + 1}) \ {None}
      BY <1>7, <1>12
    <3> QED BY <1>5, <1>12, <3>1 DEF InProgress
  <2>2. ConnTypeOK'
    <3>1. answer' \in [Callers -> {None} \cup 1 .. made'] /\ shut' \subseteq 1 .. made'
      BY <1>6, <1>7, <1>12 DEF ConnTypeOK
    <3> QED BY <1>7, <1>9, <1>12, <3>1 DEF ConnTypeOK, Entry
  <2>3. \A x \in 1 .. made' : InOnePlace(x)'
    BY <1>2, <1>6, <1>12, <2>1, PlacesHoldSockets DEF PlaceInv, InOnePlace
  <2>4. PlaceInv'
    BY <1>2, <1>7, <1>12, <2>3 DEF PlaceInv
  <2> QED BY <1>8, <1>12, <2>2, <2>4
<1>13. CASE made' = made + 1 /\ Pending(a)
  <2> DEFINE e == [fd |-> made + 1, asker |-> a]
  <2>1. /\ pending_connects' = pending_connects \cup {e}
        /\ asked' = [asked EXCEPT ![a] = "waiting"] /\ UNCHANGED <<answer, shut>>
    BY <1>13 DEF Pending
  <2>2. /\ InProgress' = InProgress \cup {made + 1} /\ Handed' = Handed
    <3>1. e.fd = made + 1
      OBVIOUS
    <3> HIDE DEF e
    <3>2. InProgress' = InProgress \cup {e.fd}
      BY <2>1 DEF InProgress
    <3> QED BY <2>1, <3>1, <3>2 DEF Handed
  <2>3. /\ asked' \in [Callers -> Asked] /\ asked'[a] = "waiting"
        /\ \A b \in Callers : b # a => asked'[b] = asked[b]
    BY <1>1, <2>1 DEF ConnTypeOK, Asked
  <2>4. ConnTypeOK'
    <3>1. answer' \in [Callers -> {None} \cup 1 .. made'] /\ shut' \subseteq 1 .. made'
      BY <1>6, <1>13, <2>1 DEF ConnTypeOK
    <3>2. pending_connects' \subseteq [fd : 1 .. made', asker : Dialers]
      BY <1>5, <1>6, <1>9, <1>13, <2>1
    <3> QED BY <1>9, <1>13, <2>3, <3>1, <3>2 DEF ConnTypeOK, Entry
  <2>5. \A p \in pending_connects : p.fd # made + 1
    BY PlacesHoldSockets DEF InProgress
  <2>6. PlaceInv'
    <3>1. \A x \in 1 .. made' : InOnePlace(x)'
      BY <1>2, <1>6, <1>13, <2>1, <2>2, PlacesHoldSockets DEF PlaceInv, InOnePlace
    <3>2. (\A p, q \in pending_connects : p.fd = q.fd \/ p.asker = q.asker => p = q)'
      BY <1>3, <2>1, <2>5 DEF PlaceInv
    <3> QED BY <1>2, <2>1, <3>1, <3>2 DEF PlaceInv
  <2>7. WaitInv'
    <3>1. \A b \in Callers : asked'[b] # "answered" => answer'[b] = None
      BY <1>1, <2>1, <2>3 DEF WaitInv
    <3>2. \A b \in conn_request_q' : asked'[b] = "waiting"
      BY <1>2, <1>3, <2>3 DEF WaitInv, ConnTypeOK, Callers
    <3>3. \A p \in pending_connects' : asked'[p.asker] = "waiting"
      BY <2>1, <2>3 DEF WaitInv, ConnTypeOK, Callers, Entry
    <3> QED BY <1>2, <2>1, <3>1, <3>2, <3>3 DEF WaitInv
  <2> QED BY <2>4, <2>6, <2>7
<1> QED BY <1>4, <1>10, <1>11, <1>12, <1>13

\* A connection in progress ends: its caller gets it, or it is closed.
LEMMA ConnectedKeepsConn ==
  ASSUME ConnInv, NEW c \in completions, ~stopped, Connected(c), UNCHANGED backend
  PROVE  ConnInv'
<1> USE DEF ConnInv
<1>1. PICK p \in pending_connects : p.fd = c.fd /\ p.asker = c.asker
  BY DEF WaitInv
<1>2. /\ p.fd \in 1 .. made /\ p.asker \in Dialers /\ p.asker \in Callers /\ p.asker \notin Askers
      /\ asked[p.asker] = "waiting" /\ answer[p.asker] = None
  BY CallersAssumption DEF ConnTypeOK, Entry, WaitInv, Callers
<1>3. /\ completions' = completions \ {c} /\ pending_connects' = pending_connects \ {p}
      /\ UNCHANGED <<backlog, armed, accepting, conn_request_q, conn_fd_q, made, stopped>>
      /\ UNCHANGED <<Backlog, Queued, Accepting>>
  BY <1>1 DEF Connected, acceptVars, PlaceInv, Backlog, Queued, Accepting
<1>4. \A q \in pending_connects' : q \in pending_connects /\ q.fd # p.fd /\ q.asker # p.asker
  BY <1>3 DEF PlaceInv
<1>5. InProgress' = InProgress \ {p.fd} /\ p.fd \in InProgress
  <2>1. p.fd \in InProgress
    BY DEF InProgress
  <2>2. \A x \in InProgress' : x \in InProgress /\ x # p.fd
    BY <1>4 DEF InProgress
  <2>3. ASSUME NEW x \in InProgress, x # p.fd PROVE x \in InProgress'
    BY <1>3, <2>3 DEF InProgress
  <2> QED BY <2>1, <2>2, <2>3
<1>6. p.fd \notin Handed /\ p.fd \notin shut
  BY <1>2, <1>5 DEF PlaceInv, InOnePlace
<1>7. PICK fd \in {None, p.fd} :
        /\ Answer(p.asker, fd)
        /\ shut' = IF fd = None THEN shut \cup {p.fd} ELSE shut
  <2>1. p.fd # None
    BY <1>2 DEF None
  <2> QED BY <1>1, <2>1 DEF Connected
<1>8. fd \in {None} \cup Nat /\ fd \notin Handed
  BY <1>2, <1>6 DEF Handed, None
<1>9. /\ asked' \in [Callers -> Asked] /\ asked'[p.asker] = "answered"
      /\ \A b \in Callers : b # p.asker => asked'[b] = asked[b] /\ answer'[b] = answer[b]
      /\ answer' \in [Callers -> {None, fd} \cup 1 .. made]
      /\ Handed' = (Handed \cup {fd}) \ {None}
      /\ \A b, d \in Callers : answer'[b] = answer'[d] /\ answer'[b] # None => b = d
  BY <1>2, <1>7, <1>8, CallerAnswered
<1>10. /\ fd = None => Handed' = Handed
       /\ fd # None => Handed' = Handed \cup {p.fd}
  BY <1>7, <1>9 DEF Handed
<1>11. ConnTypeOK'
  <2>1. answer' \in [Callers -> {None} \cup 1 .. made] /\ shut' \subseteq 1 .. made
    <3>1. {None, fd} \cup 1 .. made \subseteq {None} \cup 1 .. made
      BY <1>2
    <3>2. shut \subseteq 1 .. made /\ shut' \subseteq shut \cup {p.fd}
      BY <1>7 DEF ConnTypeOK
    <3>3. answer' \in [Callers -> {None, fd} \cup 1 .. made]
      BY <1>9
    <3> HIDE DEF None
    <3> QED BY <1>2, <3>1, <3>2, <3>3
  <2>2. made' = made /\ asked' \in [Callers -> Asked]
    BY <1>3, <1>9
  <2>3. pending_connects' \subseteq Entry' /\ conn_request_q' \subseteq Askers
        /\ completions' \subseteq [fd : 1 .. made, asker : Dialers, ok : BOOLEAN]
    BY <1>3, <2>2 DEF ConnTypeOK, Entry
  <2>4. /\ backlog' \in Seq(1 .. made) /\ conn_fd_q' \in Seq(1 .. made)
        /\ accepting' \in Seq(1 .. made) /\ Len(accepting') <= 1
        /\ (armed = "accepted" => backend = "io_uring" /\ backlog # <<>>)'
    BY <1>3 DEF ConnTypeOK
  <2> QED BY <2>1, <2>2, <2>3, <2>4 DEF ConnTypeOK
<1>12. PlaceInv'
  <2>1. \A x \in 1 .. made : InOnePlace(x)'
    BY <1>2, <1>3, <1>5, <1>6, <1>7, <1>10 DEF PlaceInv, InOnePlace
  <2> QED BY <1>3, <1>4, <1>9, <2>1 DEF PlaceInv
<1>13. WaitInv'
  <2>1. \A b \in Callers : asked'[b] # "answered" => answer'[b] = None
    BY <1>9 DEF WaitInv
  <2>2. \A b \in conn_request_q' : asked'[b] = "waiting"
    BY <1>2, <1>3, <1>9 DEF WaitInv, ConnTypeOK, Callers
  <2>3. \A q \in pending_connects' : asked'[q.asker] = "waiting"
    BY <1>3, <1>4, <1>9 DEF WaitInv, ConnTypeOK, Callers, Entry
  <2>4. ASSUME NEW d \in completions'
        PROVE  \E q \in pending_connects' : q.fd = d.fd /\ q.asker = d.asker
    <3>1. d \in completions /\ d.fd # c.fd
      BY <1>3 DEF WaitInv
    <3>2. PICK q \in pending_connects : q.fd = d.fd /\ q.asker = d.asker
      BY <3>1 DEF WaitInv
    <3>3. q \in pending_connects'
      BY <1>1, <1>3, <3>1, <3>2
    <3> QED BY <3>2, <3>3
  <2> QED BY <1>3, <2>1, <2>2, <2>3, <2>4 DEF WaitInv
<1> QED BY <1>11, <1>12, <1>13

\* A shutdown fails the waiting requests and closes the connections in progress.
LEMMA DrainKeepsConn ==
  ASSUME ConnInv, DrainOnShutdown, UNCHANGED backend
  PROVE  ConnInv'
<1> USE DEF ConnInv
<1> DEFINE failed == conn_request_q \cup {p.asker : p \in pending_connects}
<1>1. /\ asked' = [a \in Callers |-> IF a \in failed THEN "answered" ELSE asked[a]]
      /\ conn_request_q' = {} /\ pending_connects' = {} /\ shut' = shut \cup InProgress
      /\ stopped /\ UNCHANGED <<backlog, armed, accepting, conn_fd_q, answer, made, stopped, completions>>
  BY DEF DrainOnShutdown, InProgress
<1>2. asked' \in [Callers -> Asked] /\ \A a \in Callers : asked'[a] \in {asked[a], "answered"}
  BY <1>1 DEF ConnTypeOK, Asked
<1> HIDE DEF failed
<1>3. InProgress' = {} /\ UNCHANGED <<Handed, Backlog, Queued, Accepting>>
  BY <1>1 DEF InProgress, Handed, Backlog, Queued, Accepting
<1>4. ConnTypeOK'
  BY <1>1, <1>2, PlacesHoldSockets DEF ConnTypeOK, Entry
<1>5. PlaceInv'
  <2>1. \A x \in 1 .. made : InOnePlace(x)'
    BY <1>1, <1>3 DEF PlaceInv, InOnePlace
  <2> QED BY <1>1, <2>1 DEF PlaceInv
<1>6. WaitInv'
  BY <1>1, <1>2 DEF WaitInv
<1> QED BY <1>4, <1>5, <1>6

\* The kernel reports the end of a connection in progress.
LEMMA CompleteKeepsConn ==
  ASSUME ConnInv, NEW p \in pending_connects, Complete(p)
  PROVE  ConnInv'
<1> USE DEF ConnInv
<1>1. PICK ok \in BOOLEAN :
        completions' = completions \cup {[fd |-> p.fd, asker |-> p.asker, ok |-> ok]}
  BY DEF Complete
<1>2. /\ \A c \in completions : c.fd # p.fd
      /\ UNCHANGED <<backend, backlog, armed, accepting, conn_request_q, conn_fd_q, pending_connects,
                     asked, answer, made, shut, stopped>>
      /\ UNCHANGED <<Handed, InProgress, Backlog, Queued, Accepting>>
  BY DEF Complete, acceptVars, Handed, InProgress, Backlog, Queued, Accepting
<1>3. ConnTypeOK'
  BY <1>1, <1>2 DEF ConnTypeOK, Entry
<1>4. PlaceInv'
  BY <1>2 DEF PlaceInv, InOnePlace
<1>5. WaitInv'
  BY <1>1, <1>2 DEF WaitInv
<1> QED BY <1>3, <1>4, <1>5

\* What moves no socket.
LEMMA OthersKeepConn ==
  ASSUME ConnInv,
         \/ Shutdown /\ UNCHANGED backend
         \/ AcceptCompletes
         \/ UNCHANGED connVars
  PROVE  ConnInv'
<1> USE DEF ConnInv
<1>1. /\ UNCHANGED <<backend, backlog, accepting, conn_request_q, conn_fd_q, pending_connects,
                     completions, asked, answer, made, shut>>
      /\ stopped => stopped'
      /\ armed' = "accepted" => armed = "accepted" \/ (backend = "io_uring" /\ backlog # <<>>)
  BY DEF Shutdown, AcceptCompletes, connVars, acceptVars, connectVars
<1>2. ConnTypeOK'
  BY <1>1 DEF ConnTypeOK, Entry
<1>3. PlaceInv'
  BY <1>1 DEF PlaceInv, InOnePlace, Handed, InProgress, Backlog, Queued, Accepting
<1>4. WaitInv'
  BY <1>1 DEF WaitInv
<1> QED BY <1>2, <1>3, <1>4

\* Every step keeps the invariant.
LEMMA NextConnInv ==
  ASSUME ConnInv, [ConnNext]_connVars
  PROVE  ConnInv'
<1>1. CASE (Arrive \/ Shutdown) /\ UNCHANGED backend
  BY <1>1, ArriveKeepsConn, OthersKeepConn
<1>2. CASE SchedulerStep
  <2>1. CASE HandleNewConnections
    <3>1. armed' # "accepted"
      BY <2>1 DEF HandleNewConnections, ConnInv, ConnTypeOK
    <3> QED BY <1>2, <2>1, <3>1, AcceptKeepsConn DEF HandleNewConnections, SchedulerStep
  <2>2. CASE HandleIoUring /\ armed = "failed"
    <3>1. /\ UNCHANGED <<backend, backlog, accepting, conn_request_q, conn_fd_q, connectVars, asked,
                         answer, made, shut, stopped>>
          /\ armed' = "submitted"
      BY <1>2, <2>2 DEF HandleIoUring, SchedulerStep
    <3>2. ConnTypeOK'
      BY <3>1 DEF ConnInv, ConnTypeOK, Entry, connectVars
    <3>3. PlaceInv' /\ WaitInv'
      BY <3>1 DEF ConnInv, PlaceInv, WaitInv, connectVars, InOnePlace, Handed, InProgress, Backlog,
                  Queued, Accepting
    <3> QED BY <3>2, <3>3 DEF ConnInv
  <2>3. CASE HandleIoUring /\ armed # "failed"
    <3>1. armed = "accepted" /\ armed' # "accepted"
      BY <2>3 DEF HandleIoUring
    <3>2. backlog # <<>>
      BY <3>1 DEF ConnInv, ConnTypeOK
    <3> QED BY <1>2, <2>3, <3>1, <3>2, AcceptKeepsConn DEF HandleIoUring, SchedulerStep
  <2>4. CASE EnqueueFd \/ DrainOnShutdown
    BY <1>2, <2>4, EnqueueFdKeepsConn, DrainKeepsConn DEF SchedulerStep
  <2>5. ASSUME NEW c \in completions, HandleConnectCompletion(c) \/ ConnectCqe(c)
        PROVE  ConnInv'
    BY <1>2, <2>5, ConnectedKeepsConn DEF HandleConnectCompletion, ConnectCqe, SchedulerStep
  <2> QED BY <1>2, <2>1, <2>2, <2>3, <2>4, <2>5 DEF SchedulerStep
<1>3. CASE KernelStep
  BY <1>3, CompleteKeepsConn, OthersKeepConn DEF KernelStep
<1>4. CASE CallerStep
  <2>1. ASSUME NEW a \in Askers, WaitConnection(a) \/ Enqueue(a)
        PROVE  ConnInv'
    <3>1. CASE WaitConnection(a)
      BY <1>4, <3>1, WaitConnectionKeepsConn DEF CallerStep
    <3>2. CASE Enqueue(a)
      BY <3>2, LookOrWaitKeepsConn DEF Enqueue
    <3> QED BY <2>1, <3>1, <3>2
  <2>2. ASSUME NEW a \in Dialers, InitiateConnect(a) \/ SubmitConnect(a)
        PROVE  ConnInv'
    BY <1>4, <2>2, ConnectKeepsConn DEF CallerStep
  <2> QED BY <1>4, <2>1, <2>2 DEF CallerStep
<1>5. CASE UNCHANGED connVars
  BY <1>5, OthersKeepConn
<1> QED BY <1>1, <1>2, <1>3, <1>4, <1>5 DEF ConnNext

(* The invariant holds in every state, for any callers, sockets and queue  *)
(* lengths, with epoll or io_uring.                                        *)
THEOREM ConnInvHolds == ConnSpec => []ConnInv
<1>1. ConnInv /\ [ConnNext]_connVars => ConnInv'
  BY NextConnInv
<1> QED BY <1>1, InitConnInv, PTL DEF ConnSpec

(* Every socket that was made is in one place, through shutdowns, failing  *)
(* connects and full queues: none is lost, none has two holders, and none  *)
(* is closed while somebody has it.                                        *)
THEOREM NoSocketIsLost == ConnSpec => []SocketsAccounted
<1>1. ASSUME ConnInv PROVE SocketsAccounted
  <2> USE <1>1 DEF ConnInv
  <2> SUFFICES ASSUME NEW fd \in 1 .. made
               PROVE  1 = Cardinality(Held(fd))
                          + Cardinality({p \in pending_connects : p.fd = fd})
                          + (IF Contains(backlog, fd) THEN 1 ELSE 0)
                          + (IF Contains(conn_fd_q, fd) THEN 1 ELSE 0)
                          + (IF Contains(accepting, fd) THEN 1 ELSE 0)
                          + (IF fd \in shut THEN 1 ELSE 0)
    BY DEF SocketsAccounted
  <2>1. Cardinality(Held(fd)) = IF fd \in Handed THEN 1 ELSE 0
    <3>1. fd # None
      BY DEF None
    <3>2. CASE fd \in Handed
      <4>1. PICK a \in Callers : answer[a] = fd
        BY <3>2 DEF Handed
      <4>2. Held(fd) = {a}
        BY <3>1, <4>1 DEF Held, PlaceInv
      <4> QED BY <3>2, <4>2, FS_Singleton
    <3>3. CASE fd \notin Handed
      <4>1. Held(fd) = {}
        BY <3>1, <3>3 DEF Held, Handed
      <4> QED BY <3>3, <4>1, FS_EmptySet
    <3> QED BY <3>2, <3>3
  <2>2. Cardinality({p \in pending_connects : p.fd = fd}) = IF fd \in InProgress THEN 1 ELSE 0
    <3>1. CASE fd \in InProgress
      <4>1. PICK p \in pending_connects : p.fd = fd
        BY <3>1 DEF InProgress
      <4>2. {q \in pending_connects : q.fd = fd} = {p}
        BY <4>1 DEF PlaceInv
      <4> QED BY <3>1, <4>2, FS_Singleton
    <3>2. CASE fd \notin InProgress
      <4>1. {q \in pending_connects : q.fd = fd} = {}
        BY <3>2 DEF InProgress
      <4> QED BY <3>2, <4>1, FS_EmptySet
    <3> QED BY <3>1, <3>2
  <2>3. /\ Contains(backlog, fd) <=> fd \in Backlog
        /\ Contains(conn_fd_q, fd) <=> fd \in Queued
        /\ Contains(accepting, fd) <=> fd \in Accepting
    BY LenProperties DEF ConnTypeOK, Contains, Backlog, Queued, Accepting, Range
  <2>4. InOnePlace(fd)
    BY DEF PlaceInv
  <2> QED BY <2>1, <2>2, <2>3, <2>4 DEF InOnePlace
<1> QED BY <1>1, ConnInvHolds, PTL

-----------------------------------------------------------------------------
\* A caller that waits is in the queue, or its connection is in progress.
NoneForgotten ==
  \A a \in Callers : asked[a] = "waiting" =>
     a \in conn_request_q \/ \E p \in pending_connects : p.asker = a

\* A step after which those who wait are among those who waited, and none of
\* them has left the queue or the list.
LEMMA FewerWait ==
  ASSUME NoneForgotten, NEW S,
         \A a \in Callers : asked'[a] = "waiting" => asked[a] = "waiting" /\ a \notin S,
         conn_request_q \ S \subseteq conn_request_q',
         \A p \in pending_connects : p \in pending_connects' \/ p.asker \in S
  PROVE  NoneForgotten'
<1> SUFFICES ASSUME NEW a \in Callers, asked'[a] = "waiting"
             PROVE  a \in conn_request_q' \/ \E p \in pending_connects' : p.asker = a
  BY DEF NoneForgotten, Callers
<1>1. asked[a] = "waiting" /\ a \notin S
  OBVIOUS
<1>2. CASE a \in conn_request_q
  BY <1>1, <1>2
<1>3. CASE \E p \in pending_connects : p.asker = a
  BY <1>1, <1>3
<1> QED BY <1>1, <1>2, <1>3 DEF NoneForgotten

\* A step after which nobody waits who did not, and all is where it was.
LEMMA NobodyJoins ==
  ASSUME NoneForgotten, UNCHANGED <<conn_request_q, pending_connects>>,
         \A a \in Callers : asked'[a] = "waiting" => asked[a] = "waiting"
  PROVE  NoneForgotten'
BY DEF NoneForgotten, Callers

\* One more waits, in the queue.
LEMMA OneQueues ==
  ASSUME ConnTypeOK, NoneForgotten, NEW a \in Callers, Wait(a), UNCHANGED pending_connects
  PROVE  NoneForgotten'
<1>1. asked \in [Callers -> Asked]
  BY DEF ConnTypeOK
<1>2. CASE conn_request_q' = conn_request_q \cup {a} /\ asked' = [asked EXCEPT ![a] = "waiting"]
  BY <1>1, <1>2 DEF NoneForgotten, Callers
<1>3. CASE Answer(a, None) /\ UNCHANGED conn_request_q
  <2>1. \A b \in Callers : asked'[b] = "waiting" => asked[b] = "waiting"
    BY <1>1, <1>3 DEF Answer
  <2> QED BY <1>3, <2>1, NobodyJoins
<1> QED BY <1>2, <1>3 DEF Wait

LEMMA AcceptForgetsNone ==
  ASSUME ConnTypeOK, NoneForgotten, NEW fd, MaybeAccept(fd), UNCHANGED pending_connects
  PROVE  NoneForgotten'
<1>1. asked \in [Callers -> Asked] /\ conn_request_q \subseteq Callers
  BY DEF ConnTypeOK, Callers
<1>2. CASE conn_request_q # {}
  <2>1. PICK a \in conn_request_q : Answer(a, fd) /\ conn_request_q' = conn_request_q \ {a}
    BY <1>2 DEF MaybeAccept
  <2>2. PICK S : S = {a}
    OBVIOUS
  <2>3. \A b \in Callers : asked'[b] = "waiting" => asked[b] = "waiting" /\ b \notin S
    BY <1>1, <2>1, <2>2 DEF Answer
  <2>4. conn_request_q \ S \subseteq conn_request_q'
    BY <2>1, <2>2
  <2> QED BY <2>3, <2>4, FewerWait
<1>3. CASE conn_request_q = {}
  BY <1>3 DEF MaybeAccept, NoneForgotten
<1> QED BY <1>2, <1>3

LEMMA ForgottenStep ==
  ASSUME ConnInv, NoneForgotten, [ConnNext]_connVars
  PROVE  NoneForgotten'
<1>0. ConnTypeOK /\ asked \in [Callers -> Asked] /\ Askers \subseteq Callers /\ Dialers \subseteq Callers
  BY DEF ConnInv, ConnTypeOK, Callers
<1>1. CASE UNCHANGED <<asked, conn_request_q, pending_connects>>
  BY <1>1 DEF NoneForgotten
<1>2. CASE HandleNewConnections
  BY <1>0, <1>2, AcceptForgetsNone DEF HandleNewConnections, connectVars
<1>3. CASE HandleIoUring
  BY <1>0, <1>1, <1>3, AcceptForgetsNone DEF HandleIoUring, connectVars
<1>4. CASE DrainOnShutdown
  <2>1. PICK S : S = conn_request_q \cup {p.asker : p \in pending_connects}
    OBVIOUS
  <2>2. asked' = [a \in Callers |-> IF a \in S THEN "answered" ELSE asked[a]]
    BY <1>4, <2>1 DEF DrainOnShutdown
  <2>3. \A a \in Callers : asked'[a] = "waiting" => asked[a] = "waiting" /\ a \notin S
    BY <2>2
  <2>4. /\ conn_request_q \ S \subseteq conn_request_q'
        /\ \A p \in pending_connects : p.asker \in S
    BY <2>1
  <2> QED BY <2>3, <2>4, FewerWait
<1>5. ASSUME NEW c \in completions, HandleConnectCompletion(c) \/ ConnectCqe(c) PROVE NoneForgotten'
  <2>1. ~stopped /\ Connected(c)
    BY <1>5 DEF HandleConnectCompletion, ConnectCqe
  <2>2. PICK q \in pending_connects : q.fd = c.fd /\ q.asker = c.asker
    BY <2>1 DEF ConnInv, WaitInv
  <2>3. PICK S : S = {c.asker}
    OBVIOUS
  <2>4. \A p \in pending_connects : p \in pending_connects' \/ p.asker \in S
    BY <2>1, <2>2, <2>3 DEF Connected, ConnInv, PlaceInv
  <2>5. /\ \A a \in Callers : asked'[a] = "waiting" => asked[a] = "waiting" /\ a \notin S
        /\ conn_request_q' = conn_request_q
    BY <1>0, <2>1, <2>3 DEF Connected, Answer, acceptVars
  <2> QED BY <2>4, <2>5, FewerWait
<1>6. ASSUME NEW a \in Askers, WaitConnection(a) PROVE NoneForgotten'
  <2>1. UNCHANGED pending_connects
    BY <1>6 DEF WaitConnection, connectVars
  <2>2. CASE conn_fd_q = <<>> /\ a \in Local
    BY <1>0, <1>6, <2>1, <2>2, OneQueues DEF WaitConnection
  <2>3. CASE ~(conn_fd_q = <<>> /\ a \in Local)
    <3>1. \E x : x # "waiting" /\ asked' = [asked EXCEPT ![a] = x]
      BY <1>6, <2>3 DEF WaitConnection, Answer
    <3>2. \A b \in Callers : asked'[b] = "waiting" => asked[b] = "waiting"
      BY <1>0, <3>1
    <3>3. UNCHANGED conn_request_q
      BY <1>6, <2>3 DEF WaitConnection
    <3> QED BY <2>1, <3>2, <3>3, NobodyJoins
  <2> QED BY <2>2, <2>3
<1>7. ASSUME NEW a \in Askers, Enqueue(a) PROVE NoneForgotten'
  BY <1>0, <1>7, OneQueues DEF Enqueue, connectVars
<1>8. ASSUME NEW a \in Dialers, InitiateConnect(a) \/ SubmitConnect(a) PROVE NoneForgotten'
  <2>1. conn_request_q' = conn_request_q
    BY <1>8 DEF InitiateConnect, SubmitConnect, acceptVars
  <2>2. CASE Pending(a)
    <3>1. PICK p : p = [fd |-> made + 1, asker |-> a] /\ pending_connects' = pending_connects \cup {p}
      BY <2>2 DEF Pending
    <3>2. p \in pending_connects' /\ p.asker = a /\ pending_connects \subseteq pending_connects'
      BY <3>1
    <3>3. \A b \in Callers : b # a => asked'[b] = asked[b]
      BY <1>0, <2>2 DEF Pending
    <3> QED BY <2>1, <3>2, <3>3 DEF NoneForgotten, Callers
  <2>3. ASSUME NEW fd, Answer(a, fd), UNCHANGED pending_connects PROVE NoneForgotten'
    <3>1. \A b \in Callers : asked'[b] = "waiting" => asked[b] = "waiting"
      BY <1>0, <2>3 DEF Answer
    <3> QED BY <2>1, <2>3, <3>1, NobodyJoins
  <2> QED BY <1>8, <2>2, <2>3 DEF InitiateConnect, SubmitConnect, Refuse
<1>9. CASE Arrive \/ Shutdown \/ EnqueueFd \/ AcceptCompletes \/ (\E p \in pending_connects : Complete(p))
           \/ UNCHANGED connVars
  BY <1>1, <1>9 DEF Arrive, Shutdown, EnqueueFd, AcceptCompletes, Complete, connVars, acceptVars, connectVars
<1> QED BY <1>2, <1>3, <1>4, <1>5, <1>6, <1>7, <1>8, <1>9 DEF ConnNext, SchedulerStep, CallerStep, KernelStep

\* Once nothing is left to do, nobody waits for a connect, nor for an accept
\* after a shutdown: who waits is in a queue that drain_on_shutdown empties, or
\* has a connection in progress.
THEOREM NoCallerIsForgotten == ConnSpec => []CallersHeard
<1>1. ConnInit => NoneForgotten
  BY DEF ConnInit, NoneForgotten
<1>2. ConnInv /\ NoneForgotten /\ [ConnNext]_connVars => NoneForgotten'
  BY ForgottenStep
<1>3. ConnInv /\ NoneForgotten => CallersHeard
  <2> SUFFICES ASSUME ConnInv, NoneForgotten, ConnQuiet, NEW a \in Callers, asked[a] = "waiting"
               PROVE  a \in Askers /\ a \in conn_request_q /\ ~stopped
    BY CallersAssumption DEF CallersHeard, Callers
  <2>1. a \in conn_request_q
    BY DEF NoneForgotten, ConnQuiet
  <2> QED BY <2>1 DEF ConnQuiet, ConnInv, ConnTypeOK
<1> QED BY <1>1, <1>2, <1>3, ConnInvHolds, PTL DEF ConnSpec

-----------------------------------------------------------------------------
(* The session scheduler: what the operators on session objects do. *)

\* v is w with another object for s, and perhaps another owner table.
OnlyOf(w, v, s) ==
  v \in World /\ v.touched = w.touched /\ \A x \in Sessions : x # s => v.sess[x] = w.sess[x]

LEMMA PutIs ==
  ASSUME NEW w \in World, NEW s \in Sessions, NEW o \in SessionObject, ~w.sess[s].freed
  PROVE  OnlyOf(w, Put(w, s, o), s) /\ Put(w, s, o).sess[s] = o
<1> DEFINE v == [sess |-> [w.sess EXCEPT ![s] = o], owner |-> w.owner, touched |-> w.touched]
<1>1. w = [sess |-> w.sess, owner |-> w.owner, touched |-> w.touched] /\ w.touched \in BOOLEAN
  BY DEF World
<1>2. (w.touched \/ w.sess[s].freed) = w.touched
  BY <1>1
<1>3. Put(w, s, o) = v
  <2> DEFINE b == w.touched \/ w.sess[s].freed
             c == [w.sess EXCEPT ![s] = o]
  <2>1. b = w.touched
    BY <1>2
  <2>2. Put(w, s, o) = [w EXCEPT !.sess = c, !.touched = b]
    BY DEF Put
  <2> HIDE DEF b, c
  <2>3. Put(w, s, o) = [sess |-> c, owner |-> w.owner, touched |-> b]
    BY <1>1, <2>2
  <2> QED BY <2>1, <2>3 DEF c
<1>4. v \in World /\ v.sess[s] = o /\ \A x \in Sessions : x # s => v.sess[x] = w.sess[x]
  BY DEF World
<1> QED BY <1>3, <1>4 DEF OnlyOf

LEMMA ObjectOf == ASSUME NEW w \in World, NEW s \in Sessions PROVE w.sess[s] \in SessionObject
BY DEF World

Shut(o) == [o EXCEPT !.fd = Closed, !.status = "closed"]

LEMMA DoCloseIs ==
  ASSUME NEW w \in World, NEW s \in Sessions, ~w.sess[s].freed
  PROVE  OnlyOf(w, DoClose(w, s), s) /\ DoClose(w, s).sess[s] = Shut(w.sess[s])
<1> DEFINE o == Shut(w.sess[s])
           t == Put(w, s, o)
           own == [d \in DOMAIN w.owner |-> IF d = w.sess[s].fd THEN Closed ELSE w.owner[d]]
           v == [sess |-> t.sess, owner |-> own, touched |-> t.touched]
<1>1. DoClose(w, s) = [t EXCEPT !.owner = own]
  BY DEF DoClose, Shut
<1>2. o \in SessionObject
  <2>1. Closed \in 0 .. Descriptors /\ "closed" \in Statuses
    BY SessionBounds DEF Closed, Statuses
  <2> QED BY <2>1, ObjectOf DEF SessionObject, Shut
<1>3. own \in [1 .. Descriptors -> Sessions \cup {Closed}]
  BY DEF World
<1> HIDE DEF o, own
<1>4. OnlyOf(w, t, s) /\ t.sess[s] = o
  BY <1>2, PutIs
<1> HIDE DEF t
<1>5. t = [sess |-> t.sess, owner |-> t.owner, touched |-> t.touched]
  BY <1>4 DEF OnlyOf, World
<1>6. DoClose(w, s) = v
  BY <1>1, <1>5
<1>7. v \in World
  BY <1>3, <1>4 DEF OnlyOf, World
<1> QED BY <1>4, <1>6, <1>7 DEF OnlyOf, o

Gone(o) == [o EXCEPT !.fd = Closed, !.status = "closed", !.freed = TRUE]

LEMMA DeleteIs ==
  ASSUME NEW w \in World, NEW s \in Sessions, ~w.sess[s].freed
  PROVE  OnlyOf(w, Delete(w, s), s) /\ Delete(w, s).sess[s] = Gone(w.sess[s])
<1> DEFINE v == DoClose(w, s)
           o == [v.sess[s] EXCEPT !.freed = TRUE]
<1>1. OnlyOf(w, v, s) /\ v.sess[s] = Shut(w.sess[s])
  BY DoCloseIs
<1>2. Delete(w, s) = Put(v, s, o)
  BY DEF Delete
<1> HIDE DEF v
<1>3. v \in World /\ v.sess[s] \in SessionObject /\ ~v.sess[s].freed
  BY <1>1, ObjectOf DEF OnlyOf, Shut, SessionObject
<1>4. o \in SessionObject
  BY <1>3 DEF SessionObject
<1>5. o = Gone(w.sess[s])
  BY <1>1, ObjectOf DEF Shut, Gone, SessionObject
<1> HIDE DEF o
<1>6. OnlyOf(v, Put(v, s, o), s) /\ Put(v, s, o).sess[s] = o
  BY <1>3, <1>4, PutIs
<1> QED BY <1>1, <1>2, <1>5, <1>6 DEF OnlyOf

Ended(o) == [o EXCEPT !.pipeline_active = FALSE, !.app = "ended"]

LEMMA PipelineEndIs ==
  ASSUME NEW w \in World, NEW s \in Sessions, ~w.sess[s].freed, w.sess[s].pipeline_active
  PROVE  /\ OnlyOf(w, PipelineEnd(w, s), s)
         /\ PipelineEnd(w, s).sess[s] =
              IF w.sess[s].read_active THEN Ended(w.sess[s]) ELSE Gone(Ended(w.sess[s]))
<1> DEFINE o == Ended(w.sess[s])
           t == Put(w, s, o)
<1>1. PipelineEnd(w, s) = IF ~w.sess[s].read_active THEN Delete(t, s) ELSE t
  BY DEF PipelineEnd, Ended
<1>2. o \in SessionObject /\ o.freed = w.sess[s].freed
  BY ObjectOf DEF SessionObject, Ended, Apps
<1> HIDE DEF o
<1>3. OnlyOf(w, t, s) /\ t.sess[s] = o
  BY <1>2, PutIs
<1> HIDE DEF t
<1>4. OnlyOf(t, Delete(t, s), s) /\ Delete(t, s).sess[s] = Gone(o)
  BY <1>2, <1>3, DeleteIs DEF OnlyOf
<1> QED BY <1>1, <1>3, <1>4 DEF OnlyOf, o

Unread(o) == [o EXCEPT !.read_active = FALSE]

LEMMA ReadEndIs ==
  ASSUME NEW w \in World, NEW s \in Sessions, ~w.sess[s].freed, w.sess[s].read_active
  PROVE  /\ OnlyOf(w, ReadEnd(w, s), s)
         /\ ReadEnd(w, s).sess[s] =
              IF w.sess[s].pipeline_active THEN Unread(w.sess[s]) ELSE Gone(Unread(w.sess[s]))
<1> DEFINE o == Unread(w.sess[s])
           t == Put(w, s, o)
<1>1. ReadEnd(w, s) = IF ~w.sess[s].pipeline_active THEN Delete(t, s) ELSE t
  BY DEF ReadEnd, Unread
<1>2. o \in SessionObject /\ o.freed = w.sess[s].freed
  BY ObjectOf DEF SessionObject, Unread
<1> HIDE DEF o
<1>3. OnlyOf(w, t, s) /\ t.sess[s] = o
  BY <1>2, PutIs
<1> HIDE DEF t
<1>4. OnlyOf(t, Delete(t, s), s) /\ Delete(t, s).sess[s] = Gone(o)
  BY <1>2, <1>3, DeleteIs DEF OnlyOf
<1> QED BY <1>1, <1>3, <1>4 DEF OnlyOf, o

InError(o) == [o EXCEPT !.status = "errors", !.ready = 0]

\* Of a session whose read chain still runs.
LEMMA HandleSessionErrorIs ==
  ASSUME NEW w \in World, NEW s \in Sessions, ~w.sess[s].freed, w.sess[s].read_active,
         w.sess[s].app = "recv" => w.sess[s].pipeline_active
  PROVE  /\ OnlyOf(w, HandleSessionError(w, s), s)
         /\ HandleSessionError(w, s).sess[s] =
              Shut(IF w.sess[s].app = "recv" THEN Ended(InError(w.sess[s])) ELSE InError(w.sess[s]))
<1> DEFINE o == InError(w.sess[s])
           t == Put(w, s, o)
           v == OnError(w, s)
<1>1. v = IF w.sess[s].app = "recv" THEN PipelineEnd(t, s) ELSE t
  BY DEF OnError, InError
<1>2. /\ o \in SessionObject /\ o.freed = w.sess[s].freed
      /\ o.read_active = w.sess[s].read_active /\ o.pipeline_active = w.sess[s].pipeline_active
  BY ObjectOf DEF SessionObject, InError, Statuses
<1> HIDE DEF o
<1>3. OnlyOf(w, t, s) /\ t.sess[s] = o
  BY <1>2, PutIs
<1> HIDE DEF t
<1>4. w.sess[s].app = "recv" => OnlyOf(t, PipelineEnd(t, s), s) /\ PipelineEnd(t, s).sess[s] = Ended(o)
  BY <1>2, <1>3, PipelineEndIs DEF OnlyOf
<1>5. HandleSessionError(w, s) = DoClose(v, s)
  BY DEF HandleSessionError
<1>6. OnlyOf(w, v, s) /\ v.sess[s] = IF w.sess[s].app = "recv" THEN Ended(o) ELSE o
  BY <1>1, <1>3, <1>4 DEF OnlyOf
<1> HIDE DEF v
<1>7. ~v.sess[s].freed
  BY <1>2, <1>6 DEF Ended, SessionObject
<1>8. OnlyOf(v, DoClose(v, s), s) /\ DoClose(v, s).sess[s] = Shut(v.sess[s])
  BY <1>6, <1>7, DoCloseIs DEF OnlyOf
<1> QED BY <1>5, <1>6, <1>8 DEF OnlyOf, o

Served(o, n) ==
  IF n > 0 /\ o.app = "recv" THEN [o EXCEPT !.app = "open", !.ready = @ + n - 1]
                             ELSE [o EXCEPT !.ready = @ + n]

LEMMA OnRecvIs ==
  ASSUME NEW w \in World, NEW s \in Sessions, ~w.sess[s].freed, NEW n \in Nat
  PROVE  OnlyOf(w, OnRecv(w, s, n), s) /\ OnRecv(w, s, n).sess[s] = Served(w.sess[s], n)
<1> DEFINE o == w.sess[s]
           u == Served(o, n)
<1>1. o \in SessionObject /\ o.ready \in Nat
  BY ObjectOf DEF SessionObject
<1>2. OnRecv(w, s, n) = Put(w, s, u)
  BY DEF OnRecv, Served
<1>3. u \in SessionObject
  <2> HIDE DEF o
  <2>1. CASE n > 0 /\ o.app = "recv"
    <3> DEFINE m == o.ready + n - 1
    <3>1. m \in Nat
      BY <1>1, <2>1
    <3>2. u = [o EXCEPT !.app = "open", !.ready = m]
      BY <2>1 DEF Served
    <3> HIDE DEF m, u
    <3> QED BY <1>1, <3>1, <3>2 DEF SessionObject, Apps
  <2>2. CASE ~(n > 0 /\ o.app = "recv")
    BY <1>1, <2>2 DEF Served, SessionObject
  <2> QED BY <2>1, <2>2
<1> HIDE DEF u
<1> QED BY <1>2, <1>3, PutIs DEF u

-----------------------------------------------------------------------------

LEMMA ObjectsTyped ==
  ASSUME Objects \in World
  PROVE  /\ sess \in [Sessions -> SessionObject] /\ touched \in BOOLEAN
         /\ owner \in [1 .. Descriptors -> Sessions \cup {Closed}]
         /\ Objects.sess = sess /\ Objects.touched = touched
BY DEF Objects, World

\* A step that leaves v in the place of the objects, with another one for s.
LEMMA StepOf ==
  ASSUME Objects \in World, AliveInv, NEW s \in Sessions,
         NEW v, OnlyOf(Objects, v, s), Alive(v.sess[s]), Becomes(v)
  PROVE  /\ (Objects \in World)' /\ AliveInv'
         /\ sess'[s] = v.sess[s] /\ \A x \in Sessions : x # s => sess'[x] = sess[x]
<1>1. sess' = v.sess /\ owner' = v.owner /\ touched' = v.touched
  BY DEF Becomes
<1>2. (Objects \in World)'
  BY <1>1 DEF OnlyOf, Objects, World
<1>3. v.touched = touched /\ \A x \in Sessions : x # s => v.sess[x] = sess[x]
  BY ObjectsTyped DEF OnlyOf
<1> QED BY <1>1, <1>2, <1>3 DEF AliveInv

\* A deleted session has no user, and a pipeline that goes on keeps it.
LEMMA AliveFacts ==
  ASSUME Objects \in World, AliveInv, NEW s \in Sessions
  PROVE  /\ sess[s] \in SessionObject /\ Objects.sess[s] = sess[s] /\ Alive(sess[s])
         /\ sess[s].pipeline_active \/ sess[s].read_active => ~sess[s].freed
BY ObjectsTyped DEF AliveInv, Alive

LEMMA InitSessInv == TcpInit => SessInv
<1> SUFFICES ASSUME TcpInit PROVE SessInv
  OBVIOUS
<1>1. NewSession \in SessionObject /\ Alive(NewSession)
  BY SessionBounds DEF NewSession, SessionObject, Closed, Statuses, Apps, Alive
<1>2. Objects \in World
  BY <1>1 DEF TcpInit, Objects, World
<1>3. TcpTypeOK
  BY <1>2 DEF TcpInit, TcpTypeOK
<1>4. AliveInv
  BY <1>1 DEF TcpInit, AliveInv
<1>5. HolderInv
  BY DEF TcpInit, HolderInv
<1>6. ChainInv
  BY DEF TcpInit, ChainInv, NewSession
<1> QED BY <1>3, <1>4, <1>5, <1>6 DEF SessInv

-----------------------------------------------------------------------------
(* The steps of the pipelines. *)

LEMMA CreateKeeps ==
  ASSUME SessInv, UNCHANGED poller, NEW s \in Sessions, Create(s)
  PROVE  SessInv'
<1>0. TcpTypeOK /\ AliveInv /\ HolderInv /\ ChainInv /\ Objects \in World
  BY DEF SessInv, TcpTypeOK
<1>1. /\ sess[s].app = "none" /\ join_q' = join_q \cup {s}
      /\ UNCHANGED <<touched, kernel, reading, event, stop_q, down>>
  BY DEF Create
<1>2. PICK f \in 1 .. Descriptors :
        /\ sess' = [sess EXCEPT ![s].fd = f, ![s].app = "joining"]
        /\ owner' = [owner EXCEPT ![f] = s]
  BY DEF Create
<1> DEFINE o == [sess[s] EXCEPT !.fd = f, !.app = "joining"]
<1>3. sess[s] \in SessionObject /\ Alive(sess[s])
  BY <1>0, AliveFacts
<1>4. o \in SessionObject /\ Alive(o)
  <2>1. f \in 0 .. Descriptors /\ "joining" \in Apps
    BY SessionBounds DEF Apps
  <2>2. o \in SessionObject
    BY <1>3, <2>1 DEF SessionObject
  <2>3. ~sess[s].freed
    BY <1>1, <1>3 DEF Alive
  <2> QED BY <1>1, <1>3, <2>2, <2>3 DEF SessionObject, Alive
<1>5. sess' = [sess EXCEPT ![s] = o]
  BY <1>0, <1>2, <1>3, ObjectsTyped
<1>6. f # Closed /\ o.app = "joining" /\ o.fd = f /\ o.read_active = sess[s].read_active
      /\ o.status = sess[s].status
  BY <1>3, SessionBounds DEF Closed, SessionObject
<1> HIDE DEF o
<1>7. (Objects \in World)'
  <2>1. sess' \in [Sessions -> SessionObject]
    BY <1>0, <1>4, <1>5, ObjectsTyped
  <2>2. owner' \in [1 .. Descriptors -> Sessions \cup {Closed}]
    BY <1>0, <1>2, ObjectsTyped
  <2>3. touched' \in BOOLEAN
    BY <1>0, <1>1, ObjectsTyped
  <2> QED BY <2>1, <2>2, <2>3 DEF Objects, World
<1>8. sess'[s] = o /\ \A x \in Sessions : x # s => sess'[x] = sess[x]
  BY <1>0, <1>5, ObjectsTyped
<1>9. TcpTypeOK'
  BY <1>0, <1>1, <1>7 DEF TcpTypeOK, kernel
<1>10. AliveInv'
  BY <1>0, <1>1, <1>4, <1>8 DEF AliveInv
<1>11. HolderInv'
  BY <1>0, <1>1, <1>6, <1>8 DEF HolderInv, TcpTypeOK
<1>12. ChainInv'
  BY <1>0, <1>1, <1>6, <1>8 DEF ChainInv, kernel
<1> QED BY <1>9, <1>10, <1>11, <1>12 DEF SessInv

\* What a pipeline does with its open session, short of closing it under a
\* read chain that goes on.
LEMMA OpenStep ==
  ASSUME SessInv, NEW s \in Sessions, sess[s].app = "open",
         NEW v, OnlyOf(Objects, v, s), Becomes(v), Alive(v.sess[s]),
         v.sess[s].read_active = sess[s].read_active, v.sess[s].app \notin {"none", "joining"},
         sess[s].read_active => v.sess[s].fd = sess[s].fd /\ v.sess[s].status = sess[s].status,
         UNCHANGED <<poller, kernel, reading, event, join_q, down>>,
         stop_q' = stop_q \/ (stop_q' = stop_q \cup {s} /\ v.sess[s].app = "stopping")
  PROVE  SessInv'
<1>0. TcpTypeOK /\ AliveInv /\ HolderInv /\ ChainInv /\ Objects \in World
  BY DEF SessInv, TcpTypeOK
<1>1. /\ (Objects \in World)' /\ AliveInv'
      /\ sess'[s] = v.sess[s] /\ \A x \in Sessions : x # s => sess'[x] = sess[x]
  BY <1>0, StepOf
<1>2. TcpTypeOK'
  BY <1>0, <1>1 DEF TcpTypeOK, kernel
<1>3. HolderInv'
  <2>1. s \notin join_q /\ s \notin stop_q
    BY <1>0 DEF HolderInv
  <2> QED BY <1>0, <1>1, <2>1 DEF HolderInv, TcpTypeOK
<1>4. ChainInv'
  BY <1>0, <1>1 DEF ChainInv, kernel
<1> QED BY <1>1, <1>2, <1>3, <1>4 DEF SessInv

LEMMA EndOfOpen ==
  ASSUME SessInv, NEW s \in Sessions, sess[s].app = "open",
         Becomes(PipelineEnd(Objects, s)), UNCHANGED <<poller, kernel, reading, event, queues, down>>
  PROVE  SessInv'
<1> DEFINE v == PipelineEnd(Objects, s)
<1>0. Objects \in World /\ AliveInv
  BY DEF SessInv, TcpTypeOK
<1>1. /\ sess[s] \in SessionObject /\ Objects.sess[s] = sess[s] /\ Alive(sess[s])
      /\ sess[s].pipeline_active /\ ~sess[s].freed
  BY <1>0, AliveFacts DEF Alive
<1>2. /\ OnlyOf(Objects, v, s)
      /\ v.sess[s] = IF sess[s].read_active THEN Ended(sess[s]) ELSE Gone(Ended(sess[s]))
  BY <1>0, <1>1, PipelineEndIs
<1> HIDE DEF v
<1>3. /\ Alive(v.sess[s]) /\ v.sess[s].read_active = sess[s].read_active
      /\ v.sess[s].app = "ended"
      /\ sess[s].read_active => v.sess[s].fd = sess[s].fd /\ v.sess[s].status = sess[s].status
  BY <1>1, <1>2 DEF Alive, SessionObject, Ended, Gone
<1> QED BY <1>2, <1>3, OpenStep DEF v, queues

LEMMA RecvKeeps ==
  ASSUME SessInv, UNCHANGED poller, NEW s \in Sessions, Recv(s)
  PROVE  SessInv'
<1>1. sess[s].app = "open" /\ UNCHANGED <<kernel, reading, event, queues, down>>
  BY DEF Recv
<1>2. CASE sess[s].status # "normal"
  <2>1. Becomes(PipelineEnd(Objects, s))
    BY <1>2 DEF Recv
  <2> QED BY <1>1, <2>1, EndOfOpen
<1>3. CASE sess[s].status = "normal"
  <2>0. Objects \in World /\ AliveInv
    BY DEF SessInv, TcpTypeOK
  <2>1. /\ sess[s] \in SessionObject /\ Objects.sess[s] = sess[s] /\ Alive(sess[s])
        /\ ~sess[s].freed
    BY <1>1, <2>0, AliveFacts DEF Alive
  <2>2. PICK o : /\ Becomes(Put(Objects, s, o))
                 /\ o = IF sess[s].ready > 0 THEN [sess[s] EXCEPT !.ready = @ - 1]
                                             ELSE [sess[s] EXCEPT !.app = "recv"]
    BY <1>3 DEF Recv
  <2>3. o \in SessionObject
    <3>1. sess[s].ready > 0 => sess[s].ready - 1 \in Nat
      BY <2>1 DEF SessionObject
    <3> QED BY <2>1, <2>2, <3>1 DEF SessionObject, Apps
  <2>4. /\ Alive(o) /\ o.read_active = sess[s].read_active /\ o.app \in {"open", "recv"}
        /\ o.fd = sess[s].fd /\ o.status = sess[s].status
    BY <1>1, <2>1, <2>2 DEF Alive, SessionObject
  <2>5. OnlyOf(Objects, Put(Objects, s, o), s) /\ Put(Objects, s, o).sess[s] = o
    BY <2>0, <2>1, <2>3, PutIs
  <2> QED BY <1>1, <2>2, <2>4, <2>5, OpenStep DEF queues
<1> QED BY <1>2, <1>3

LEMMA StopKeeps ==
  ASSUME SessInv, UNCHANGED poller, NEW s \in Sessions, Stop(s)
  PROVE  SessInv'
<1>0. Objects \in World /\ AliveInv
  BY DEF SessInv, TcpTypeOK
<1>1. /\ sess[s].app = "open" /\ sess' = [sess EXCEPT ![s].app = "stopping"]
      /\ stop_q' = stop_q \cup {s}
      /\ UNCHANGED <<owner, touched, kernel, reading, event, join_q, down>>
  BY DEF Stop
<1>2. sess[s] \in SessionObject /\ Alive(sess[s])
  BY <1>0, AliveFacts
<1> DEFINE o == [sess[s] EXCEPT !.app = "stopping"]
           v == [sess |-> sess', owner |-> owner', touched |-> touched']
<1>3. /\ o \in SessionObject /\ Alive(o) /\ o.app = "stopping" /\ o.read_active = sess[s].read_active
      /\ o.fd = sess[s].fd /\ o.status = sess[s].status
  BY <1>1, <1>2 DEF Alive, SessionObject, Apps
<1>4. sess' = [sess EXCEPT ![s] = o]
  BY <1>1
<1> HIDE DEF o
<1>5. v \in World
  BY <1>0, <1>1, <1>3, <1>4, ObjectsTyped DEF World
<1>6. OnlyOf(Objects, v, s) /\ v.sess[s] = o
  BY <1>0, <1>1, <1>4, <1>5, ObjectsTyped DEF OnlyOf
<1>7. Becomes(v)
  BY DEF Becomes
<1> HIDE DEF v
<1> QED BY <1>1, <1>3, <1>6, <1>7, OpenStep

-----------------------------------------------------------------------------
(* The steps of the scheduler and of the peers. *)

\* A handler of the scheduler for session s, which leaves it in v.
LEMMA SessionStep ==
  ASSUME SessInv, NEW s \in Sessions, NEW v,
         OnlyOf(Objects, v, s), Becomes(v), Alive(v.sess[s]),
         UNCHANGED <<poller, hung_up, arrived, down>>, (inbox \in [Sessions -> Nat])',
         join_q' \subseteq join_q, s \notin join_q',
         stop_q' \subseteq stop_q, s \in stop_q' => v.sess[s].app = "stopping",
         reading' \subseteq Sessions, event' \subseteq reading',
         \A x \in Sessions \ {s} : (x \in reading' <=> x \in reading) /\ (x \in event' <=> x \in event),
         s \in reading' => /\ v.sess[s].read_active /\ v.sess[s].app \notin {"none", "joining"}
                          /\ (poller = "epoll" => v.sess[s].fd # Closed),
         v.sess[s].read_active /\ v.sess[s].app \in {"open", "recv", "stopping", "ended"}
           => s \in reading',
         s \in reading' /\ s \in hung_up => s \in event',
         poller = "epoll" /\ v.sess[s].status # "normal" => ~v.sess[s].read_active
  PROVE  SessInv'
<1>0. TcpTypeOK /\ AliveInv /\ HolderInv /\ ChainInv /\ Objects \in World
  BY DEF SessInv, TcpTypeOK
<1>1. /\ (Objects \in World)' /\ AliveInv'
      /\ sess'[s] = v.sess[s] /\ \A x \in Sessions : x # s => sess'[x] = sess[x]
  BY <1>0, StepOf
<1>2. TcpTypeOK'
  BY <1>0, <1>1 DEF TcpTypeOK
<1>3. HolderInv'
  <2>1. \A x \in join_q' : sess'[x].app = "joining" /\ sess'[x].fd # Closed
    BY <1>0, <1>1 DEF HolderInv, TcpTypeOK
  <2>2. \A x \in stop_q' : sess'[x].app = "stopping"
    BY <1>0, <1>1 DEF HolderInv, TcpTypeOK
  <2>3. \A x \in reading' : /\ sess'[x].read_active /\ sess'[x].app \notin {"none", "joining"}
                            /\ (poller = "epoll" => sess'[x].fd # Closed)
    BY <1>0, <1>1 DEF HolderInv, TcpTypeOK
  <2> QED BY <2>1, <2>2, <2>3 DEF HolderInv
<1>4. ChainInv'
  <2> SUFFICES ASSUME ~down, NEW x \in Sessions
               PROVE  /\ sess'[x].read_active /\ sess'[x].app \in {"open", "recv", "stopping", "ended"} => x \in reading'
                      /\ x \in reading' /\ x \in hung_up => x \in event'
                      /\ poller = "epoll" /\ sess'[x].status # "normal" => ~sess'[x].read_active
    BY DEF ChainInv
  <2>1. CASE x = s
    BY <1>1, <2>1
  <2>2. CASE x # s
    BY <1>0, <1>1, <2>2 DEF ChainInv
  <2> QED BY <2>1, <2>2
<1> QED BY <1>1, <1>2, <1>3, <1>4 DEF SessInv

LEMMA HandleJoinKeeps ==
  ASSUME SessInv, UNCHANGED poller, NEW s \in join_q, HandleJoin(s)
  PROVE  SessInv'
<1>0. TcpTypeOK /\ AliveInv /\ HolderInv /\ ChainInv /\ Objects \in World /\ s \in Sessions
  BY DEF SessInv, TcpTypeOK
<1>1. /\ ~down /\ join_q' = join_q \ {s} /\ s \notin stop_q /\ s \notin reading
      /\ UNCHANGED <<kernel, stop_q, down>>
  BY <1>0 DEF HandleJoin, HolderInv
<1>2. /\ sess[s] \in SessionObject /\ Objects.sess[s] = sess[s] /\ Alive(sess[s])
      /\ sess[s].app = "joining" /\ sess[s].pipeline_active /\ ~sess[s].freed /\ sess[s].fd # Closed
  BY <1>0, AliveFacts DEF Alive, HolderInv
<1>3. CASE /\ sess[s].status = "normal"
           /\ Becomes(Put(Objects, s, [sess[s] EXCEPT !.app = "open"]))
           /\ reading' = reading \cup {s}
           /\ event' = IF inbox[s] > 0 \/ s \in hung_up THEN event \cup {s} ELSE event
  <2> DEFINE o == [sess[s] EXCEPT !.app = "open"]
             v == Put(Objects, s, o)
  <2>1. /\ o \in SessionObject /\ Alive(o) /\ o.read_active /\ o.fd # Closed /\ o.app = "open"
        /\ o.status = "normal"
    BY <1>2, <1>3 DEF Alive, SessionObject, Apps
  <2>2. OnlyOf(Objects, v, s) /\ v.sess[s] = o
    BY <1>0, <1>2, <2>1, PutIs
  <2> HIDE DEF o
  <2>3. Becomes(v)
    BY <1>3 DEF o
  <2> HIDE DEF v
  <2>4. /\ reading' \subseteq Sessions /\ event' \subseteq reading'
        /\ \A x \in Sessions \ {s} : (x \in reading' <=> x \in reading) /\ (x \in event' <=> x \in event)
        /\ s \in reading' /\ s \in hung_up => s \in event'
    BY <1>0, <1>3 DEF TcpTypeOK
  <2> QED BY <1>0, <1>1, <1>3, <2>1, <2>2, <2>3, <2>4, SessionStep DEF kernel, TcpTypeOK
<1>4. CASE /\ sess[s].status # "normal" \/ poller = "epoll"
           /\ Settle([PipelineEnd(Objects, s) EXCEPT !.sess[s].app = "refused"])
  <2> DEFINE w == PipelineEnd(Objects, s)
             o == [w.sess[s] EXCEPT !.app = "refused"]
             v == [w EXCEPT !.sess[s].app = "refused"]
             u == [sess |-> [w.sess EXCEPT ![s] = o], owner |-> w.owner, touched |-> w.touched]
  <2>1. /\ OnlyOf(Objects, w, s)
        /\ w.sess[s] = IF sess[s].read_active THEN Ended(sess[s]) ELSE Gone(Ended(sess[s]))
    BY <1>0, <1>2, PipelineEndIs
  <2>2. Settle(v)
    BY <1>4
  <2> HIDE DEF w
  <2>3. w.sess[s] \in SessionObject /\ w \in World
    BY <1>0, <2>1, ObjectOf DEF OnlyOf
  <2>4. /\ o \in SessionObject /\ Alive(o) /\ o.app = "refused" /\ o.read_active = sess[s].read_active
        /\ o.read_active => o.status = sess[s].status
    BY <1>2, <2>1, <2>3 DEF Alive, Ended, Gone, SessionObject, Apps
  <2>5. v = u
    <3>1. w = [sess |-> w.sess, owner |-> w.owner, touched |-> w.touched]
      BY <2>3 DEF World
    <3> QED BY <3>1
  <2> HIDE DEF o, v
  <2>6. u \in World /\ u.sess[s] = o /\ \A x \in Sessions : x # s => u.sess[x] = w.sess[x]
    <3>1. w.sess \in [Sessions -> SessionObject] /\ w.touched \in BOOLEAN
          /\ w.owner \in [1 .. Descriptors -> Sessions \cup {Closed}]
      BY <2>3 DEF World
    <3> DEFINE c == [w.sess EXCEPT ![s] = o]
    <3>2. c \in [Sessions -> SessionObject] /\ c[s] = o /\ \A x \in Sessions : x # s => c[x] = w.sess[x]
      BY <1>0, <2>4, <3>1
    <3> HIDE DEF c
    <3>3. u = [sess |-> c, owner |-> w.owner, touched |-> w.touched]
      BY DEF c
    <3> HIDE DEF u
    <3> QED BY <3>1, <3>2, <3>3 DEF World
  <2> HIDE DEF u
  <2>7. OnlyOf(Objects, u, s)
    <3>1. u.touched = w.touched
      BY DEF u
    <3> QED BY <2>1, <2>6, <3>1 DEF OnlyOf
  <2>8. \A x \in Sessions \ {s} : u.sess[x] = sess[x]
    BY <1>0, <2>7, ObjectsTyped DEF OnlyOf
  <2>9. reading' = reading /\ event' = event /\ Becomes(u)
    <3>1. Registered(u) = reading
      BY <1>0, <1>1, <2>8 DEF Registered, HolderInv, TcpTypeOK
    <3> QED BY <1>0, <2>2, <2>5, <3>1 DEF Settle, TcpTypeOK
  <2>10. poller = "epoll" /\ o.status # "normal" => ~o.read_active
    BY <1>0, <1>1, <2>4 DEF ChainInv
  <2> QED BY <1>0, <1>1, <2>4, <2>6, <2>7, <2>9, <2>10, SessionStep DEF kernel, TcpTypeOK
<1> QED BY <1>3, <1>4 DEF HandleJoin

LEMMA RegisteredIs ==
  ASSUME SessInv, NEW s \in Sessions, NEW v, OnlyOf(Objects, v, s)
  PROVE  /\ Registered(v) \subseteq reading
         /\ \A x \in Sessions \ {s} : x \in Registered(v) <=> x \in reading
         /\ s \in Registered(v) <=> s \in reading /\ (poller = "epoll" => v.sess[s].fd # Closed)
<1>1. Objects \in World /\ HolderInv /\ poller \in {"epoll", "io_uring"} /\ reading \subseteq Sessions
  BY DEF SessInv, TcpTypeOK
<1>2. \A x \in Sessions \ {s} : v.sess[x] = sess[x]
  BY <1>1, ObjectsTyped DEF OnlyOf
<1> QED BY <1>1, <1>2 DEF Registered, HolderInv

LEMMA HandleStopKeeps ==
  ASSUME SessInv, UNCHANGED poller, NEW s \in stop_q, HandleStop(s)
  PROVE  SessInv'
<1>0. TcpTypeOK /\ AliveInv /\ HolderInv /\ ChainInv /\ Objects \in World /\ s \in Sessions
  BY DEF SessInv, TcpTypeOK
<1>1. /\ ~down /\ stop_q' = stop_q \ {s} /\ s \notin join_q
      /\ UNCHANGED <<kernel, join_q, down>>
  BY <1>0 DEF HandleStop, HolderInv
<1>2. /\ sess[s] \in SessionObject /\ Objects.sess[s] = sess[s] /\ Alive(sess[s])
      /\ sess[s].app = "stopping" /\ sess[s].pipeline_active /\ ~sess[s].freed
  BY <1>0, AliveFacts DEF Alive, HolderInv
<1>3. PICK v : /\ Settle(v) /\ OnlyOf(Objects, v, s) /\ Alive(v.sess[s]) /\ v.sess[s].app = "ended"
               /\ v.sess[s].read_active => sess[s].read_active
               /\ poller # "epoll" /\ sess[s].read_active => v.sess[s].read_active
               /\ poller = "epoll" => ~v.sess[s].read_active /\ v.sess[s].fd = Closed
  <2>1. CASE sess[s].status # "normal"
    <3> DEFINE v == PipelineEnd(Objects, s)
    <3>1. Settle(v)
      BY <2>1 DEF HandleStop
    <3>2. /\ OnlyOf(Objects, v, s)
          /\ v.sess[s] = IF sess[s].read_active THEN Ended(sess[s]) ELSE Gone(Ended(sess[s]))
      BY <1>0, <1>2, PipelineEndIs
    <3> HIDE DEF v
    <3>3. poller = "epoll" => ~sess[s].read_active
      BY <1>0, <1>1, <2>1 DEF ChainInv
    <3>4. /\ Alive(v.sess[s]) /\ v.sess[s].app = "ended" /\ v.sess[s].read_active = sess[s].read_active
          /\ ~sess[s].read_active => v.sess[s].fd = Closed
      BY <1>2, <3>2 DEF Alive, Ended, Gone, SessionObject
    <3> QED BY <3>1, <3>2, <3>3, <3>4
  <2>2. CASE sess[s].status = "normal"
    <3> DEFINE w == HandleSessionError(Objects, s)
               u == ReadEnd(w, s)
               o == Shut(InError(sess[s]))
    <3>1. sess[s].read_active
      BY <1>2, <2>2 DEF Alive
    <3>2. OnlyOf(Objects, w, s) /\ w.sess[s] = o
      BY <1>0, <1>2, <3>1, HandleSessionErrorIs
    <3>3. /\ o.pipeline_active /\ o.read_active /\ ~o.freed /\ o.fd = Closed /\ o.status = "closed"
      BY <1>2, <3>1 DEF Shut, InError, SessionObject
    <3> HIDE DEF w, o
    <3>4. OnlyOf(w, u, s) /\ u.sess[s] = Unread(o)
      BY <1>0, <3>2, <3>3, ReadEndIs DEF OnlyOf
    <3> HIDE DEF u
    <3>5. o \in SessionObject
      BY <1>0, <3>2, ObjectOf DEF OnlyOf
    <3>6. CASE poller = "epoll"
      <4>1. Unread(o).pipeline_active /\ ~Unread(o).read_active /\ ~Unread(o).freed
        BY <3>3, <3>5 DEF Unread, SessionObject
      <4>2. OnlyOf(u, PipelineEnd(u, s), s) /\ PipelineEnd(u, s).sess[s] = Gone(Ended(Unread(o)))
        BY <1>0, <3>2, <3>4, <4>1, PipelineEndIs DEF OnlyOf
      <4>3. OnlyOf(Objects, PipelineEnd(u, s), s)
        BY <3>2, <3>4, <4>2 DEF OnlyOf
      <4>4. Settle(PipelineEnd(u, s))
        BY <2>2, <3>6 DEF HandleStop, StopRead, w, u
      <4>5. /\ Alive(Gone(Ended(Unread(o)))) /\ Gone(Ended(Unread(o))).app = "ended"
            /\ ~Gone(Ended(Unread(o))).read_active /\ Gone(Ended(Unread(o))).fd = Closed
        BY <3>3, <3>5 DEF Gone, Ended, Unread, Alive, SessionObject
      <4> QED BY <3>6, <4>2, <4>3, <4>4, <4>5
    <3>7. CASE poller # "epoll"
      <4>2. OnlyOf(w, PipelineEnd(w, s), s) /\ PipelineEnd(w, s).sess[s] = Ended(o)
        BY <1>0, <3>2, <3>3, PipelineEndIs DEF OnlyOf
      <4>3. OnlyOf(Objects, PipelineEnd(w, s), s)
        BY <3>2, <4>2 DEF OnlyOf
      <4>4. Settle(PipelineEnd(w, s))
        BY <2>2, <3>7 DEF HandleStop, StopRead, w
      <4>5. Alive(Ended(o)) /\ Ended(o).app = "ended" /\ Ended(o).read_active
        BY <3>3, <3>5 DEF Ended, Alive, SessionObject
      <4> QED BY <3>1, <3>7, <4>2, <4>3, <4>4, <4>5
    <3> QED BY <3>6, <3>7
  <2> QED BY <2>1, <2>2
<1>4. /\ Becomes(v) /\ reading' = Registered(v) /\ event' = event \cap Registered(v)
  BY <1>3 DEF Settle
<1>5. /\ reading' \subseteq Sessions /\ event' \subseteq reading'
      /\ \A x \in Sessions \ {s} : (x \in reading' <=> x \in reading) /\ (x \in event' <=> x \in event)
      /\ s \in reading' <=> s \in reading /\ (poller = "epoll" => v.sess[s].fd # Closed)
  BY <1>0, <1>3, <1>4, RegisteredIs DEF TcpTypeOK
<1>6. /\ s \in reading' => v.sess[s].read_active /\ poller # "epoll"
      /\ v.sess[s].read_active => s \in reading'
      /\ s \in reading' /\ s \in hung_up => s \in event'
  BY <1>0, <1>1, <1>2, <1>3, <1>4, <1>5 DEF HolderInv, ChainInv
<1> QED BY <1>0, <1>1, <1>3, <1>4, <1>5, <1>6, SessionStep DEF kernel, TcpTypeOK

LEMMA ServedFacts ==
  ASSUME NEW o \in SessionObject, Alive(o), NEW n \in Nat
  PROVE  LET u == Served(o, n)
         IN /\ Alive(u) /\ u.read_active = o.read_active /\ u.freed = o.freed
            /\ u.pipeline_active = o.pipeline_active /\ u.fd = o.fd /\ u.status = o.status
            /\ u.app = o.app \/ (o.app = "recv" /\ u.app = "open")
BY DEF Served, Alive, SessionObject

\* An error or the peer's end: the session is closed and its read chain ends.
LEMMA ErrorEnds ==
  ASSUME NEW w \in World, NEW s \in Sessions, Alive(w.sess[s]), w.sess[s].read_active
  PROVE  LET v == ReadEnd(HandleSessionError(w, s), s)
         IN /\ OnlyOf(w, v, s) /\ Alive(v.sess[s]) /\ ~v.sess[s].read_active
            /\ v.sess[s].fd = Closed
            /\ w.sess[s].app = "stopping" => v.sess[s].app = "stopping"
<1> DEFINE u == HandleSessionError(w, s)
           v == ReadEnd(u, s)
           f == InError(w.sess[s])
           o == Shut(IF w.sess[s].app = "recv" THEN Ended(f) ELSE f)
<1>1. w.sess[s] \in SessionObject /\ ~w.sess[s].freed
      /\ (w.sess[s].app = "recv" => w.sess[s].pipeline_active)
  BY ObjectOf DEF Alive
<1>2. OnlyOf(w, u, s) /\ u.sess[s] = o
  BY <1>1, HandleSessionErrorIs
<1>3. u.sess[s] \in SessionObject
  BY <1>2, ObjectOf DEF OnlyOf
<1>4. /\ o.read_active /\ ~o.freed /\ o.fd = Closed /\ o.status = "closed"
      /\ o.pipeline_active <=> o.app \in {"none", "joining", "open", "recv", "stopping"}
      /\ w.sess[s].app = "stopping" => o.app = "stopping"
  BY <1>1 DEF Shut, Ended, InError, SessionObject, Alive
<1> HIDE DEF u, o
<1>5. /\ OnlyOf(u, v, s)
      /\ v.sess[s] = IF o.pipeline_active THEN Unread(o) ELSE Gone(Unread(o))
  BY <1>2, <1>4, ReadEndIs DEF OnlyOf
<1> HIDE DEF v
<1>6. /\ Alive(v.sess[s]) /\ ~v.sess[s].read_active /\ v.sess[s].fd = Closed
      /\ v.sess[s].app = o.app
  BY <1>2, <1>3, <1>4, <1>5 DEF Unread, Gone, SessionObject, Alive
<1>7. OnlyOf(w, v, s)
  BY <1>2, <1>5 DEF OnlyOf
<1> QED BY <1>4, <1>6, <1>7 DEF u, v

LEMMA EventFacts ==
  ASSUME SessInv, NEW s \in event
  PROVE  /\ s \in Sessions /\ s \in reading /\ s \notin join_q
         /\ Objects \in World /\ sess[s] \in SessionObject /\ Objects.sess[s] = sess[s]
         /\ Alive(sess[s]) /\ ~sess[s].freed /\ sess[s].read_active
         /\ sess[s].app \notin {"none", "joining"} /\ (poller = "epoll" => sess[s].fd # Closed)
         /\ s \in stop_q => sess[s].app = "stopping"
         /\ inbox[s] \in Nat
<1>1. s \in Sessions /\ s \in reading /\ Objects \in World /\ inbox[s] \in Nat
      /\ AliveInv /\ HolderInv
  BY DEF SessInv, TcpTypeOK
<1>2. sess[s] \in SessionObject /\ Objects.sess[s] = sess[s] /\ Alive(sess[s])
  BY <1>1, AliveFacts
<1> QED BY <1>1, <1>2 DEF HolderInv, Alive

LEMMA EpollEventKeeps ==
  ASSUME SessInv, UNCHANGED poller, NEW s \in event, EpollEvent(s)
  PROVE  SessInv'
<1> DEFINE t == OnRecv(Objects, s, inbox[s])
           w == IF s \in hung_up THEN ReadEnd(HandleSessionError(t, s), s) ELSE t
<1>0. TcpTypeOK /\ ChainInv
  BY DEF SessInv
<1>1. /\ poller = "epoll" /\ ~down /\ Becomes(w) /\ reading' = Registered(w) /\ event' = event \ {s}
      /\ inbox' = [inbox EXCEPT ![s] = 0] /\ UNCHANGED <<hung_up, arrived, queues, down>>
  BY DEF EpollEvent
<1>2. /\ s \in Sessions /\ s \in reading /\ s \notin join_q
      /\ Objects \in World /\ sess[s] \in SessionObject /\ Objects.sess[s] = sess[s]
      /\ Alive(sess[s]) /\ ~sess[s].freed /\ sess[s].read_active
      /\ sess[s].app \notin {"none", "joining"} /\ (poller = "epoll" => sess[s].fd # Closed)
      /\ s \in stop_q => sess[s].app = "stopping"
      /\ inbox[s] \in Nat
  BY EventFacts
<1>3. OnlyOf(Objects, t, s) /\ t.sess[s] = Served(sess[s], inbox[s])
  BY <1>2, OnRecvIs
<1>4. /\ Alive(t.sess[s]) /\ t.sess[s].read_active /\ t.sess[s].fd = sess[s].fd
      /\ t.sess[s].status = sess[s].status
      /\ t.sess[s].app = sess[s].app \/ (sess[s].app = "recv" /\ t.sess[s].app = "open")
  BY <1>2, <1>3, ServedFacts
<1> HIDE DEF t
<1>5. /\ OnlyOf(Objects, w, s) /\ Alive(w.sess[s])
      /\ s \in stop_q => w.sess[s].app = "stopping"
      /\ IF s \in hung_up THEN ~w.sess[s].read_active /\ w.sess[s].fd = Closed
         ELSE w.sess[s] = t.sess[s]
  <2>1. CASE s \in hung_up
    <3> DEFINE v == ReadEnd(HandleSessionError(t, s), s)
    <3>1. /\ OnlyOf(t, v, s) /\ Alive(v.sess[s]) /\ ~v.sess[s].read_active /\ v.sess[s].fd = Closed
          /\ t.sess[s].app = "stopping" => v.sess[s].app = "stopping"
      BY <1>2, <1>3, <1>4, ErrorEnds DEF OnlyOf
    <3>2. w = v
      BY <2>1
    <3> HIDE DEF v, w
    <3> QED BY <1>2, <1>3, <1>4, <2>1, <3>1, <3>2 DEF OnlyOf
  <2>2. CASE s \notin hung_up
    BY <1>2, <1>3, <1>4, <2>2
  <2> QED BY <2>1, <2>2
<1> HIDE DEF w
<1>6. /\ reading' \subseteq Sessions
      /\ \A x \in Sessions \ {s} : (x \in reading' <=> x \in reading) /\ (x \in event' <=> x \in event)
      /\ s \in reading' <=> s \in reading /\ w.sess[s].fd # Closed
  BY <1>0, <1>1, <1>2, <1>5, RegisteredIs DEF TcpTypeOK
<1>7. event' \subseteq reading'
  BY <1>0, <1>1, <1>6 DEF TcpTypeOK
<1>8. /\ s \in reading' => s \notin hung_up /\ w.sess[s].read_active /\ w.sess[s].fd # Closed
                           /\ w.sess[s].app \notin {"none", "joining"}
      /\ w.sess[s].read_active => s \in reading'
  BY <1>1, <1>2, <1>4, <1>5, <1>6
<1>9. w.sess[s].status # "normal" => ~w.sess[s].read_active
  BY <1>0, <1>1, <1>2, <1>4, <1>5 DEF ChainInv
<1>10. (inbox \in [Sessions -> Nat])'
  BY <1>0, <1>1 DEF TcpTypeOK
<1>11. UNCHANGED <<poller, hung_up, arrived, down, join_q, stop_q>>
  BY <1>1 DEF queues
<1> QED BY <1>1, <1>2, <1>5, <1>6, <1>7, <1>8, <1>9, <1>10, <1>11, SessionStep

LEMMA ReadCompletesKeeps ==
  ASSUME SessInv, UNCHANGED poller, NEW s \in event, ReadCompletes(s)
  PROVE  SessInv'
<1> DEFINE t == OnRecv(Objects, s, inbox[s])
           more == inbox[s] > 0 /\ sess[s].status = "normal"
           w == IF inbox[s] = 0 THEN ReadEnd(HandleSessionError(Objects, s), s)
                ELSE IF more THEN t ELSE ReadEnd(t, s)
<1>0. TcpTypeOK /\ ChainInv
  BY DEF SessInv
<1>1. /\ poller = "io_uring" /\ ~down /\ Becomes(w)
      /\ reading' = IF more THEN reading ELSE reading \ {s}
      /\ event' = IF more /\ s \in hung_up THEN event ELSE event \ {s}
      /\ inbox' = [inbox EXCEPT ![s] = 0] /\ UNCHANGED <<hung_up, arrived, queues, down>>
  BY DEF ReadCompletes
<1>2. /\ s \in Sessions /\ s \in reading /\ s \notin join_q
      /\ Objects \in World /\ sess[s] \in SessionObject /\ Objects.sess[s] = sess[s]
      /\ Alive(sess[s]) /\ ~sess[s].freed /\ sess[s].read_active
      /\ sess[s].app \notin {"none", "joining"} /\ (poller = "epoll" => sess[s].fd # Closed)
      /\ s \in stop_q => sess[s].app = "stopping"
      /\ inbox[s] \in Nat
  BY EventFacts
<1>3. OnlyOf(Objects, t, s) /\ t.sess[s] = Served(sess[s], inbox[s])
  BY <1>2, OnRecvIs
<1>4. /\ Alive(t.sess[s]) /\ t.sess[s].read_active /\ ~t.sess[s].freed
      /\ t.sess[s].pipeline_active = sess[s].pipeline_active
      /\ t.sess[s].status = sess[s].status
      /\ t.sess[s].app = sess[s].app \/ (sess[s].app = "recv" /\ t.sess[s].app = "open")
  BY <1>2, <1>3, ServedFacts
<1> HIDE DEF t
<1>5. /\ OnlyOf(Objects, w, s) /\ Alive(w.sess[s])
      /\ s \in stop_q => w.sess[s].app = "stopping"
      /\ IF more THEN w.sess[s] = t.sess[s] ELSE ~w.sess[s].read_active
  <2>1. CASE inbox[s] = 0
    <3> DEFINE v == ReadEnd(HandleSessionError(Objects, s), s)
    <3>1. /\ OnlyOf(Objects, v, s) /\ Alive(v.sess[s]) /\ ~v.sess[s].read_active
          /\ sess[s].app = "stopping" => v.sess[s].app = "stopping"
      BY <1>2, ErrorEnds
    <3>2. w = v /\ ~more
      BY <2>1
    <3> HIDE DEF v, w
    <3> QED BY <1>2, <3>1, <3>2
  <2>2. CASE more
    <3>1. w = t
      BY <2>2
    <3> HIDE DEF w
    <3> QED BY <1>2, <1>3, <1>4, <2>2, <3>1
  <2>3. CASE inbox[s] # 0 /\ ~more
    <3>1. sess[s].status # "normal"
      BY <1>2, <2>3
    <3>2. w = ReadEnd(t, s)
      BY <2>3
    <3>3. /\ OnlyOf(t, ReadEnd(t, s), s)
          /\ ReadEnd(t, s).sess[s] = IF t.sess[s].pipeline_active THEN Unread(t.sess[s]) ELSE Gone(Unread(t.sess[s]))
      BY <1>2, <1>3, <1>4, ReadEndIs DEF OnlyOf
    <3> HIDE DEF w, more
    <3>4. OnlyOf(Objects, w, s)
      BY <1>3, <3>2, <3>3 DEF OnlyOf
    <3>5. t.sess[s] \in SessionObject
      BY <1>2, <1>3, ObjectOf DEF OnlyOf
    <3>6. Alive(w.sess[s]) /\ ~w.sess[s].read_active /\ w.sess[s].app = t.sess[s].app
      BY <1>4, <3>1, <3>2, <3>3, <3>5 DEF Alive, Unread, Gone, SessionObject
    <3> QED BY <1>2, <1>4, <2>3, <3>4, <3>6
  <2> QED BY <2>1, <2>2, <2>3
<1> HIDE DEF w, more
<1>6. /\ reading' \subseteq Sessions /\ event' \subseteq reading'
      /\ \A x \in Sessions \ {s} : (x \in reading' <=> x \in reading) /\ (x \in event' <=> x \in event)
      /\ s \in reading' <=> more
      /\ s \in reading' /\ s \in hung_up => s \in event'
  BY <1>0, <1>1, <1>2 DEF TcpTypeOK
<1>7. (inbox \in [Sessions -> Nat])'
  BY <1>0, <1>1 DEF TcpTypeOK
<1>8. UNCHANGED <<poller, hung_up, arrived, down, join_q, stop_q>>
  BY <1>1 DEF queues
<1> QED BY <1>1, <1>2, <1>4, <1>5, <1>6, <1>7, <1>8, SessionStep

-----------------------------------------------------------------------------
(* The shutdown, and the steps that leave the sessions as they are. *)

\* A pipeline that ends, of a session that is alive.
LEMMA EndFacts ==
  ASSUME NEW w \in World, NEW s \in Sessions, Alive(w.sess[s]), w.sess[s].pipeline_active
  PROVE  LET v == PipelineEnd(w, s)
         IN /\ OnlyOf(w, v, s) /\ Alive(v.sess[s]) /\ v.sess[s].app = "ended"
            /\ v.sess[s].read_active = w.sess[s].read_active
            /\ w.sess[s].read_active => v.sess[s].fd = w.sess[s].fd
<1>1. w.sess[s] \in SessionObject /\ ~w.sess[s].freed
  BY ObjectOf DEF Alive
<1>2. /\ OnlyOf(w, PipelineEnd(w, s), s)
      /\ PipelineEnd(w, s).sess[s] =
           IF w.sess[s].read_active THEN Ended(w.sess[s]) ELSE Gone(Ended(w.sess[s]))
  BY <1>1, PipelineEndIs
<1>3. \A o : o = (IF w.sess[s].read_active THEN Ended(w.sess[s]) ELSE Gone(Ended(w.sess[s])))
         => /\ Alive(o) /\ o.app = "ended" /\ o.read_active = w.sess[s].read_active
            /\ w.sess[s].read_active => o.fd = w.sess[s].fd
  BY <1>1 DEF Alive, SessionObject, Ended, Gone
<1> QED BY <1>2, <1>3

LEMMA DrainSessionsKeeps ==
  ASSUME SessInv, UNCHANGED poller, DrainSessions
  PROVE  SessInv'
<1> DEFINE S == join_q \cup stop_q
           P(s) == PipelineEnd(Objects, s)
           v == EndAll(Objects, S)
<1>0. TcpTypeOK /\ AliveInv /\ HolderInv /\ Objects \in World /\ S \subseteq Sessions
  BY DEF SessInv, TcpTypeOK
<1>1. /\ down /\ Settle(v) /\ join_q' = {} /\ stop_q' = {} /\ UNCHANGED <<kernel, down>>
  BY DEF DrainSessions
<1>2. \A s \in S : /\ OnlyOf(Objects, P(s), s) /\ Alive(P(s).sess[s]) /\ P(s).sess[s].app = "ended"
                   /\ P(s).sess[s].read_active = sess[s].read_active
                   /\ sess[s].read_active => P(s).sess[s].fd = sess[s].fd
  <2> SUFFICES ASSUME NEW s \in S
               PROVE  /\ OnlyOf(Objects, P(s), s) /\ Alive(P(s).sess[s]) /\ P(s).sess[s].app = "ended"
                      /\ P(s).sess[s].read_active = sess[s].read_active
                      /\ sess[s].read_active => P(s).sess[s].fd = sess[s].fd
    OBVIOUS
  <2>1. s \in Sessions /\ sess[s].app \in {"joining", "stopping"}
    BY <1>0 DEF HolderInv
  <2>2. Objects.sess[s] = sess[s] /\ Alive(sess[s]) /\ sess[s].pipeline_active
    BY <1>0, <2>1, AliveFacts DEF Alive
  <2> QED BY <1>0, <2>1, <2>2, EndFacts
<1> HIDE DEF P
<1>3. /\ \A s \in S : v.sess[s] = P(s).sess[s]
      /\ \A s \in Sessions \ S : v.sess[s] = sess[s]
      /\ v.sess = [s \in Sessions |-> v.sess[s]]
      /\ v.touched = (touched \/ \E s \in S : P(s).touched)
  <2> DEFINE f == [s \in Sessions |-> IF s \in S THEN P(s).sess[s] ELSE Objects.sess[s]]
  <2>1. v.sess = f /\ v.touched = (Objects.touched \/ \E s \in S : P(s).touched)
    BY DEF EndAll, P
  <2>2. f = [s \in Sessions |-> f[s]] /\ (\A s \in S : f[s] = P(s).sess[s])
        /\ \A s \in Sessions \ S : f[s] = Objects.sess[s]
    BY <1>0
  <2> HIDE DEF f, v, S
  <2> QED BY <1>0, <2>1, <2>2, ObjectsTyped
<1>4. v.owner \in [1 .. Descriptors -> Sessions \cup {Closed}]
  <2> DEFINE g == [d \in DOMAIN owner |-> IF \E s \in S : P(s).owner[d] = Closed THEN Closed ELSE owner[d]]
  <2>1. v.owner = g
    BY DEF EndAll, P, Objects
  <2>2. g \in [1 .. Descriptors -> Sessions \cup {Closed}]
    BY <1>0, ObjectsTyped
  <2> QED BY <2>1, <2>2
<1>5. /\ sess' = v.sess /\ owner' = v.owner /\ touched' = v.touched
      /\ reading' = Registered(v) /\ event' = event \cap reading'
  BY <1>1 DEF Settle, Becomes
<1> HIDE DEF v, S
<1>6. \A s \in Sessions : /\ v.sess[s] \in SessionObject /\ Alive(v.sess[s])
                          /\ v.sess[s].read_active = sess[s].read_active
                          /\ sess[s].read_active => v.sess[s].fd = sess[s].fd
                          /\ v.sess[s] = sess[s] \/ v.sess[s].app = "ended"
  <2>1. \A s \in S : P(s).sess[s] \in SessionObject
    BY <1>0, <1>2, ObjectOf DEF OnlyOf
  <2> QED BY <1>0, <1>2, <1>3, <2>1, AliveFacts
<1>7. ~v.touched
  BY <1>0, <1>2, <1>3, ObjectsTyped DEF OnlyOf, AliveInv
<1>8. v.sess \in [Sessions -> SessionObject]
  BY <1>3, <1>6
<1>9. (Objects \in World)'
  <2>1. /\ sess' \in [Sessions -> SessionObject] /\ touched' \in BOOLEAN
        /\ owner' \in [1 .. Descriptors -> Sessions \cup {Closed}]
    <3>1. v.touched \in BOOLEAN
      BY <1>0, <1>2, <1>3, ObjectsTyped DEF OnlyOf
    <3> QED BY <1>4, <1>5, <1>8, <3>1
  <2> QED BY <2>1 DEF Objects, World
<1>10. reading' \subseteq reading
  BY <1>5 DEF Registered
<1>11. TcpTypeOK'
  BY <1>0, <1>1, <1>5, <1>9, <1>10 DEF TcpTypeOK, kernel
<1>12. AliveInv'
  BY <1>5, <1>6, <1>7 DEF AliveInv
<1>13. HolderInv'
  BY <1>0, <1>1, <1>5, <1>6, <1>10 DEF HolderInv, TcpTypeOK
<1>14. ChainInv'
  BY <1>1 DEF ChainInv
<1> QED BY <1>11, <1>12, <1>13, <1>14 DEF SessInv

\* The peer's steps, the sends and the shutdown.
LEMMA QuietStep ==
  ASSUME SessInv, UNCHANGED <<poller, objects, reading, join_q, stop_q>>,
         inbox' \in [Sessions -> Nat], arrived' \in [Sessions -> Nat],
         hung_up' \subseteq Sessions, down' \in BOOLEAN, down => down',
         event' \subseteq reading, event \subseteq event',
         \A s \in reading : s \in hung_up' => s \in hung_up \/ s \in event'
  PROVE  SessInv'
<1>0. TcpTypeOK /\ AliveInv /\ HolderInv /\ ChainInv /\ sess' = sess
  BY DEF SessInv, objects
<1>1. TcpTypeOK'
  BY <1>0 DEF TcpTypeOK, objects, Objects
<1>2. AliveInv' /\ HolderInv'
  BY <1>0 DEF AliveInv, HolderInv, objects
<1>3. ChainInv'
  BY <1>0 DEF ChainInv, TcpTypeOK
<1> QED BY <1>0, <1>1, <1>2, <1>3 DEF SessInv

LEMMA PeerKeeps ==
  ASSUME SessInv, UNCHANGED poller, NEW s \in Sessions, Peer(s)
  PROVE  SessInv'
<1>0. TcpTypeOK
  BY DEF SessInv
<1>1. /\ event' = IF s \in reading THEN event \cup {s} ELSE event
      /\ UNCHANGED <<objects, reading, join_q, stop_q, down>>
      /\ hung_up' \subseteq hung_up \cup {s}
  BY DEF Peer, FrameArrives, HangUp, queues
<1>2. arrived' \in [Sessions -> Nat] /\ inbox' \in [Sessions -> Nat]
  BY <1>0 DEF Peer, FrameArrives, HangUp, TcpTypeOK
<1> QED BY <1>0, <1>1, <1>2, QuietStep DEF TcpTypeOK

LEMMA WritesKeep ==
  ASSUME SessInv, UNCHANGED poller,
         Writes \/ SessionShutdown \/ (\E s \in Sessions : Send(s))
  PROVE  SessInv'
<1>0. TcpTypeOK
  BY DEF SessInv
<1>1. /\ UNCHANGED <<objects, kernel, reading, event, join_q, stop_q>>
      /\ down' = down \/ down' = TRUE
  BY DEF Writes, DrainSends, SubmitWrite, WriteNow, WriteCompletes, SessionShutdown, Send, queues
<1> QED BY <1>0, <1>1, QuietStep DEF TcpTypeOK, kernel

LEMMA NextSessInv == ASSUME SessInv, [TcpNext]_tcpVars PROVE SessInv'
<1>1. CASE UNCHANGED tcpVars
  BY <1>1, QuietStep DEF tcpVars, kernel, queues, SessInv, TcpTypeOK
<1>2. CASE TcpNext
  <2>1. UNCHANGED poller
    BY <1>2 DEF TcpNext
  <2>2. CASE Requests
    BY <2>1, <2>2, HandleJoinKeeps, HandleStopKeeps, DrainSessionsKeeps DEF Requests
  <2>3. CASE Reads
    BY <2>1, <2>3, EpollEventKeeps, ReadCompletesKeeps DEF Reads
  <2>4. CASE Writes \/ SessionShutdown
    BY <2>1, <2>4, WritesKeep
  <2>5. ASSUME NEW s \in Sessions, Pipeline(s) PROVE SessInv'
    <3>1. CASE Create(s)
      BY <2>1, <3>1, CreateKeeps
    <3>2. CASE Recv(s)
      BY <2>1, <3>2, RecvKeeps
    <3>3. CASE Send(s)
      BY <2>1, <3>3, WritesKeep
    <3>4. CASE Stop(s)
      BY <2>1, <3>4, StopKeeps
    <3>5. CASE End(s)
      BY <2>1, <3>5, EndOfOpen DEF End
    <3> QED BY <2>5, <3>1, <3>2, <3>3, <3>4, <3>5 DEF Pipeline
  <2>6. ASSUME NEW s \in Sessions, Peer(s) PROVE SessInv'
    BY <2>1, <2>6, PeerKeeps
  <2> QED BY <1>2, <2>2, <2>3, <2>4, <2>5, <2>6 DEF TcpNext
<1> QED BY <1>1, <1>2

(* Every session object lives exactly as long as one of its two users, the *)
(* pipeline and the read chain, and a pointer to it in a queue, in the     *)
(* epoll set or in the ring is one of theirs.                              *)
THEOREM SessInvHolds == TcpSpec => []SessInv
<1>1. TcpInit => SessInv
  BY InitSessInv
<1>2. SessInv /\ [TcpNext]_tcpVars => SessInv'
  BY NextSessInv
<1> QED BY <1>1, <1>2, PTL DEF TcpSpec

(* session_lifecycle: no handler of either scheduler uses a session after  *)
(* the later of its two ends has deleted it.                               *)
THEOREM NobodyUsesADeletedSession == TcpSpec => []NoSessionUseAfterFree
<1>1. SessInv => NoSessionUseAfterFree
  BY DEF SessInv, AliveInv, NoSessionUseAfterFree
<1> QED BY <1>1, SessInvHolds, PTL

(* A session whose pipeline has ended is deleted, or the event or read     *)
(* that will end its read chain is still to come: no session leaks.        *)
THEOREM EndedSessionsAreReclaimed == TcpSpec => []SessionsReclaimed
<1>1. SessInv => SessionsReclaimed
  <2> SUFFICES ASSUME SessInv, ~down, NEW s \in Sessions, sess[s].app = "ended", ~sess[s].freed
               PROVE  s \in reading /\ (s \in hung_up => s \in event)
    BY DEF SessionsReclaimed
  <2>1. ~sess[s].pipeline_active /\ sess[s].read_active
    BY DEF SessInv, AliveInv, Alive
  <2> QED BY <2>1 DEF SessInv, ChainInv
<1> QED BY <1>1, SessInvHolds, PTL

-----------------------------------------------------------------------------
(* The udp schedulers.                                                     *)

\* How many datagrams have been read; the rest are in the socket, in order.
Read == Len(came) - Len(rx)

UdpTypeOK ==
  /\ transport \in {"epoll", "io_uring", "dpdk"}
  /\ recv_q \in Seq(Receivers) /\ pending_recv \in Seq(Receivers)
  /\ dgram_send_q \in Seq(Senders) /\ pending_sends \in Seq(Senders)
  /\ burst \in Seq(Senders)
  /\ ready_q \in Seq(Nat)
  /\ rx \in Seq([size : {"some", "empty"}, id : Nat])
  /\ came \in Seq({"some", "empty"})
  /\ replies \in [Receivers \cup Senders -> Seq(Nat)]

InSocket ==
  /\ Len(rx) <= Len(came)
  /\ \A i \in 1..Len(rx) : rx[i].id = Read + i

\* A datagram that was read is in ready_q or was given to one receiver.
ReadyOnce ==
  /\ \A i \in 1..Len(ready_q) : ready_q[i] \in 1..Read
  /\ \A i, j \in 1..Len(ready_q) : ready_q[i] = ready_q[j] => i = j

Ready == {ready_q[k] : k \in 1..Len(ready_q)}
Got(r) == {replies[r][i] : i \in 1..Len(replies[r])} \ {Failed}

GivenOnce ==
  \A r \in Receivers :
     /\ Got(r) \subseteq 1..Read /\ Got(r) \cap Ready = {}
     /\ \A s \in Receivers \ {r} : Got(r) \cap Got(s) = {}

NobodyWaitsForReady == pending_recv = <<>> \/ ready_q = <<>>

UdpInv == UdpTypeOK /\ InSocket /\ ReadyOnce /\ GivenOnce /\ NobodyWaitsForReady

-----------------------------------------------------------------------------
\* What two sequences hold put together.
LEMMA ConcatIs ==
  ASSUME NEW S, NEW s \in Seq(S), NEW t \in Seq(S)
  PROVE  /\ s \o t \in Seq(S) /\ Len(s \o t) = Len(s) + Len(t)
         /\ \A i \in 1..Len(s) : (s \o t)[i] = s[i]
         /\ \A i \in 1..Len(t) : (s \o t)[Len(s) + i] = t[i]
         /\ \A i \in 1..Len(s) + Len(t) :
               i \in 1..Len(s) \/ \E j \in 1..Len(t) : i = Len(s) + j
<1>1. /\ s \o t \in Seq(S) /\ Len(s \o t) = Len(s) + Len(t)
      /\ \A i \in 1..Len(s) : (s \o t)[i] = s[i]
      /\ \A i \in 1..Len(t) : (s \o t)[Len(s) + i] = t[i]
  OBVIOUS
<1>2. Len(s) \in Nat /\ Len(t) \in Nat
  OBVIOUS
<1>3. ASSUME NEW i \in 1..Len(s) + Len(t), i \notin 1..Len(s)
      PROVE  i - Len(s) \in 1..Len(t) /\ i = Len(s) + (i - Len(s))
  BY <1>2, <1>3
<1> QED BY <1>1, <1>3

\* What follows the first n elements of a sequence.
LEMMA RestIs ==
  ASSUME NEW S, NEW s \in Seq(S), NEW n \in 0..Len(s)
  PROVE  LET t == SubSeq(s, n + 1, Len(s)) IN
         /\ t \in Seq(S) /\ Len(t) = Len(s) - n
         /\ \A i \in 1..Len(s) - n : t[i] = s[n + i]
OBVIOUS

\* The first n elements of a sequence.
LEMMA FirstIs ==
  ASSUME NEW S, NEW s \in Seq(S), NEW n \in Int, n <= Len(s)
  PROVE  LET t == SubSeq(s, 1, n) IN
         /\ t \in Seq(S) /\ Len(t) = IF n < 0 THEN 0 ELSE n
         /\ \A i \in 1..Len(t) : t[i] = s[i]
OBVIOUS

\* A sequence without its head.
LEMMA TailAt ==
  ASSUME NEW S, NEW s \in Seq(S), s # <<>>
  PROVE  /\ Len(s) \in Nat \ {0} /\ Head(s) = s[1] /\ s[1] \in S
         /\ Tail(s) \in Seq(S) /\ Len(Tail(s)) = Len(s) - 1
         /\ \A j \in 1..Len(s) - 1 : Tail(s)[j] = s[j + 1]
OBVIOUS

\* A sequence with one more element.
LEMMA AppendAt ==
  ASSUME NEW S, NEW s \in Seq(S), NEW x \in S
  PROVE  /\ Append(s, x) \in Seq(S) /\ Len(s) \in Nat /\ Len(Append(s, x)) = Len(s) + 1
         /\ Append(s, x)[Len(s) + 1] = x /\ \A i \in 1 .. Len(s) : Append(s, x)[i] = s[i]
         /\ \A i \in 1 .. Len(s) + 1 : i \in 1 .. Len(s) \/ i = Len(s) + 1
OBVIOUS

\* A sequence without its i-th element.
LEMMA RemovedTyped ==
  ASSUME NEW S, NEW s \in Seq(S), NEW i \in 1..Len(s)
  PROVE  RemoveAt(s, i) \in Seq(S)
<1>1. SubSeq(s, 1, i - 1) \in Seq(S) /\ SubSeq(s, i + 1, Len(s)) \in Seq(S)
  OBVIOUS
<1> QED BY <1>1, ConcatIs DEF RemoveAt

\* A function on 1..n is a sequence.
LEMMA MadeIs ==
  ASSUME NEW S, NEW n \in Nat, NEW f \in [1..n -> S]
  PROVE  f \in Seq(S) /\ Len(f) = n
OBVIOUS

\* The receivers got nothing that they did not have, but failures.
GaveNothing == \A r \in Receivers : Got(r)' \subseteq Got(r)

\* ReplyAll() gives x to the requests of rs, and nothing to the others.
LEMMA RepliedIs ==
  ASSUME UdpTypeOK, NEW A, A \subseteq Receivers \cup Senders, NEW rs \in Seq(A), NEW x \in Nat,
         replies' = ReplyAll(rs, x)
  PROVE  /\ replies' \in [Receivers \cup Senders -> Seq(Nat)]
         /\ \A r \in Receivers \cup Senders : \A i \in 1..Len(replies'[r]) :
               \/ i \in 1..Len(replies[r]) /\ replies'[r][i] = replies[r][i]
               \/ r \in A /\ replies'[r][i] = x
<1> DEFINE W(r) == {j \in DOMAIN rs : rs[j] = r}
           more(r) == [i \in 1..Cardinality(W(r)) |-> x]
<1>1. DOMAIN replies = Receivers \cup Senders /\ DOMAIN rs = 1..Len(rs) /\ Len(rs) \in Nat
  BY DEF UdpTypeOK
<1>2. replies' = [r \in Receivers \cup Senders |-> replies[r] \o more(r)]
  BY <1>1 DEF ReplyAll
<1>3. ASSUME NEW r \in Receivers \cup Senders
      PROVE  /\ replies'[r] \in Seq(Nat)
             /\ \A i \in 1..Len(replies'[r]) :
                   \/ i \in 1..Len(replies[r]) /\ replies'[r][i] = replies[r][i]
                   \/ r \in A /\ replies'[r][i] = x
  <2>1. IsFiniteSet(W(r)) /\ Cardinality(W(r)) \in Nat
    <3>1. IsFiniteSet(1..Len(rs))
      BY <1>1, FS_Interval
    <3>2. W(r) \subseteq 1..Len(rs)
      BY <1>1
    <3> QED BY <3>1, <3>2, FS_Subset, FS_CardinalityType
  <2>2. r \notin A => Cardinality(W(r)) = 0
    <3>1. r \notin A => W(r) = {}
      BY <1>1
    <3> QED BY <3>1, FS_EmptySet
  <2> HIDE DEF W
  <2>3. more(r) \in [1..Cardinality(W(r)) -> Nat]
    BY <2>1
  <2>4. PICK m \in [1..Cardinality(W(r)) -> Nat] : m = more(r)
    BY <2>3
  <2>5. m \in Seq(Nat) /\ Len(m) = Cardinality(W(r)) /\ \A i \in 1..Len(m) : m[i] = x
    <3>1. m \in Seq(Nat) /\ Len(m) = Cardinality(W(r))
      BY <2>1, MadeIs
    <3> QED BY <3>1, <2>4
  <2>6. PICK old \in Seq(Nat) : old = replies[r] /\ replies'[r] = old \o m
    BY <1>2, <2>4 DEF UdpTypeOK
  <2> HIDE DEF more
  <2>7. /\ old \o m \in Seq(Nat) /\ Len(old \o m) = Len(old) + Len(m)
        /\ \A i \in 1..Len(old) : (old \o m)[i] = old[i]
        /\ \A i \in 1..Len(m) : (old \o m)[Len(old) + i] = m[i]
        /\ \A i \in 1..Len(old) + Len(m) :
              i \in 1..Len(old) \/ \E j \in 1..Len(m) : i = Len(old) + j
    <3>1. PICK S : S = Nat
      OBVIOUS
    <3>2. old \in Seq(S) /\ m \in Seq(S)
      BY <2>5, <3>1
    <3>3. /\ old \o m \in Seq(S) /\ Len(old \o m) = Len(old) + Len(m)
          /\ \A i \in 1..Len(old) : (old \o m)[i] = old[i]
          /\ \A i \in 1..Len(m) : (old \o m)[Len(old) + i] = m[i]
          /\ \A i \in 1..Len(old) + Len(m) :
                i \in 1..Len(old) \/ \E j \in 1..Len(m) : i = Len(old) + j
      BY <3>2, ConcatIs
    <3> QED BY <3>1, <3>3
  <2>8. ASSUME NEW j \in 1..Len(m) PROVE r \in A /\ m[j] = x
    <3>1. Cardinality(W(r)) # 0
      BY <2>5, <2>1
    <3> QED BY <2>2, <2>5, <3>1
  <2>9. ASSUME NEW i \in 1..Len(old \o m)
        PROVE  \/ i \in 1..Len(old) /\ (old \o m)[i] = old[i]
               \/ r \in A /\ (old \o m)[i] = x
    <3>1. CASE i \in 1..Len(old)
      BY <2>7, <3>1
    <3>2. ASSUME NEW j \in 1..Len(m), i = Len(old) + j
          PROVE  r \in A /\ (old \o m)[i] = x
      BY <2>7, <2>8, <3>2
    <3> QED BY <2>7, <3>1, <3>2
  <2> QED BY <2>6, <2>7, <2>9
<1>4. replies' \in [Receivers \cup Senders -> Seq(Nat)]
  <2>1. DOMAIN replies' = Receivers \cup Senders
    BY <1>2
  <2>2. replies' = [r \in Receivers \cup Senders |-> replies'[r]]
    BY <1>2
  <2> QED BY <1>3, <2>2
<1> QED BY <1>3, <1>4

\* One answer that is no datagram.
LEMMA ToldIs ==
  ASSUME UdpTypeOK, NEW r \in Receivers \cup Senders, NEW x \in Nat, Reply(r, x)
  PROVE  /\ replies' \in [Receivers \cup Senders -> Seq(Nat)]
         /\ replies'[r] \in Seq(Nat) /\ replies[r] \in Seq(Nat)
         /\ Len(replies'[r]) = Len(replies[r]) + 1
         /\ replies'[r][Len(replies[r]) + 1] = x
         /\ \A i \in 1..Len(replies[r]) : replies'[r][i] = replies[r][i]
         /\ \A i \in 1..Len(replies'[r]) : i \in 1..Len(replies[r]) \/ i = Len(replies[r]) + 1
         /\ \A s \in Receivers \cup Senders : s # r => replies'[s] = replies[s]
<1>1. replies[r] \in Seq(Nat) /\ replies \in [Receivers \cup Senders -> Seq(Nat)]
  BY DEF UdpTypeOK
<1>2. replies'[r] = Append(replies[r], x)
      /\ \A s \in Receivers \cup Senders : s # r => replies'[s] = replies[s]
  BY <1>1 DEF Reply
<1>3. replies' = [replies EXCEPT ![r] = Append(replies[r], x)] /\ Append(replies[r], x) \in Seq(Nat)
  BY <1>1, AppendAt DEF Reply
<1>4. replies' \in [Receivers \cup Senders -> Seq(Nat)]
  BY <1>1, <1>3
<1> QED BY <1>1, <1>2, <1>4, AppendAt

LEMMA ToldGot ==
  ASSUME UdpTypeOK, NEW r \in Receivers \cup Senders, NEW x \in Nat, Reply(r, x)
  PROVE  \A s \in Receivers : Got(s)' \subseteq IF s = r THEN Got(s) \cup ({x} \ {Failed})
                                             ELSE Got(s)
<1>1. ASSUME NEW s \in Receivers
      PROVE  Got(s)' \subseteq IF s = r THEN Got(s) \cup ({x} \ {Failed}) ELSE Got(s)
  <2>1. CASE s # r
    <3>1. replies'[s] = replies[s]
      BY <2>1, ToldIs
    <3> QED BY <2>1, <3>1 DEF Got
  <2>2. CASE s = r
    <3>1. ASSUME NEW d \in Got(r)' PROVE d \in Got(r) \cup ({x} \ {Failed})
      <4>1. PICK i \in 1..Len(replies'[r]) : d = replies'[r][i]
        BY <3>1 DEF Got
      <4>2. d # Failed
        BY <3>1 DEF Got
      <4>3. CASE i \in 1..Len(replies[r])
        <5>1. d = replies[r][i]
          BY <4>1, <4>3, ToldIs
        <5> QED BY <4>2, <4>3, <5>1 DEF Got
      <4>4. CASE i = Len(replies[r]) + 1
        <5>1. d = x
          BY <4>1, <4>4, ToldIs
        <5> QED BY <4>2, <5>1
      <4> QED BY <4>1, <4>3, <4>4, ToldIs
    <3> QED BY <2>2, <3>1
  <2> QED BY <2>1, <2>2
<1> QED BY <1>1

LEMMA ToldNothing ==
  ASSUME UdpTypeOK, NEW r \in Receivers \cup Senders, NEW x \in Nat, Reply(r, x),
         r \in Receivers => x = Failed
  PROVE  GaveNothing
BY ToldGot DEF GaveNothing

\* A step that gives nobody a datagram and reads none.
LEMMA GaveNothingKeeps ==
  ASSUME UdpInv, UdpTypeOK', GaveNothing, UNCHANGED <<ready_q, rx, came>>,
         NobodyWaitsForReady'
  PROVE  UdpInv'
<1>1. InSocket' /\ ReadyOnce' /\ Read' = Read /\ Ready' = Ready
  BY DEF UdpInv, InSocket, ReadyOnce, Read, Ready
<1>2. GivenOnce'
  BY <1>1 DEF UdpInv, GivenOnce, GaveNothing
<1> QED BY <1>1, <1>2 DEF UdpInv

-----------------------------------------------------------------------------
LEMMA InitUdpInv == UdpInit => UdpInv
<1> SUFFICES ASSUME UdpInit PROVE UdpInv
  OBVIOUS
<1>1. UdpTypeOK
  BY DEF UdpInit, UdpTypeOK
<1>2. Len(rx) = 0 /\ Len(came) = 0 /\ Len(ready_q) = 0 /\ pending_recv = <<>>
  BY DEF UdpInit
<1>3. \A r \in Receivers : Len(replies[r]) = 0
  BY DEF UdpInit
<1> QED BY <1>1, <1>2, <1>3 DEF UdpInv, InSocket, ReadyOnce, GivenOnce, NobodyWaitsForReady, Got, Ready

\* Pipelines ask.
LEMMA AskKeeps ==
  ASSUME UdpInv, UdpCaller
  PROVE  UdpInv'
<1>0. UdpTypeOK /\ NobodyWaitsForReady
  BY DEF UdpInv
<1>1. ASSUME NEW r \in Receivers, AskRecv(r) PROVE UdpInv'
  <2>1. NobodyWaitsForReady' /\ UNCHANGED <<ready_q, rx, came>>
    BY <1>0, <1>1 DEF AskRecv, NobodyWaitsForReady
  <2>2. CASE UNCHANGED replies
    <3>1. recv_q' \in Seq(Receivers)
      <4>1. recv_q \in Seq(Receivers) /\ recv_q' \in {recv_q, Append(recv_q, r)}
        BY <1>0, <1>1 DEF AskRecv, UdpTypeOK
      <4> QED BY <4>1, AppendAt
    <3>2. UdpTypeOK'
      BY <1>0, <1>1, <2>2, <3>1 DEF AskRecv, UdpTypeOK
    <3>3. GaveNothing
      BY <2>2 DEF GaveNothing, Got
    <3> QED BY <2>1, <3>2, <3>3, GaveNothingKeeps
  <2>3. CASE Reply(r, Failed) /\ UNCHANGED recv_q
    <3>1. replies' \in [Receivers \cup Senders -> Seq(Nat)] /\ GaveNothing
      BY <1>0, <2>3, ToldIs, ToldNothing DEF Failed
    <3>2. UdpTypeOK'
      BY <1>0, <1>1, <2>3, <3>1 DEF AskRecv, UdpTypeOK
    <3> QED BY <2>1, <3>1, <3>2, GaveNothingKeeps
  <2> QED BY <1>1, <2>2, <2>3 DEF AskRecv
<1>2. ASSUME NEW r \in Senders, AskSend(r) PROVE UdpInv'
  <2>1. NobodyWaitsForReady' /\ UNCHANGED <<ready_q, rx, came>>
    BY <1>0, <1>2 DEF AskSend, NobodyWaitsForReady
  <2>2. CASE UNCHANGED replies
    <3>1. dgram_send_q' \in Seq(Senders)
      <4>1. dgram_send_q \in Seq(Senders) /\ dgram_send_q' \in {dgram_send_q, Append(dgram_send_q, r)}
        BY <1>0, <1>2 DEF AskSend, UdpTypeOK
      <4> QED BY <4>1, AppendAt
    <3>2. UdpTypeOK'
      BY <1>0, <1>2, <2>2, <3>1 DEF AskSend, UdpTypeOK
    <3>3. GaveNothing
      BY <2>2 DEF GaveNothing, Got
    <3> QED BY <2>1, <3>2, <3>3, GaveNothingKeeps
  <2>3. CASE Reply(r, Failed) /\ UNCHANGED dgram_send_q
    <3>1. replies' \in [Receivers \cup Senders -> Seq(Nat)] /\ GaveNothing
      BY <1>0, <2>3, ToldIs, ToldNothing DEF Failed
    <3>2. UdpTypeOK'
      BY <1>0, <1>2, <2>3, <3>1 DEF AskSend, UdpTypeOK
    <3> QED BY <2>1, <3>1, <3>2, GaveNothingKeeps
  <2> QED BY <1>2, <2>2, <2>3 DEF AskSend
<1> QED BY <1>1, <1>2 DEF UdpCaller

\* A datagram arrives: it is the last of those in the socket.
LEMMA ArrivalKeeps ==
  ASSUME UdpInv, DatagramArrives
  PROVE  UdpInv'
<1>0. UdpTypeOK /\ InSocket
  BY DEF UdpInv
<1>1. PICK size \in {"some", "empty"} :
        /\ came' = Append(came, size)
        /\ rx' = Append(rx, [size |-> size, id |-> Len(came) + 1])
  BY DEF DatagramArrives
<1>2. PICK d \in [size : {"some", "empty"}, id : Nat] :
        d = [size |-> size, id |-> Len(came) + 1]
  <2>1. Len(came) + 1 \in Nat
    BY <1>0 DEF UdpTypeOK
  <2>2. [size |-> size, id |-> Len(came) + 1] \in [size : {"some", "empty"}, id : Nat]
    BY <2>1
  <2> QED BY <2>2
<1>3. /\ came' \in Seq({"some", "empty"}) /\ Len(came') = Len(came) + 1
      /\ Len(came) \in Nat /\ Len(rx) \in Nat /\ Len(rx) <= Len(came)
  BY <1>0, <1>1 DEF UdpTypeOK, InSocket
<1>4. /\ rx' \in Seq([size : {"some", "empty"}, id : Nat]) /\ Len(rx') = Len(rx) + 1
      /\ rx'[Len(rx) + 1] = d /\ \A i \in 1..Len(rx) : rx'[i] = rx[i]
      /\ \A i \in 1..Len(rx) + 1 : i \in 1..Len(rx) \/ i = Len(rx) + 1
  <2>1. rx \in Seq([size : {"some", "empty"}, id : Nat]) /\ rx' = Append(rx, d)
    BY <1>0, <1>1, <1>2 DEF UdpTypeOK
  <2> QED BY <2>1, AppendAt
<1>5. UdpTypeOK'
  BY <1>0, <1>3, <1>4 DEF DatagramArrives, UdpTypeOK
<1>6. Read' = Read
  BY <1>3, <1>4 DEF Read
<1>7. InSocket'
  <2>1. d.id = Read + (Len(rx) + 1)
    BY <1>2, <1>3 DEF Read
  <2>2. \A i \in 1..Len(rx) : rx'[i].id = Read + i
    BY <1>0, <1>4 DEF InSocket
  <2> QED BY <1>3, <1>4, <1>6, <2>1, <2>2 DEF InSocket
<1>8. ReadyOnce' /\ GivenOnce' /\ NobodyWaitsForReady'
  <2>1. UNCHANGED <<ready_q, replies, pending_recv>>
    BY DEF DatagramArrives
  <2>2. Ready' = Ready /\ \A r \in Receivers : Got(r)' = Got(r)
    BY <2>1 DEF Ready, Got
  <2> QED BY <1>6, <2>1, <2>2 DEF UdpInv, ReadyOnce, GivenOnce, NobodyWaitsForReady
<1> QED BY <1>5, <1>7, <1>8 DEF UdpInv

\* A receive takes the datagram that waits longest, or waits.
LEMMA DrainRecvKeeps ==
  ASSUME UdpInv, DrainRecv
  PROVE  UdpInv'
<1>0. UdpTypeOK /\ NobodyWaitsForReady /\ ReadyOnce /\ GivenOnce
  BY DEF UdpInv
<1> DEFINE r == Head(recv_q)
<1>1. r \in Receivers /\ recv_q' \in Seq(Receivers) /\ UNCHANGED <<rx, came>> /\ Read' = Read
  BY <1>0 DEF DrainRecv, UdpTypeOK, Read
<1>2. CASE ready_q = <<>>
  <2>1. UNCHANGED <<ready_q, replies>>
    BY <1>2 DEF DrainRecv
  <2>2. pending_recv' \in Seq(Receivers)
    <3>1. pending_recv \in Seq(Receivers) /\ pending_recv' \in {pending_recv, Append(pending_recv, r)}
      BY <1>0, <1>2 DEF DrainRecv, UdpTypeOK
    <3> QED BY <1>1, <3>1, AppendAt
  <2>3. UdpTypeOK'
    BY <1>0, <1>1, <2>1, <2>2 DEF DrainRecv, UdpTypeOK
  <2>4. GaveNothing /\ NobodyWaitsForReady'
    BY <1>2, <2>1 DEF GaveNothing, Got, NobodyWaitsForReady
  <2> QED BY <1>1, <2>1, <2>3, <2>4, GaveNothingKeeps
<1>3. CASE ready_q # <<>>
  <2>1. Reply(r, Head(ready_q)) /\ ready_q' = Tail(ready_q) /\ UNCHANGED pending_recv
    BY <1>3 DEF DrainRecv
  <2>2. /\ Len(ready_q) \in Nat \ {0} /\ Head(ready_q) = ready_q[1] /\ ready_q[1] \in Nat
        /\ ready_q' \in Seq(Nat) /\ Len(ready_q') = Len(ready_q) - 1
        /\ \A k \in 1..Len(ready_q) - 1 : ready_q'[k] = ready_q[k + 1]
    BY <1>0, <1>3, <2>1, TailAt DEF UdpTypeOK
  <2>3. PICK x \in Nat : x = ready_q[1]
    BY <2>2
  <2>4. /\ replies' \in [Receivers \cup Senders -> Seq(Nat)]
        /\ replies'[r][Len(replies[r]) + 1] = x
        /\ \A i \in 1..Len(replies[r]) : replies'[r][i] = replies[r][i]
        /\ \A i \in 1..Len(replies'[r]) : i \in 1..Len(replies[r]) \/ i = Len(replies[r]) + 1
        /\ \A s \in Receivers \cup Senders : s # r => replies'[s] = replies[s]
    <3>1. Reply(r, x) /\ r \in Receivers \cup Senders /\ UdpTypeOK
      BY <1>0, <1>1, <2>1, <2>2, <2>3
    <3> HIDE DEF r
    <3> QED BY <3>1, ToldIs
  <2> HIDE DEF r
  <2>5. UdpTypeOK'
    BY <1>0, <1>1, <2>1, <2>2, <2>4 DEF DrainRecv, UdpTypeOK
  <2>6. NobodyWaitsForReady'
    BY <1>0, <1>3, <2>1 DEF NobodyWaitsForReady
  <2>7. /\ 1 \in 1..Len(ready_q) /\ x \in 1..Read
        /\ \A k \in 1..Len(ready_q') : k + 1 \in 1..Len(ready_q) /\ ready_q'[k] = ready_q[k + 1]
    BY <1>0, <2>2, <2>3 DEF ReadyOnce
  <2>8. ReadyOnce' /\ x \in Ready /\ x # Failed /\ Ready' \subseteq Ready \ {x}
    <3>1. \A k \in 1..Len(ready_q') : ready_q'[k] \in 1..Read'
      BY <1>0, <1>1, <2>7 DEF ReadyOnce
    <3>2. ASSUME NEW k \in 1..Len(ready_q'), NEW h \in 1..Len(ready_q'), ready_q'[k] = ready_q'[h]
          PROVE  k = h
      <4>1. k + 1 = h + 1
        BY <1>0, <2>7, <3>2 DEF ReadyOnce
      <4> QED BY <2>2, <4>1
    <3>3. ASSUME NEW k \in 1..Len(ready_q') PROVE ready_q'[k] # x
      <4>1. k + 1 # 1
        BY <2>2
      <4> QED BY <1>0, <2>3, <2>7, <4>1 DEF ReadyOnce
    <3>4. x \in Ready /\ x # Failed
      BY <2>3, <2>7 DEF Ready, Failed
    <3>5. Ready' \subseteq Ready
      BY <2>7 DEF Ready
    <3> QED BY <3>1, <3>2, <3>3, <3>4, <3>5 DEF ReadyOnce, Ready
  <2>9. \A s \in Receivers : Got(s)' \subseteq IF s = r THEN Got(s) \cup {x} ELSE Got(s)
    <3>1. Reply(r, x)
      BY <2>1, <2>2, <2>3
    <3> QED BY <1>0, <1>1, <2>8, <3>1, ToldGot
  <2>10. GivenOnce'
    <3>1. ASSUME NEW s \in Receivers PROVE Got(s)' \subseteq 1..Read' /\ (Got(s) \cap Ready)' = {}
      BY <1>0, <1>1, <2>7, <2>8, <2>9 DEF GivenOnce
    <3>2. ASSUME NEW s \in Receivers, NEW t \in Receivers \ {s} PROVE Got(s)' \cap Got(t)' = {}
      <4>1. Got(s) \cap Got(t) = {} /\ x \notin Got(s) /\ x \notin Got(t)
        BY <1>0, <2>8 DEF GivenOnce
      <4> QED BY <2>9, <4>1
    <3> QED BY <3>1, <3>2 DEF GivenOnce
  <2>11. InSocket'
    BY <1>1 DEF UdpInv, InSocket, Read
  <2> QED BY <2>5, <2>6, <2>8, <2>10, <2>11 DEF UdpInv
<1> QED BY <1>2, <1>3

-----------------------------------------------------------------------------
\* What the senders are told is no matter of the receivers.
LEMMA SendersTold ==
  ASSUME UdpInv, NEW rs \in Seq(Senders), NEW x \in Nat, replies' = ReplyAll(rs, x)
  PROVE  replies' \in [Receivers \cup Senders -> Seq(Nat)] /\ GaveNothing
<1>1. UdpTypeOK
  BY DEF UdpInv
<1>2. ASSUME NEW r \in Receivers, NEW i \in 1..Len(replies'[r])
      PROVE  i \in 1..Len(replies[r]) /\ replies'[r][i] = replies[r][i]
  <2>1. r \notin Senders
    BY UdpAssumption
  <2> QED BY <1>1, <2>1, RepliedIs
<1>3. GaveNothing
  BY <1>2 DEF GaveNothing, Got
<1>4. replies' \in [Receivers \cup Senders -> Seq(Nat)]
  BY <1>1, RepliedIs
<1> QED BY <1>3, <1>4

\* The sends that are taken from their queue, and those that complete.
LEMMA SendKeeps ==
  ASSUME UdpInv, DrainSendEpoll \/ EnqueueSendmsg
  PROVE  UdpInv'
<1>0. UdpTypeOK /\ NobodyWaitsForReady
  BY DEF UdpInv
<1> DEFINE r == Head(dgram_send_q)
<1>1. /\ dgram_send_q # <<>> /\ dgram_send_q' = Tail(dgram_send_q)
      /\ UNCHANGED <<transport, recv_q, pending_recv, ready_q, rx, came>>
      /\ pending_sends' \in {pending_sends, Append(pending_sends, r)}
      /\ burst' \in {burst, Append(burst, r)}
      /\ \/ UNCHANGED replies
         \/ \E x \in {Done, Failed} : Reply(r, x)
  BY DEF DrainSendEpoll, EnqueueSendmsg, Sent
<1>2. r \in Senders /\ dgram_send_q' \in Seq(Senders)
  BY <1>0, <1>1, TailAt DEF UdpTypeOK
<1>3. pending_sends' \in Seq(Senders) /\ burst' \in Seq(Senders)
  <2>1. pending_sends \in Seq(Senders) /\ burst \in Seq(Senders)
    BY <1>0 DEF UdpTypeOK
  <2>2. Append(pending_sends, r) \in Seq(Senders) /\ Append(burst, r) \in Seq(Senders)
    BY <1>2, <2>1, AppendAt
  <2> QED BY <1>1, <2>1, <2>2
<1>4. replies' \in [Receivers \cup Senders -> Seq(Nat)] /\ GaveNothing
  <2>1. CASE UNCHANGED replies
    BY <1>0, <2>1 DEF UdpTypeOK, GaveNothing, Got
  <2>2. ASSUME NEW x \in {Done, Failed}, Reply(r, x)
        PROVE  replies' \in [Receivers \cup Senders -> Seq(Nat)] /\ GaveNothing
    <3>1. x \in Nat /\ r \in Receivers \cup Senders /\ r \notin Receivers
      BY <1>2, UdpAssumption DEF Done, Failed
    <3> HIDE DEF r
    <3> QED BY <1>0, <2>2, <3>1, ToldIs, ToldNothing
  <2> QED BY <1>1, <2>1, <2>2
<1>5. UdpTypeOK'
  BY <1>0, <1>1, <1>2, <1>3, <1>4 DEF UdpTypeOK
<1>6. NobodyWaitsForReady'
  BY <1>0, <1>1 DEF NobodyWaitsForReady
<1> QED BY <1>1, <1>4, <1>5, <1>6, GaveNothingKeeps

LEMMA CompletionKeeps ==
  ASSUME UdpInv, SendCompletes
  PROVE  UdpInv'
<1>0. UdpTypeOK /\ NobodyWaitsForReady
  BY DEF UdpInv
<1>1. UNCHANGED <<transport, recv_q, dgram_send_q, pending_sends, pending_recv, ready_q, rx, came>>
  BY DEF SendCompletes
<1>2. burst \in Seq(Senders) /\ DOMAIN burst = 1..Len(burst)
  BY <1>0 DEF UdpTypeOK
<1>3. ASSUME NEW i \in DOMAIN burst, NEW res \in {Done, Failed},
             Reply(burst[i], res), burst' = RemoveAt(burst, i)
      PROVE  /\ burst' \in Seq(Senders) /\ GaveNothing
             /\ replies' \in [Receivers \cup Senders -> Seq(Nat)]
  <2>1. burst' \in Seq(Senders)
    BY <1>2, <1>3, RemovedTyped
  <2>2. PICK r \in Senders : r = burst[i]
    BY <1>2
  <2>3. res \in Nat /\ r \in Receivers \cup Senders /\ r \notin Receivers /\ Reply(r, res)
    BY <1>3, <2>2, UdpAssumption DEF Done, Failed
  <2> QED BY <1>0, <2>1, <2>3, ToldIs, ToldNothing
<1>4. ASSUME NEW gone \in 0..Len(burst), burst' = <<>>,
             replies' = [r \in DOMAIN replies |->
                    IF r \notin {burst[i] : i \in DOMAIN burst} THEN replies[r]
                    ELSE Append(replies[r],
                                IF \E i \in 1..gone : burst[i] = r
                                THEN Done ELSE Failed)]
      PROVE  /\ burst' \in Seq(Senders) /\ GaveNothing
             /\ replies' \in [Receivers \cup Senders -> Seq(Nat)]
  <2>1. DOMAIN replies = Receivers \cup Senders /\ \A r \in Receivers \cup Senders : replies[r] \in Seq(Nat)
    BY <1>0 DEF UdpTypeOK
  <2>2. \A r \in Receivers : r \notin {burst[i] : i \in DOMAIN burst}
    BY <1>2, UdpAssumption
  <2>3. \A r \in Receivers : replies'[r] = replies[r]
    BY <1>4, <2>1, <2>2
  <2>4. ASSUME NEW r \in Receivers \cup Senders PROVE replies'[r] \in Seq(Nat)
    <3>1. PICK x \in Nat : x = IF \E i \in 1..gone : burst[i] = r THEN Done ELSE Failed
      BY DEF Done, Failed
    <3>2. replies'[r] = replies[r] \/ replies'[r] = Append(replies[r], x)
      BY <1>4, <2>1, <3>1
    <3>3. replies[r] \in Seq(Nat) /\ Append(replies[r], x) \in Seq(Nat)
      BY <2>1, AppendAt
    <3> QED BY <3>2, <3>3
  <2>5. replies' \in [Receivers \cup Senders -> Seq(Nat)]
    <3>1. /\ replies' = [r \in DOMAIN replies' |-> replies'[r]]
          /\ DOMAIN replies' = Receivers \cup Senders
      BY <1>4, <2>1
    <3> QED BY <2>4, <3>1
  <2>6. GaveNothing
    BY <2>3 DEF GaveNothing, Got
  <2>7. <<>> \in Seq(Senders)
    OBVIOUS
  <2> QED BY <1>4, <2>5, <2>6, <2>7
<1>5. /\ burst' \in Seq(Senders) /\ GaveNothing
      /\ replies' \in [Receivers \cup Senders -> Seq(Nat)]
  BY <1>3, <1>4 DEF SendCompletes
<1>6. UdpTypeOK'
  BY <1>0, <1>1, <1>5 DEF UdpTypeOK
<1>7. NobodyWaitsForReady'
  BY <1>0, <1>1 DEF NobodyWaitsForReady
<1> QED BY <1>1, <1>5, <1>6, <1>7, GaveNothingKeeps

LEMMA FlushKeeps ==
  ASSUME UdpInv, FlushPendingSends
  PROVE  UdpInv'
<1>0. UdpTypeOK /\ NobodyWaitsForReady
  BY DEF UdpInv
<1>1. UNCHANGED <<transport, recv_q, dgram_send_q, pending_recv, ready_q, rx, came, burst>>
  BY DEF FlushPendingSends
<1>2. PICK n \in 0..Len(pending_sends), x \in {Done, Failed} :
        /\ pending_sends' = SubSeq(pending_sends, n + 1, Len(pending_sends))
        /\ replies' = ReplyAll(SubSeq(pending_sends, 1, n), x)
  BY DEF FlushPendingSends
<1>3. pending_sends \in Seq(Senders) /\ n \in Int /\ n <= Len(pending_sends) /\ x \in Nat
  BY <1>0 DEF UdpTypeOK, Done, Failed
<1>4. pending_sends' \in Seq(Senders)
  BY <1>2, <1>3, RestIs
<1>5. PICK rs \in Seq(Senders) : rs = SubSeq(pending_sends, 1, n)
  BY <1>3, FirstIs
<1>6. replies' \in [Receivers \cup Senders -> Seq(Nat)] /\ GaveNothing
  BY <1>2, <1>3, <1>5, SendersTold
<1>7. UdpTypeOK'
  BY <1>0, <1>1, <1>4, <1>6 DEF UdpTypeOK
<1>8. NobodyWaitsForReady'
  BY <1>0, <1>1 DEF NobodyWaitsForReady
<1> QED BY <1>1, <1>6, <1>7, <1>8, GaveNothingKeeps

\* shutdown() tells everybody who still waits that it failed.
LEMMA DrainUdpKeeps ==
  ASSUME UdpInv, DrainUdp
  PROVE  UdpInv'
<1>0. UdpTypeOK
  BY DEF UdpInv
<1>1. PICK rs \in Seq(Receivers \cup Senders) : rs = pending_recv \o recv_q \o dgram_send_q \o pending_sends
  <2>1. /\ pending_recv \in Seq(Receivers \cup Senders) /\ recv_q \in Seq(Receivers \cup Senders)
        /\ dgram_send_q \in Seq(Receivers \cup Senders) /\ pending_sends \in Seq(Receivers \cup Senders)
    BY <1>0 DEF UdpTypeOK
  <2>2. pending_recv \o recv_q \in Seq(Receivers \cup Senders)
    BY <2>1, ConcatIs
  <2>3. pending_recv \o recv_q \o dgram_send_q \in Seq(Receivers \cup Senders)
    BY <2>1, <2>2, ConcatIs
  <2>4. pending_recv \o recv_q \o dgram_send_q \o pending_sends \in Seq(Receivers \cup Senders)
    BY <2>1, <2>3, ConcatIs
  <2> QED BY <2>4
<1>2. replies' = ReplyAll(rs, Failed) /\ Failed \in Nat
  BY <1>1 DEF DrainUdp, Failed
<1>3. /\ replies' \in [Receivers \cup Senders -> Seq(Nat)]
      /\ \A r \in Receivers \cup Senders : \A i \in 1..Len(replies'[r]) :
            \/ i \in 1..Len(replies[r]) /\ replies'[r][i] = replies[r][i]
            \/ replies'[r][i] = Failed
  <2>1. PICK A : A = Receivers \cup Senders
    OBVIOUS
  <2>2. A \subseteq Receivers \cup Senders /\ rs \in Seq(A)
    BY <1>1, <2>1
  <2>3. PICK x \in Nat : x = Failed
    BY <1>2
  <2>4. replies' = ReplyAll(rs, x)
    BY <1>2, <2>3
  <2>5. replies' \in [Receivers \cup Senders -> Seq(Nat)]
    BY <1>0, <2>2, <2>4, RepliedIs
  <2>6. \A r \in Receivers \cup Senders : \A i \in 1..Len(replies'[r]) :
            \/ i \in 1..Len(replies[r]) /\ replies'[r][i] = replies[r][i]
            \/ r \in A /\ replies'[r][i] = x
    BY <1>0, <2>2, <2>4, RepliedIs
  <2> QED BY <2>3, <2>5, <2>6
<1>4. GaveNothing
  BY <1>3 DEF GaveNothing, Got
<1>5. /\ pending_recv' = <<>> /\ recv_q' = <<>> /\ ready_q' = <<>>
      /\ dgram_send_q' = <<>> /\ pending_sends' = <<>>
      /\ UNCHANGED <<transport, rx, burst, came>>
  BY DEF DrainUdp
<1>6. UdpTypeOK'
  BY <1>0, <1>3, <1>5 DEF UdpTypeOK
<1>7. InSocket' /\ Read' = Read
  BY <1>5 DEF UdpInv, InSocket, Read
<1>8. ReadyOnce' /\ Ready' = {}
  <2>1. Len(ready_q') = 0
    BY <1>5
  <2> QED BY <2>1 DEF ReadyOnce, Ready
<1>9. GivenOnce'
  BY <1>4, <1>7, <1>8 DEF UdpInv, GivenOnce, GaveNothing
<1> QED BY <1>5, <1>6, <1>7, <1>8, <1>9 DEF UdpInv, NobodyWaitsForReady

-----------------------------------------------------------------------------
LEMMA ReadGrows ==
  ASSUME Len(rx) \in Nat, Len(came) \in Nat, NEW n \in Nat,
         came' = came, Len(rx') = Len(rx) - n
  PROVE  Read' = Read + n
BY DEF Read

\* What is read are the next datagrams, each once.
LEMMA BatchIs ==
  ASSUME UdpTypeOK, InSocket, NEW n \in 0..Len(rx), NEW ids \in Batches(n)
  PROVE  /\ ids \in Seq(Nat) /\ Read \in Nat
         /\ \A i \in 1..Len(ids) : ids[i] \in Read + 1..Read + n
         /\ \A i, j \in 1..Len(ids) : ids[i] = ids[j] => i = j
<1>1. /\ Len(rx) \in Nat /\ Len(came) \in Nat /\ Len(rx) <= Len(came)
      /\ n \in Nat /\ n <= Len(rx)
  BY DEF UdpTypeOK, InSocket
<1>2. Read \in Nat
  BY <1>1 DEF Read
<1>3. \A i \in 1..n : rx[i].id = Read + i
  BY <1>1 DEF InSocket
<1> DEFINE k == Cardinality(HandedOn(n))
           taken == {rx[i].id : i \in HandedOn(n)}
<1>4. k \in Nat
  <2>1. IsFiniteSet(1..n)
    BY <1>1, FS_Interval
  <2>2. HandedOn(n) \subseteq 1..n
    BY DEF HandedOn
  <2> QED BY <2>1, <2>2, FS_Subset, FS_CardinalityType
<1>5. taken \subseteq Read + 1..Read + n
  <2>1. \A i \in HandedOn(n) : i \in 1..n
    BY DEF HandedOn
  <2>2. \A i \in 1..n : rx[i].id \in Read + 1..Read + n
    BY <1>1, <1>2, <1>3
  <2> QED BY <2>1, <2>2
<1>6. ids \in [1..k -> taken] /\ \A i, j \in DOMAIN ids : i < j => ids[i] < ids[j]
  BY DEF Batches
<1> HIDE DEF k, taken
<1>7. ids \in [1..k -> Nat] /\ \A i \in 1..k : ids[i] \in Read + 1..Read + n
  <2>1. taken \subseteq Nat
    BY <1>1, <1>2, <1>5
  <2>2. \A i \in 1..k : ids[i] \in taken
    BY <1>6
  <2>3. ids \in [1..k -> Nat]
    BY <1>6, <2>1
  <2> QED BY <1>5, <2>2, <2>3
<1>8. ids \in Seq(Nat) /\ Len(ids) = k /\ DOMAIN ids = 1..k
  BY <1>4, <1>7, MadeIs
<1>9. ASSUME NEW i \in 1..k, NEW j \in 1..k, ids[i] = ids[j] PROVE i = j
  <2>1. i \in Int /\ j \in Int /\ ids[i] \in Nat /\ ids[j] \in Nat
    BY <1>4, <1>7
  <2>2. ~(i < j) /\ ~(j < i)
    BY <1>6, <1>8, <1>9, <2>1
  <2> QED BY <2>1, <2>2
<1> QED BY <1>2, <1>7, <1>8, <1>9

\* on_recv(): a datagram goes to one receiver, or to ready_q, which is empty
\* as long as a receiver waits.
LEMMA OnDatagramsKeeps ==
  ASSUME UdpInv, NEW n \in 0..Len(rx), NEW ids \in Batches(n), OnDatagrams(ids),
         rx' = SubSeq(rx, n + 1, Len(rx)),
         UNCHANGED <<transport, recv_q, dgram_send_q, pending_sends, burst, came>>
  PROVE  UdpInv'
<1>0. UdpTypeOK /\ InSocket /\ ReadyOnce /\ GivenOnce /\ NobodyWaitsForReady
  BY DEF UdpInv
<1>1. /\ ids \in Seq(Nat) /\ Read \in Nat
      /\ \A i \in 1..Len(ids) : ids[i] \in Read + 1..Read + n
      /\ \A i, j \in 1..Len(ids) : ids[i] = ids[j] => i = j
  BY <1>0, BatchIs
<1>2. /\ Len(rx) \in Nat /\ Len(came) \in Nat /\ n \in Nat /\ n <= Len(rx)
      /\ Len(rx) <= Len(came) /\ Len(ids) \in Nat
      /\ pending_recv \in Seq(Receivers) /\ Len(pending_recv) \in Nat
      /\ ready_q \in Seq(Nat) /\ Len(ready_q) \in Nat
  BY <1>0, <1>1 DEF UdpTypeOK, InSocket
<1>3. PICK m \in 0..Len(ids) : /\ m = Matched(ids) /\ m <= Len(pending_recv)
                               /\ m = Len(ids) \/ m = Len(pending_recv)
  BY <1>2 DEF Matched
<1>4. /\ pending_recv' = SubSeq(pending_recv, m + 1, Len(pending_recv))
      /\ replies' = [r \in DOMAIN replies |->
             IF \E i \in 1..m : pending_recv[i] = r
             THEN Append(replies[r], ids[CHOOSE i \in 1..m : pending_recv[i] = r])
             ELSE replies[r]]
      /\ LET rest == SubSeq(ids, m + 1, Len(ids))
             room == PendingRoom - Len(ready_q) IN
         ready_q' = ready_q \o SubSeq(rest, 1, IF Len(rest) < room THEN Len(rest)
                                              ELSE room)
  BY <1>3 DEF OnDatagrams
<1>5. /\ pending_recv' \in Seq(Receivers)
      /\ Len(pending_recv') = Len(pending_recv) - m
  <2>1. pending_recv \in Seq(Receivers) /\ m \in 0..Len(pending_recv)
    BY <1>2, <1>3
  <2>2. pending_recv' = SubSeq(pending_recv, m + 1, Len(pending_recv))
    BY <1>4
  <2> QED BY <2>1, <2>2, RestIs
<1>6. /\ rx' \in Seq([size : {"some", "empty"}, id : Nat]) /\ Len(rx') = Len(rx) - n
      /\ \A i \in 1..Len(rx) - n : rx'[i] = rx[n + i]
  <2>1. rx \in Seq([size : {"some", "empty"}, id : Nat])
    BY <1>0 DEF UdpTypeOK
  <2> QED BY <2>1, RestIs
<1>7. PICK rest \in Seq(Nat) :
        /\ rest = SubSeq(ids, m + 1, Len(ids)) /\ Len(rest) = Len(ids) - m
        /\ \A i \in 1..Len(ids) - m : rest[i] = ids[m + i]
  <2> DEFINE t == SubSeq(ids, m + 1, Len(ids))
  <2>1. /\ t \in Seq(Nat) /\ Len(t) = Len(ids) - m
        /\ \A i \in 1..Len(ids) - m : t[i] = ids[m + i]
    BY <1>1, RestIs
  <2> QED BY <2>1
<1>8. PICK kept \in Int :
        /\ kept <= Len(rest) /\ ready_q' = ready_q \o SubSeq(rest, 1, kept)
  <2> DEFINE room == PendingRoom - Len(ready_q)
             least == IF Len(rest) < room THEN Len(rest) ELSE room
  <2>1. room \in Int /\ Len(rest) \in Int
    BY <1>2, UdpAssumption
  <2>2. least \in Int /\ least <= Len(rest)
    BY <2>1
  <2>3. ready_q' = ready_q \o SubSeq(rest, 1, least)
    BY <1>4, <1>7
  <2> QED BY <2>2, <2>3
<1>9. PICK more \in Seq(Nat) :
        /\ more = SubSeq(rest, 1, kept)
        /\ Len(more) = IF kept < 0 THEN 0 ELSE kept
        /\ \A i \in 1..Len(more) : more[i] = rest[i]
  <2> DEFINE t == SubSeq(rest, 1, kept)
  <2>1. /\ t \in Seq(Nat) /\ Len(t) = IF kept < 0 THEN 0 ELSE kept
        /\ \A i \in 1..Len(t) : t[i] = rest[i]
    BY <1>8, FirstIs
  <2> QED BY <2>1, Zenon
<1>a. Len(more) \in Nat /\ Len(more) <= Len(ids) - m /\ Len(ids) - m \in Nat
  <2>1. Len(ids) \in Nat /\ m \in 0..Len(ids) /\ kept \in Int
    BY <1>2, <1>3, <1>8
  <2>2. kept <= Len(ids) - m
    BY <1>7, <1>8, Zenon
  <2>3. Len(more) = IF kept < 0 THEN 0 ELSE kept
    BY <1>9, Zenon
  <2> QED BY <2>1, <2>2, <2>3
<1>b. ASSUME NEW i \in 1..Len(more)
      PROVE  /\ more[i] = ids[m + i]
             /\ m + i \in 1..Len(ids) /\ m + i \notin 1..m
  <2>1. i \in 1..Len(ids) - m
    BY <1>a
  <2>2. more[i] = ids[m + i]
    BY <1>7, <1>9, <2>1
  <2>3. m + i \in 1..Len(ids) /\ m + i \notin 1..m
    BY <1>2, <2>1
  <2> QED BY <2>2, <2>3
<1>10. /\ ready_q' \in Seq(Nat) /\ Len(ready_q') = Len(ready_q) + Len(more)
       /\ \A i \in 1..Len(ready_q) : ready_q'[i] = ready_q[i]
       /\ \A i \in 1..Len(more) : ready_q'[Len(ready_q) + i] = more[i]
       /\ \A i \in 1..Len(ready_q) + Len(more) :
             i \in 1..Len(ready_q) \/ \E j \in 1..Len(more) : i = Len(ready_q) + j
  <2>1. ready_q' = ready_q \o more
    BY <1>8, <1>9
  <2> QED BY <1>2, <2>1, ConcatIs
<1>11. /\ Read' = Read + n
       /\ \A i \in 1..Len(more) : m + i \in 1..Len(ids) /\ m + i \notin 1..m
       /\ \A i \in 1..m : i \in 1..Len(ids)
  <2>1. Read' = Read + n
    <3>1. came' = came /\ Len(rx') = Len(rx) - n
      BY <1>6
    <3> QED BY <1>2, <3>1, ReadGrows
  <2>2. \A i \in 1..m : i \in 1..Len(ids)
    BY <1>2
  <2> QED BY <1>b, <2>1, <2>2
<1> DEFINE To(r) == {ids[i] : i \in {h \in 1..m : pending_recv[h] = r}}
<1>12. ASSUME NEW r \in Receivers \cup Senders
       PROVE  replies'[r] \in Seq(Nat) /\ Got(r)' \subseteq Got(r) \cup To(r)
  <2>1. r \in DOMAIN replies /\ replies[r] \in Seq(Nat)
    BY <1>0 DEF UdpTypeOK
  <2>2. CASE \E i \in 1..m : pending_recv[i] = r
    <3>1. PICK c \in 1..m : c = CHOOSE i \in 1..m : pending_recv[i] = r
      BY <2>2
    <3>2. pending_recv[c] = r
      BY <2>2, <3>1
    <3>3. PICK x \in Nat : x = ids[c]
      BY <1>1, <1>11
    <3>4. replies'[r] = Append(replies[r], x)
      BY <1>4, <2>1, <2>2, <3>1, <3>3
    <3>5. PICK old \in Seq(Nat) : old = replies[r]
      BY <2>1
    <3>6. /\ Append(old, x) \in Seq(Nat) /\ Len(Append(old, x)) = Len(old) + 1
          /\ Append(old, x)[Len(old) + 1] = x
          /\ \A i \in 1..Len(old) : Append(old, x)[i] = old[i]
          /\ \A i \in 1..Len(old) + 1 : i \in 1..Len(old) \/ i = Len(old) + 1
      BY AppendAt
    <3>7. x \in To(r)
      BY <3>2, <3>3
    <3> DEFINE new == Append(old, x)
    <3> HIDE DEF To, new
    <3>8. /\ replies'[r] = new /\ new \in Seq(Nat) /\ Len(new) = Len(old) + 1 /\ new[Len(old) + 1] = x
          /\ \A i \in 1..Len(old) : new[i] = old[i]
          /\ \A i \in 1..Len(old) + 1 : i \in 1..Len(old) \/ i = Len(old) + 1
      BY <3>4, <3>5, <3>6 DEF new
    <3>9. ASSUME NEW y \in Got(r)' PROVE y \in Got(r) \cup To(r)
      <4>1. PICK i \in 1..Len(old) + 1 : y = new[i] /\ y # Failed
        BY <3>8 DEF Got
      <4>2. CASE i \in 1..Len(old)
        BY <3>5, <3>8, <4>1, <4>2 DEF Got
      <4>3. CASE i = Len(old) + 1
        BY <3>7, <3>8, <4>1, <4>3
      <4> QED BY <3>8, <4>2, <4>3
    <3> QED BY <3>8, <3>9
  <2>3. CASE ~\E i \in 1..m : pending_recv[i] = r
    <3>1. replies'[r] = replies[r]
      BY <1>4, <2>1, <2>3
    <3> QED BY <2>1, <3>1 DEF Got
  <2> QED BY <2>2, <2>3
<1>13. UdpTypeOK'
  <2>1. /\ DOMAIN replies' = Receivers \cup Senders
        /\ replies' = [r \in DOMAIN replies' |-> replies'[r]]
    BY <1>0, <1>4 DEF UdpTypeOK
  <2>2. replies' \in [Receivers \cup Senders -> Seq(Nat)]
    BY <1>12, <2>1
  <2> QED BY <1>0, <1>5, <1>6, <1>10, <2>2 DEF UdpTypeOK
<1>14. InSocket'
  <2>1. ASSUME NEW i \in 1..Len(rx) - n PROVE rx'[i].id = Read + n + i
    <3>1. n + i \in 1..Len(rx)
      BY <1>2
    <3> QED BY <1>0, <1>1, <1>2, <1>6, <3>1 DEF InSocket
  <2>2. Len(rx') <= Len(came')
    BY <1>2, <1>6
  <2> QED BY <1>6, <1>11, <2>1, <2>2 DEF InSocket
<1>c. PICK rd \in Nat : rd = Read
  BY <1>1
<1>d. /\ \A i \in 1..Len(ids) : ids[i] \in rd + 1..rd + n
      /\ \A i \in 1..Len(ready_q) : ready_q[i] \in 1..rd
      /\ Read' = rd + n
      /\ (1..rd) \cap (rd + 1..rd + n) = {}
      /\ 1..rd \subseteq 1..rd + n /\ rd + 1..rd + n \subseteq 1..rd + n
  <2>1. (1..rd) \cap (rd + 1..rd + n) = {}
    BY <1>2
  <2>2. 1..rd \subseteq 1..rd + n /\ rd + 1..rd + n \subseteq 1..rd + n
    BY <1>2
  <2> QED BY <1>0, <1>1, <1>11, <1>c, <2>1, <2>2 DEF ReadyOnce
<1>15. ReadyOnce'
  <2>1. ASSUME NEW i \in 1..Len(ready_q)
        PROVE  ready_q'[i] = ready_q[i] /\ ready_q'[i] \in 1..rd
    BY <1>10, <1>d
  <2>2. ASSUME NEW j \in 1..Len(more)
        PROVE  /\ ready_q'[Len(ready_q) + j] = ids[m + j]
               /\ ids[m + j] \in rd + 1..rd + n
    BY <1>10, <1>b, <1>d
  <2>3. ASSUME NEW i \in 1..Len(ready_q')
        PROVE  i \in 1..Len(ready_q) \/ \E j \in 1..Len(more) : i = Len(ready_q) + j
    BY <1>10
  <2>4. \A i \in 1..Len(ready_q') : ready_q'[i] \in 1..Read'
    <3>1. \A i \in 1..Len(ready_q) : ready_q'[i] \in 1..Read'
      BY <1>d, <2>1
    <3>2. \A j \in 1..Len(more) : ready_q'[Len(ready_q) + j] \in 1..Read'
      BY <1>d, <2>2
    <3> QED BY <2>3, <3>1, <3>2
  <2>5. ASSUME NEW i \in 1..Len(ready_q'), NEW k \in 1..Len(ready_q'), ready_q'[i] = ready_q'[k]
        PROVE  i = k
    <3>1. CASE i \in 1..Len(ready_q) /\ k \in 1..Len(ready_q)
      BY <1>0, <2>1, <2>5, <3>1 DEF ReadyOnce
    <3>2. ASSUME NEW j \in 1..Len(more), NEW h \in 1..Len(more),
                 i = Len(ready_q) + j, k = Len(ready_q) + h
          PROVE  i = k
      <4>1. m + j = m + h
        BY <1>1, <1>b, <2>2, <2>5, <3>2
      <4>2. j = h
        <5>1. j \in Nat /\ h \in Nat
          BY <1>a
        <5>2. m \in Nat
          BY <1>2
        <5> QED BY <4>1, <5>1, <5>2
      <4> QED BY <3>2, <4>2
    <3>3. ASSUME NEW j \in 1..Len(more), i \in 1..Len(ready_q), k = Len(ready_q) + j PROVE FALSE
      BY <1>d, <2>1, <2>2, <2>5, <3>3
    <3>4. ASSUME NEW j \in 1..Len(more), k \in 1..Len(ready_q), i = Len(ready_q) + j PROVE FALSE
      BY <1>d, <2>1, <2>2, <2>5, <3>4
    <3> QED BY <2>3, <3>1, <3>2, <3>3, <3>4
  <2> QED BY <2>4, <2>5 DEF ReadyOnce
<1>16. GivenOnce'
  <2>1. ASSUME NEW r \in Receivers PROVE To(r) \subseteq rd + 1..rd + n
    BY <1>11, <1>d
  <2>2. ASSUME NEW r \in Receivers PROVE Got(r) \subseteq 1..rd /\ Got(r) \cap Ready = {}
    BY <1>0, <1>c DEF GivenOnce
  <2>3. /\ (1..rd) \cap (rd + 1..rd + n) = {}
        /\ 1..rd \subseteq 1..Read' /\ rd + 1..rd + n \subseteq 1..Read'
    BY <1>d
  <2>4. Ready' \subseteq Ready \cup {ids[m + j] : j \in 1..Len(more)}
    <3>1. ASSUME NEW i \in 1..Len(ready_q')
          PROVE  ready_q'[i] \in Ready \cup {ids[m + j] : j \in 1..Len(more)}
      <4>1. CASE i \in 1..Len(ready_q)
        BY <1>10, <4>1 DEF Ready
      <4>2. ASSUME NEW j \in 1..Len(more), i = Len(ready_q) + j
            PROVE  ready_q'[i] \in {ids[m + h] : h \in 1..Len(more)}
        BY <1>10, <1>b, <4>2
      <4> QED BY <1>10, <4>1, <4>2
    <3> QED BY <3>1 DEF Ready
  <2>5. Ready \subseteq 1..rd /\ \A j \in 1..Len(more) : ids[m + j] \in rd + 1..rd + n
    BY <1>b, <1>d DEF Ready
  <2>6. ASSUME NEW r \in Receivers, NEW j \in 1..Len(more) PROVE ids[m + j] \notin To(r)
    <3>1. \A i \in 1..m : ids[i] # ids[m + j]
      BY <1>1, <1>11
    <3> QED BY <3>1
  <2>7. ASSUME NEW r \in Receivers, NEW s \in Receivers \ {r} PROVE To(r) \cap To(s) = {}
    <3>1. \A i, j \in 1..m : ids[i] = ids[j] => i = j
      BY <1>1, <1>11
    <3> QED BY <3>1
  <2> HIDE DEF To
  <2>8. ASSUME NEW r \in Receivers PROVE Got(r)' \subseteq 1..Read' /\ (Got(r) \cap Ready)' = {}
    <3>1. Got(r)' \subseteq Got(r) \cup To(r)
      BY <1>12
    <3>2. Got(r)' \subseteq 1..Read'
      BY <2>1, <2>2, <2>3, <3>1
    <3>3. ASSUME NEW y \in Got(r), y \in Ready' PROVE FALSE
      BY <2>2, <2>3, <2>4, <2>5, <3>3
    <3>4. ASSUME NEW y \in To(r), y \in Ready' PROVE FALSE
      <4>1. y \notin Ready
        BY <2>1, <2>3, <2>5
      <4>2. PICK j \in 1..Len(more) : y = ids[m + j]
        BY <2>4, <3>4, <4>1
      <4> QED BY <2>6, <4>2
    <3> QED BY <3>1, <3>2, <3>3, <3>4
  <2>9. ASSUME NEW r \in Receivers, NEW s \in Receivers \ {r} PROVE Got(r)' \cap Got(s)' = {}
    <3>1. Got(r)' \subseteq Got(r) \cup To(r) /\ Got(s)' \subseteq Got(s) \cup To(s)
      BY <1>12
    <3>2. Got(r) \cap Got(s) = {}
      BY <1>0 DEF GivenOnce
    <3> QED BY <2>1, <2>2, <2>3, <2>7, <3>1, <3>2
  <2> QED BY <2>8, <2>9 DEF GivenOnce
<1>17. NobodyWaitsForReady'
  <2>1. CASE m = Len(pending_recv)
    <3>1. Len(pending_recv') = 0
      BY <1>2, <1>5, <2>1
    <3> QED BY <1>5, <3>1, EmptySeq DEF NobodyWaitsForReady
  <2>2. CASE m # Len(pending_recv)
    <3>1. m = Len(ids) /\ Len(pending_recv) # 0
      BY <1>2, <1>3, <2>2
    <3>2. ready_q = <<>>
      BY <1>0, <3>1 DEF NobodyWaitsForReady
    <3>3. Len(more) = 0
      BY <1>2, <1>a, <3>1
    <3>4. Len(ready_q') = 0
      BY <1>10, <3>2, <3>3
    <3> QED BY <1>10, <3>4, EmptySeq DEF NobodyWaitsForReady
  <2> QED BY <2>1, <2>2
<1> QED BY <1>13, <1>14, <1>15, <1>16, <1>17 DEF UdpInv

LEMMA NextUdpInv == UdpInv /\ [UdpNext]_udpvars => UdpInv'
<1> SUFFICES ASSUME UdpInv, [UdpNext]_udpvars PROVE UdpInv'
  OBVIOUS
<1>1. CASE UdpCaller
  BY <1>1, AskKeeps
<1>2. CASE DatagramArrives
  BY <1>2, ArrivalKeeps
<1>3. CASE SocketDrains \/ UdpShutdown \/ UNCHANGED udpvars
  <2>1. /\ UNCHANGED <<transport, recv_q, pending_recv, ready_q, dgram_send_q>>
        /\ UNCHANGED <<pending_sends, burst, rx, came, replies>>
    BY <1>3 DEF SocketDrains, UdpShutdown, udpvars
  <2>2. UdpTypeOK' /\ NobodyWaitsForReady'
    BY <2>1 DEF UdpInv, UdpTypeOK, NobodyWaitsForReady
  <2>3. GaveNothing
    BY <2>1 DEF GaveNothing, Got
  <2> QED BY <2>1, <2>2, <2>3, GaveNothingKeeps
<1>4. CASE DrainRecv
  BY <1>4, DrainRecvKeeps
<1>5. CASE DrainSendEpoll \/ EnqueueSendmsg
  BY <1>5, SendKeeps
<1>6. CASE SendCompletes
  BY <1>6, CompletionKeeps
<1>7. CASE EpollRead \/ Receive
  <2>1. \E n \in 0..Len(rx) : /\ \E ids \in Batches(n) : OnDatagrams(ids)
                              /\ rx' = SubSeq(rx, n + 1, Len(rx))
    <3>1. CASE EpollRead
      BY <3>1 DEF EpollRead
    <3>2. CASE Receive
      <4>1. PICK n \in 1..Len(rx) : /\ \E ids \in Batches(n) : OnDatagrams(ids)
                                   /\ rx' = SubSeq(rx, n + 1, Len(rx))
        BY <3>2 DEF Receive
      <4>2. n \in 0..Len(rx)
        OBVIOUS
      <4> QED BY <4>1, <4>2
    <3> QED BY <1>7, <3>1, <3>2
  <2>2. UNCHANGED <<transport, recv_q, dgram_send_q, pending_sends, burst, came>>
    BY <1>7 DEF EpollRead, Receive
  <2> QED BY <2>1, <2>2, OnDatagramsKeeps
<1>8. CASE FlushPendingSends
  BY <1>8, FlushKeeps
<1>9. CASE DrainUdp
  BY <1>9, DrainUdpKeeps
<1> QED BY <1>1, <1>2, <1>3, <1>4, <1>5, <1>6, <1>7, <1>8, <1>9 DEF UdpNext, UdpAdvance

\* Every datagram that was read waits in ready_q, was given to one receiver
\* or was dropped, and none waits in ready_q while a receiver waits.
THEOREM UdpInvHolds == UdpSpec => []UdpInv
<1>1. UdpInit => UdpInv
  BY InitUdpInv
<1>2. UdpInv /\ [UdpNext]_udpvars => UdpInv'
  BY NextUdpInv
<1> QED BY <1>1, <1>2, PTL DEF UdpSpec

\* on_recv() and drain_recv_q(), which each look at what the other has left,
\* never leave a datagram and a receiver waiting for each other, and no two
\* receivers get the same datagram.
THEOREM DatagramsAreMet == UdpSpec => []DatagramsMeetReceivers
<1>1. UdpInv => DatagramsMeetReceivers
  <2> SUFFICES ASSUME UdpInv PROVE DatagramsMeetReceivers
    OBVIOUS
  <2>1. pending_recv = <<>> \/ ready_q = <<>>
    BY DEF UdpInv, NobodyWaitsForReady
  <2>2. ASSUME NEW r \in Receivers, NEW s \in Receivers,
               r # s, replies[r] # <<>>, replies[r] = replies[s]
        PROVE  replies[r][1] = Failed
    <3>1. replies[r] \in Seq(Nat) /\ 1 \in 1..Len(replies[r])
      <4>1. replies[r] \in Seq(Nat)
        BY DEF UdpInv, UdpTypeOK
      <4> QED BY <2>2, <4>1
    <3>2. Got(r) \cap Got(s) = {}
      BY <2>2 DEF UdpInv, GivenOnce
    <3> QED BY <2>2, <3>1, <3>2 DEF Got
  <2> QED BY <2>1, <2>2 DEF DatagramsMeetReceivers
<1> QED BY <1>1, UdpInvHolds, PTL

-----------------------------------------------------------------------------
\* Where a request waits: in one place, once.
InAQueue == Range(recv_q) \cup Range(pending_recv) \cup Range(dgram_send_q)
            \cup Range(pending_sends) \cup Range(burst)

OnePlace ==
  /\ IsInjective(recv_q) /\ IsInjective(pending_recv) /\ IsInjective(dgram_send_q)
  /\ IsInjective(pending_sends) /\ IsInjective(burst)
  /\ Range(recv_q) \cap Range(pending_recv) = {}
  /\ Range(dgram_send_q) \cap Range(pending_sends) = {}
  /\ Range(dgram_send_q) \cap Range(burst) = {}
  /\ Range(pending_sends) \cap Range(burst) = {}

\* A request that waits was made and has not been told anything, and one that
\* was made waits, was told once, or was dropped.
WaitsOrTold ==
  \A r \in Receivers \cup Senders :
     /\ Len(replies[r]) \in {0, 1}
     /\ Len(replies[r]) = 1 => r \in made_of
     /\ r \in InAQueue => r \in made_of /\ Len(replies[r]) = 0
     /\ r \in made_of => r \in InAQueue \cup dropped \/ Len(replies[r]) = 1

OnceInv == UdpTypeOK /\ OnePlace /\ WaitsOrTold

-----------------------------------------------------------------------------
\* The requests N are made, and those of A, which waited or are new, are told.
Telling(N, A) ==
  /\ N \cap made_of = {} /\ made_of' = made_of \cup N
  /\ A \subseteq InAQueue \cup N /\ InAQueue' \subseteq (InAQueue \cup N) \ A
  /\ (InAQueue \cup N) \ A \subseteq InAQueue' \cup dropped' /\ dropped \subseteq dropped'
  /\ \A r \in Receivers \cup Senders :
        Len(replies'[r]) = IF r \in A THEN Len(replies[r]) + 1 ELSE Len(replies[r])

LEMMA TellingKeeps ==
  ASSUME UdpTypeOK, WaitsOrTold, NEW N, NEW A, Telling(N, A)
  PROVE  WaitsOrTold'
<1> USE DEF Telling
<1>1. ASSUME NEW r \in Receivers \cup Senders
      PROVE  /\ Len(replies'[r]) \in {0, 1}
             /\ Len(replies'[r]) = 1 => r \in made_of'
             /\ r \in InAQueue' => r \in made_of' /\ Len(replies'[r]) = 0
             /\ r \in made_of' => r \in InAQueue' \cup dropped' \/ Len(replies'[r]) = 1
  <2>1. PICK k \in {0, 1} : k = Len(replies[r])
    BY DEF WaitsOrTold
  <2>2. r \in N => k = 0
    BY <2>1 DEF WaitsOrTold
  <2>3. r \in InAQueue => k = 0 /\ r \in made_of
    BY <2>1 DEF WaitsOrTold
  <2>4. k = 1 => r \in made_of
    BY <2>1 DEF WaitsOrTold
  <2>5. CASE r \in A
    <3>1. r \in InAQueue \cup N /\ r \notin InAQueue'
      BY <2>5
    <3>2. k = 0 /\ r \in made_of'
      BY <2>2, <2>3, <3>1
    <3>3. Len(replies'[r]) = 1
      <4>1. Len(replies'[r]) = Len(replies[r]) + 1
        BY <2>5
      <4>2. Len(replies[r]) = 0
        BY <2>1, <3>2
      <4> QED BY <4>1, <4>2
    <3> QED BY <3>1, <3>2, <3>3
  <2>6. CASE r \notin A
    <3>1. Len(replies'[r]) = k
      BY <2>1, <2>6
    <3>2. r \in InAQueue' => k = 0 /\ r \in made_of'
      BY <2>2, <2>3
    <3>3. r \in made_of' => r \in InAQueue' \cup dropped' \/ k = 1
      <4>1. r \in made_of => r \in InAQueue \cup dropped \/ k = 1
        BY <2>1 DEF WaitsOrTold
      <4> QED BY <2>6, <4>1
    <3> QED BY <2>4, <3>1, <3>2, <3>3
  <2> QED BY <2>5, <2>6
<1> QED BY <1>1 DEF WaitsOrTold

\* Reply() tells one request once.
LEMMA ToldLen ==
  ASSUME UdpTypeOK, NEW r \in Receivers \cup Senders, NEW x \in Nat, Reply(r, x)
  PROVE  \A s \in Receivers \cup Senders :
            Len(replies'[s]) = IF s \in {r} THEN Len(replies[s]) + 1 ELSE Len(replies[s])
BY ToldIs

\* A request is made: it waits, or is refused at once.
LEMMA MadeKeeps ==
  ASSUME UdpTypeOK, WaitsOrTold, NEW r, r \notin made_of, made_of' = made_of \cup {r},
         InAQueue' = InAQueue \cup {r}, UNCHANGED <<replies, dropped>>
  PROVE  WaitsOrTold'
<1>1. PICK N, A : N = {r} /\ A = {}
  OBVIOUS
<1>2. /\ N \cap made_of = {} /\ made_of' = made_of \cup N
      /\ A \subseteq InAQueue \cup N /\ InAQueue' \subseteq (InAQueue \cup N) \ A
      /\ (InAQueue \cup N) \ A \subseteq InAQueue' \cup dropped' /\ dropped \subseteq dropped'
  BY <1>1
<1>3. \A s \in Receivers \cup Senders :
         Len(replies'[s]) = IF s \in A THEN Len(replies[s]) + 1 ELSE Len(replies[s])
  BY <1>1
<1>4. Telling(N, A)
  BY <1>2, <1>3 DEF Telling
<1> QED BY <1>4, TellingKeeps

LEMMA RefusedKeeps ==
  ASSUME UdpTypeOK, WaitsOrTold, NEW r \in Receivers \cup Senders,
         r \notin made_of, made_of' = made_of \cup {r},
         InAQueue' = InAQueue, Reply(r, Failed), UNCHANGED dropped
  PROVE  WaitsOrTold'
<1>1. PICK N, A : N = {r} /\ A = {r}
  OBVIOUS
<1>2. r \notin InAQueue
  BY DEF WaitsOrTold
<1>3. /\ N \cap made_of = {} /\ made_of' = made_of \cup N
      /\ A \subseteq InAQueue \cup N /\ InAQueue' \subseteq (InAQueue \cup N) \ A
      /\ (InAQueue \cup N) \ A \subseteq InAQueue' \cup dropped' /\ dropped \subseteq dropped'
  BY <1>1, <1>2
<1>4. \A s \in Receivers \cup Senders :
         Len(replies'[s]) = IF s \in A THEN Len(replies[s]) + 1 ELSE Len(replies[s])
  BY <1>1, ToldLen DEF Failed
<1>5. Telling(N, A)
  BY <1>3, <1>4 DEF Telling
<1> QED BY <1>5, TellingKeeps

\* Requests that waited are told, and wait no more.
LEMMA ToldKeeps ==
  ASSUME UdpTypeOK, WaitsOrTold, NEW A, A \subseteq InAQueue, made_of' = made_of,
         InAQueue' \subseteq InAQueue \ A,
         InAQueue \ A \subseteq InAQueue' \cup dropped', dropped \subseteq dropped',
         \A r \in Receivers \cup Senders :
            Len(replies'[r]) = IF r \in A THEN Len(replies[r]) + 1 ELSE Len(replies[r])
  PROVE  WaitsOrTold'
<1>1. PICK N : N = {}
  OBVIOUS
<1>2. N \cap made_of = {} /\ made_of' = made_of \cup N
  BY <1>1
<1>3. A \subseteq InAQueue \cup N /\ InAQueue' \subseteq (InAQueue \cup N) \ A
  BY <1>1
<1>4. (InAQueue \cup N) \ A \subseteq InAQueue' \cup dropped'
  BY <1>1
<1>5. \A r \in Receivers \cup Senders :
         Len(replies'[r]) = IF r \in A THEN Len(replies[r]) + 1 ELSE Len(replies[r])
  OBVIOUS
<1>6. Telling(N, A)
  BY <1>2, <1>3, <1>4, <1>5 DEF Telling
<1> QED BY <1>6, TellingKeeps

\* Requests that only move from one place to another.
LEMMA MovedKeeps ==
  ASSUME UdpTypeOK, WaitsOrTold, UNCHANGED <<made_of, replies>>, InAQueue' \subseteq InAQueue,
         InAQueue \subseteq InAQueue' \cup dropped', dropped \subseteq dropped'
  PROVE  WaitsOrTold'
<1>1. PICK A : A = {}
  OBVIOUS
<1>2. /\ A \subseteq InAQueue /\ InAQueue' \subseteq InAQueue \ A
      /\ InAQueue \ A \subseteq InAQueue' \cup dropped'
  BY <1>1
<1>3. \A r \in Receivers \cup Senders :
         Len(replies'[r]) = IF r \in A THEN Len(replies[r]) + 1 ELSE Len(replies[r])
  BY <1>1
<1> QED BY <1>2, <1>3, ToldKeeps

\* A sequence without repetitions, cut after its first n elements.
LEMMA CutIs ==
  ASSUME NEW S, NEW s \in Seq(S), IsInjective(s), NEW n \in 0..Len(s)
  PROVE  /\ IsInjective(SubSeq(s, n + 1, Len(s))) /\ IsInjective(SubSeq(s, 1, n))
         /\ Range(SubSeq(s, 1, n)) = {s[i] : i \in 1..n}
         /\ Range(SubSeq(s, n + 1, Len(s))) = Range(s) \ {s[i] : i \in 1..n}
<1>1. PICK t \in Seq(S) : /\ t = SubSeq(s, n + 1, Len(s)) /\ Len(t) = Len(s) - n
                          /\ \A i \in 1..Len(s) - n : t[i] = s[n + i]
  <2> DEFINE u == SubSeq(s, n + 1, Len(s))
  <2>1. u \in Seq(S) /\ Len(u) = Len(s) - n /\ \A i \in 1..Len(s) - n : u[i] = s[n + i]
    BY RestIs
  <2> QED BY <2>1
<1>2. PICK f \in Seq(S) : f = SubSeq(s, 1, n) /\ Len(f) = n /\ \A i \in 1..n : f[i] = s[i]
  <2> DEFINE u == SubSeq(s, 1, n)
  <2>1. u \in Seq(S) /\ Len(u) = n /\ \A i \in 1..n : u[i] = s[i]
    BY FirstIs
  <2> QED BY <2>1
<1>3. /\ Len(s) \in Nat /\ DOMAIN s = 1..Len(s) /\ DOMAIN t = 1..Len(s) - n
      /\ DOMAIN f = 1..n /\ n \in Nat /\ n <= Len(s)
  BY <1>1, <1>2
<1>4. \A i \in 1..Len(s) - n : n + i \in 1..Len(s) /\ n + i \notin 1..n
  BY <1>3
<1>5. \A i, j \in 1..Len(s) : s[i] = s[j] => i = j
  BY <1>3 DEF IsInjective
<1>6. IsInjective(f) /\ Range(f) = {s[i] : i \in 1..n}
  <2>1. \A i \in 1..n : i \in 1..Len(s)
    BY <1>3
  <2>2. IsInjective(f)
    BY <1>2, <1>3, <1>5, <2>1 DEF IsInjective
  <2> QED BY <1>2, <1>3, <2>2 DEF Range
<1>7. IsInjective(t)
  <2>1. ASSUME NEW i \in 1..Len(s) - n, NEW j \in 1..Len(s) - n, t[i] = t[j] PROVE i = j
    <3>1. n + i = n + j
      BY <1>1, <1>4, <1>5, <2>1
    <3> QED BY <1>3, <3>1
  <2> QED BY <1>3, <2>1 DEF IsInjective
<1>8. ASSUME NEW x \in Range(t) PROVE x \in Range(s) \ {s[i] : i \in 1..n}
  <2>1. PICK j \in 1..Len(s) - n : x = s[n + j]
    BY <1>1, <1>3 DEF Range
  <2>2. \A i \in 1..n : i \in 1..Len(s) /\ i # n + j
    BY <1>3, <1>4
  <2> QED BY <1>3, <1>4, <1>5, <2>1, <2>2 DEF Range
<1>9. ASSUME NEW x \in Range(s) \ {s[i] : i \in 1..n} PROVE x \in Range(t)
  <2>1. PICK j \in 1..Len(s) : x = s[j] /\ j \notin 1..n
    BY <1>3 DEF Range
  <2>2. j - n \in 1..Len(s) - n /\ n + (j - n) = j
    BY <1>3, <2>1
  <2> QED BY <1>1, <1>3, <2>1, <2>2 DEF Range
<1> QED BY <1>1, <1>2, <1>6, <1>7, <1>8, <1>9

\* A sequence without repetitions, without its i-th element.
LEMMA PluckIs ==
  ASSUME NEW S, NEW s \in Seq(S), IsInjective(s), NEW i \in 1..Len(s)
  PROVE  IsInjective(RemoveAt(s, i)) /\ Range(RemoveAt(s, i)) = Range(s) \ {s[i]}
<1>1. PICK a \in Seq(S) : a = SubSeq(s, 1, i - 1) /\ Len(a) = i - 1 /\ \A j \in 1..i - 1 : a[j] = s[j]
  <2> DEFINE u == SubSeq(s, 1, i - 1)
  <2>1. u \in Seq(S) /\ Len(u) = i - 1 /\ \A j \in 1..i - 1 : u[j] = s[j]
    OBVIOUS
  <2> QED BY <2>1
<1>2. PICK b \in Seq(S) : /\ b = SubSeq(s, i + 1, Len(s)) /\ Len(b) = Len(s) - i
                          /\ \A j \in 1..Len(s) - i : b[j] = s[i + j]
  <2> DEFINE u == SubSeq(s, i + 1, Len(s))
  <2>1. u \in Seq(S) /\ Len(u) = Len(s) - i /\ \A j \in 1..Len(s) - i : u[j] = s[i + j]
    OBVIOUS
  <2> QED BY <2>1
<1>3. PICK t \in Seq(S) : /\ t = RemoveAt(s, i) /\ Len(t) = Len(a) + Len(b)
                          /\ \A j \in 1..Len(a) : t[j] = a[j]
                          /\ \A j \in 1..Len(b) : t[Len(a) + j] = b[j]
  <2>1. RemoveAt(s, i) = a \o b
    BY <1>1, <1>2 DEF RemoveAt
  <2>2. /\ a \o b \in Seq(S) /\ Len(a \o b) = Len(a) + Len(b)
        /\ \A j \in 1..Len(a) : (a \o b)[j] = a[j]
        /\ \A j \in 1..Len(b) : (a \o b)[Len(a) + j] = b[j]
    BY ConcatIs
  <2> QED BY <2>1, <2>2
<1>4. /\ Len(s) \in Nat /\ i \in Nat /\ i >= 1 /\ i <= Len(s)
      /\ DOMAIN s = 1..Len(s) /\ DOMAIN t = 1..Len(s) - 1
  <2>1. Len(t) = Len(s) - 1
    BY <1>1, <1>2, <1>3
  <2> QED BY <2>1
<1>5. ASSUME NEW j \in 1..Len(s) - 1, j < i PROVE j \in 1..Len(s) /\ t[j] = s[j]
  <2>1. j \in 1..i - 1 /\ j \in 1..Len(s)
    BY <1>4, <1>5
  <2> QED BY <1>1, <1>3, <2>1
<1>6. ASSUME NEW j \in 1..Len(s) - 1, ~(j < i) PROVE j + 1 \in 1..Len(s) /\ t[j] = s[j + 1]
  <2>1. PICK h \in 1..Len(s) - i : j = i - 1 + h
    <3>1. j - i + 1 \in 1..Len(s) - i /\ j = i - 1 + (j - i + 1)
      BY <1>4, <1>6
    <3> QED BY <3>1
  <2>2. t[i - 1 + h] = s[i + h]
    BY <1>1, <1>2, <1>3
  <2>3. i + h = j + 1 /\ j + 1 \in 1..Len(s)
    BY <1>4, <2>1
  <2> QED BY <2>1, <2>2, <2>3
<1> DEFINE old(j) == IF j < i THEN j ELSE j + 1
<1>7. ASSUME NEW j \in 1..Len(s) - 1
      PROVE  old(j) \in 1..Len(s) /\ old(j) # i /\ t[j] = s[old(j)]
  <2>1. CASE j < i
    BY <1>4, <1>5, <2>1
  <2>2. CASE ~(j < i)
    BY <1>4, <1>6, <2>2
  <2> QED BY <2>1, <2>2
<1>8. ASSUME NEW j \in 1..Len(s) - 1, NEW h \in 1..Len(s) - 1, old(j) = old(h) PROVE j = h
  BY <1>4, <1>8
<1>9. ASSUME NEW j \in 1..Len(s), j # i PROVE \E h \in 1..Len(s) - 1 : old(h) = j
  <2>1. CASE j < i
    <3>1. j \in 1..Len(s) - 1 /\ old(j) = j
      BY <1>4, <2>1
    <3> QED BY <3>1
  <2>2. CASE ~(j < i)
    <3>1. j - 1 \in 1..Len(s) - 1 /\ old(j - 1) = j
      BY <1>4, <1>9, <2>2
    <3> QED BY <3>1
  <2> QED BY <2>1, <2>2
<1> HIDE DEF old
<1>10. \A j, h \in 1..Len(s) : s[j] = s[h] => j = h
  BY <1>4 DEF IsInjective
<1>11. IsInjective(t)
  <2>1. ASSUME NEW j \in 1..Len(s) - 1, NEW h \in 1..Len(s) - 1, t[j] = t[h] PROVE j = h
    <3>1. old(j) = old(h)
      BY <1>7, <1>10, <2>1
    <3> QED BY <1>8, <3>1
  <2> QED BY <1>4, <2>1 DEF IsInjective
<1>12. ASSUME NEW x \in Range(t) PROVE x \in Range(s) \ {s[i]}
  <2>1. PICK j \in 1..Len(s) - 1 : x = s[old(j)]
    BY <1>4, <1>7 DEF Range
  <2>2. s[old(j)] # s[i]
    BY <1>7, <1>10
  <2> QED BY <1>4, <1>7, <2>1, <2>2 DEF Range
<1>13. ASSUME NEW x \in Range(s) \ {s[i]} PROVE x \in Range(t)
  <2>1. PICK j \in 1..Len(s) : x = s[j] /\ j # i
    BY <1>4 DEF Range
  <2>2. PICK h \in 1..Len(s) - 1 : old(h) = j
    BY <1>9, <2>1
  <2> QED BY <1>4, <1>7, <2>1, <2>2 DEF Range
<1> QED BY <1>3, <1>11, <1>12, <1>13

\* Two sequences without repetitions and without a common element.
LEMMA JoinedIs ==
  ASSUME NEW S, NEW s \in Seq(S), NEW t \in Seq(S), IsInjective(s), IsInjective(t),
         Range(s) \cap Range(t) = {}
  PROVE  /\ s \o t \in Seq(S) /\ IsInjective(s \o t)
         /\ Range(s \o t) = Range(s) \cup Range(t)
<1>1. PICK u \in Seq(S) : /\ u = s \o t /\ Len(u) = Len(s) + Len(t)
                          /\ \A i \in 1..Len(s) : u[i] = s[i]
                          /\ \A i \in 1..Len(t) : u[Len(s) + i] = t[i]
                          /\ \A i \in 1..Len(s) + Len(t) :
                                i \in 1..Len(s) \/ \E j \in 1..Len(t) : i = Len(s) + j
  <2>1. /\ s \o t \in Seq(S) /\ Len(s \o t) = Len(s) + Len(t)
        /\ \A i \in 1..Len(s) : (s \o t)[i] = s[i]
        /\ \A i \in 1..Len(t) : (s \o t)[Len(s) + i] = t[i]
        /\ \A i \in 1..Len(s) + Len(t) :
              i \in 1..Len(s) \/ \E j \in 1..Len(t) : i = Len(s) + j
    BY ConcatIs
  <2> QED BY <2>1
<1>2. /\ DOMAIN s = 1..Len(s) /\ DOMAIN t = 1..Len(t) /\ DOMAIN u = 1..Len(u)
      /\ Len(s) \in Nat /\ Len(t) \in Nat
  OBVIOUS
<1>3. ASSUME NEW i \in 1..Len(u), NEW j \in 1..Len(u), u[i] = u[j] PROVE i = j
  <2>1. CASE i \in 1..Len(s) /\ j \in 1..Len(s)
    BY <1>1, <1>2, <1>3, <2>1 DEF IsInjective
  <2>2. ASSUME NEW k \in 1..Len(t), NEW l \in 1..Len(t), i = Len(s) + k, j = Len(s) + l PROVE i = j
    <3>1. k = l
      <4>1. t[k] = t[l]
        BY <1>1, <1>3, <2>2
      <4>2. k \in DOMAIN t /\ l \in DOMAIN t
        BY <1>2
      <4> QED BY <4>1, <4>2 DEF IsInjective
    <3> QED BY <2>2, <3>1
  <2>3. ASSUME NEW l \in 1..Len(t), i \in 1..Len(s), j = Len(s) + l PROVE FALSE
    <3>1. s[i] = t[l]
      BY <1>1, <1>3, <2>3
    <3>2. s[i] \in Range(s) /\ t[l] \in Range(t)
      BY <1>2, <2>3 DEF Range
    <3> QED BY <3>1, <3>2
  <2>4. ASSUME NEW k \in 1..Len(t), j \in 1..Len(s), i = Len(s) + k PROVE FALSE
    <3>1. s[j] = t[k]
      BY <1>1, <1>3, <2>4
    <3>2. s[j] \in Range(s) /\ t[k] \in Range(t)
      BY <1>2, <2>4 DEF Range
    <3> QED BY <3>1, <3>2
  <2> QED BY <1>1, <2>1, <2>2, <2>3, <2>4
<1>4. IsInjective(u)
  BY <1>2, <1>3 DEF IsInjective
<1>5. ASSUME NEW x \in Range(u) PROVE x \in Range(s) \cup Range(t)
  <2>1. PICK i \in 1..Len(u) : x = u[i]
    BY <1>2 DEF Range
  <2>2. CASE i \in 1..Len(s)
    BY <1>1, <1>2, <2>1, <2>2 DEF Range
  <2>3. ASSUME NEW j \in 1..Len(t), i = Len(s) + j PROVE x \in Range(t)
    BY <1>1, <1>2, <2>1, <2>3 DEF Range
  <2> QED BY <1>1, <2>2, <2>3
<1>6. ASSUME NEW x \in Range(s) PROVE x \in Range(u)
  <2>1. PICK i \in 1..Len(s) : x = s[i]
    BY <1>2 DEF Range
  <2>2. i \in 1..Len(u)
    BY <1>1, <1>2
  <2> QED BY <1>1, <1>2, <2>1, <2>2 DEF Range
<1>7. ASSUME NEW x \in Range(t) PROVE x \in Range(u)
  <2>1. PICK i \in 1..Len(t) : x = t[i]
    BY <1>2 DEF Range
  <2>2. Len(s) + i \in 1..Len(u)
    BY <1>1, <1>2
  <2> QED BY <1>1, <1>2, <2>1, <2>2 DEF Range
<1> QED BY <1>1, <1>4, <1>5, <1>6, <1>7

\* ReplyAll() tells each of different requests once.
LEMMA RepliedOnce ==
  ASSUME UdpTypeOK, NEW rs \in Seq(Receivers \cup Senders), IsInjective(rs), NEW x \in Nat,
         replies' = ReplyAll(rs, x)
  PROVE  \A r \in Receivers \cup Senders :
            Len(replies'[r]) = IF r \in Range(rs) THEN Len(replies[r]) + 1 ELSE Len(replies[r])
<1> DEFINE W(r) == {j \in DOMAIN rs : rs[j] = r}
<1>1. replies' = [r \in Receivers \cup Senders |-> replies[r] \o [i \in 1..Cardinality(W(r)) |-> x]]
  BY DEF ReplyAll, UdpTypeOK
<1>2. ASSUME NEW r \in Receivers \cup Senders
      PROVE  Len(replies'[r]) = IF r \in Range(rs) THEN Len(replies[r]) + 1 ELSE Len(replies[r])
  <2>1. Cardinality(W(r)) = IF r \in Range(rs) THEN 1 ELSE 0
    <3>1. CASE r \in Range(rs)
      <4>1. PICK j \in DOMAIN rs : rs[j] = r
        BY <3>1 DEF Range
      <4>2. W(r) = {j}
        BY <4>1 DEF IsInjective
      <4> QED BY <3>1, <4>2, FS_Singleton
    <3>2. CASE r \notin Range(rs)
      <4>1. W(r) = {}
        BY <3>2 DEF Range
      <4> QED BY <3>2, <4>1, FS_EmptySet
    <3> QED BY <3>1, <3>2
  <2>2. PICK c \in {0, 1} : c = Cardinality(W(r))
    BY <2>1
  <2> HIDE DEF W
  <2>3. PICK m \in [1..c -> Nat] : m = [i \in 1..Cardinality(W(r)) |-> x]
    BY <2>2
  <2>4. m \in Seq(Nat) /\ Len(m) = c
    BY <2>2, MadeIs
  <2>5. PICK old \in Seq(Nat) : old = replies[r] /\ replies'[r] = old \o m
    BY <1>1, <2>3 DEF UdpTypeOK
  <2>6. Len(old \o m) = Len(old) + Len(m) /\ Len(old) \in Nat
    BY <2>4, ConcatIs
  <2>7. Len(replies'[r]) = Len(replies[r]) + c
    BY <2>4, <2>5, <2>6
  <2> QED BY <2>1, <2>2, <2>5, <2>6, <2>7
<1> QED BY <1>2

-----------------------------------------------------------------------------
LEMMA InitOnce == UdpInit => OnceInv
<1> SUFFICES ASSUME UdpInit PROVE OnceInv
  OBVIOUS
<1>1. UdpTypeOK
  BY InitUdpInv DEF UdpInv
<1>2. IsInjective(<<>>) /\ Range(<<>>) = {}
  BY DEF IsInjective, Range
<1>3. /\ recv_q = <<>> /\ pending_recv = <<>> /\ dgram_send_q = <<>>
      /\ pending_sends = <<>> /\ burst = <<>> /\ made_of = {}
  BY DEF UdpInit
<1>4. \A r \in Receivers \cup Senders : Len(replies[r]) = 0
  BY DEF UdpInit
<1> QED BY <1>1, <1>2, <1>3, <1>4 DEF OnceInv, OnePlace, WaitsOrTold, InAQueue

\* Whose request a queue holds.
LEMMA QueueHolds ==
  ASSUME UdpTypeOK
  PROVE  /\ Range(recv_q) \subseteq Receivers /\ Range(pending_recv) \subseteq Receivers
         /\ Range(dgram_send_q) \subseteq Senders /\ Range(pending_sends) \subseteq Senders
         /\ Range(burst) \subseteq Senders /\ InAQueue \subseteq Receivers \cup Senders
<1>1. \A S : \A s \in Seq(S) : Range(s) \subseteq S
  BY DEF Range
<1>2. /\ Range(recv_q) \subseteq Receivers /\ Range(pending_recv) \subseteq Receivers
      /\ Range(dgram_send_q) \subseteq Senders /\ Range(pending_sends) \subseteq Senders
      /\ Range(burst) \subseteq Senders
  BY <1>1 DEF UdpTypeOK
<1> QED BY <1>2 DEF InAQueue

LEMMA AskOnce ==
  ASSUME UdpInv, OnceInv, UdpTypeOK', UdpCaller
  PROVE  OnceInv'
<1>0. UdpTypeOK /\ OnePlace /\ WaitsOrTold
  BY DEF OnceInv
<1>1. ASSUME NEW r \in Receivers, AskRecv(r) PROVE OnceInv'
  <2>1. /\ r \notin made_of /\ made_of' = made_of \cup {r}
        /\ UNCHANGED <<pending_recv, dgram_send_q, pending_sends, burst, dropped>>
    BY <1>1 DEF AskRecv
  <2>2. r \notin InAQueue
    BY <1>0, <2>1 DEF WaitsOrTold
  <2>3. CASE recv_q' = Append(recv_q, r) /\ UNCHANGED replies
    <3>1. IsInjective(recv_q') /\ Range(recv_q') = Range(recv_q) \cup {r}
      BY <1>0, <2>2, <2>3, NewInSequence DEF OnePlace, UdpTypeOK, InAQueue
    <3>2. OnePlace'
      BY <1>0, <2>1, <2>2, <3>1 DEF OnePlace, InAQueue
    <3>3. InAQueue' = InAQueue \cup {r}
      BY <2>1, <3>1 DEF InAQueue
    <3>4. WaitsOrTold'
      BY <1>0, <2>1, <2>3, <3>3, MadeKeeps
    <3> QED BY <3>2, <3>4 DEF OnceInv
  <2>4. CASE Reply(r, Failed) /\ UNCHANGED recv_q
    <3>1. OnePlace' /\ InAQueue' = InAQueue
      BY <1>0, <2>1, <2>4 DEF OnePlace, InAQueue
    <3>2. WaitsOrTold'
      BY <1>0, <2>1, <2>4, <3>1, RefusedKeeps
    <3> QED BY <3>1, <3>2 DEF OnceInv
  <2> QED BY <1>1, <2>3, <2>4 DEF AskRecv
<1>2. ASSUME NEW r \in Senders, AskSend(r) PROVE OnceInv'
  <2>1. /\ r \notin made_of /\ made_of' = made_of \cup {r}
        /\ UNCHANGED <<recv_q, pending_recv, pending_sends, burst, dropped>>
    BY <1>2 DEF AskSend
  <2>2. r \notin InAQueue
    BY <1>0, <2>1 DEF WaitsOrTold
  <2>3. CASE dgram_send_q' = Append(dgram_send_q, r) /\ UNCHANGED replies
    <3>1. IsInjective(dgram_send_q') /\ Range(dgram_send_q') = Range(dgram_send_q) \cup {r}
      BY <1>0, <2>2, <2>3, NewInSequence DEF OnePlace, UdpTypeOK, InAQueue
    <3>2. OnePlace'
      BY <1>0, <2>1, <2>2, <3>1 DEF OnePlace, InAQueue
    <3>3. InAQueue' = InAQueue \cup {r}
      BY <2>1, <3>1 DEF InAQueue
    <3>4. WaitsOrTold'
      BY <1>0, <2>1, <2>3, <3>3, MadeKeeps
    <3> QED BY <3>2, <3>4 DEF OnceInv
  <2>4. CASE Reply(r, Failed) /\ UNCHANGED dgram_send_q
    <3>1. OnePlace' /\ InAQueue' = InAQueue
      BY <1>0, <2>1, <2>4 DEF OnePlace, InAQueue
    <3>2. WaitsOrTold'
      BY <1>0, <2>1, <2>4, <3>1, RefusedKeeps
    <3> QED BY <3>1, <3>2 DEF OnceInv
  <2> QED BY <1>2, <2>3, <2>4 DEF AskSend
<1> QED BY <1>1, <1>2 DEF UdpCaller

LEMMA DrainRecvOnce ==
  ASSUME OnceInv, UdpTypeOK', DrainRecv
  PROVE  OnceInv'
<1>0. UdpTypeOK /\ OnePlace /\ WaitsOrTold
  BY DEF OnceInv
<1>1. /\ recv_q # <<>> /\ recv_q' = Tail(recv_q)
      /\ UNCHANGED <<dgram_send_q, pending_sends, burst, made_of>>
  BY DEF DrainRecv
<1>2. PICK r \in Receivers : /\ r = Head(recv_q) /\ r \in Range(recv_q)
                             /\ IsInjective(recv_q') /\ Range(recv_q') = Range(recv_q) \ {r}
  BY <1>0, <1>1, HeadTaken DEF UdpTypeOK, OnePlace
<1>3. r \notin Range(pending_recv) /\ r \in InAQueue
      /\ r \notin Range(dgram_send_q) /\ r \notin Range(pending_sends) /\ r \notin Range(burst)
  BY <1>0, <1>2, QueueHolds, UdpAssumption DEF OnePlace, InAQueue
<1>4. CASE UNCHANGED replies
  <2>1. \/ pending_recv' = Append(pending_recv, r) /\ dropped' = dropped
        \/ pending_recv' = pending_recv /\ dropped' = dropped \cup {r}
    <3>1. ASSUME Reply(r, Head(ready_q)), ready_q # <<>> PROVE FALSE
      <4>1. PICK x \in Nat : x = Head(ready_q)
        BY <1>0, <3>1, TailAt DEF UdpTypeOK
      <4>2. Len(replies'[r]) = Len(replies[r]) + 1 /\ replies[r] \in Seq(Nat)
        BY <1>0, <3>1, <4>1, ToldIs
      <4> QED BY <1>4, <4>2
    <3> QED BY <1>2, <3>1 DEF DrainRecv
  <2>2. /\ IsInjective(pending_recv') /\ Range(pending_recv) \subseteq Range(pending_recv')
        /\ Range(pending_recv') \subseteq Range(pending_recv) \cup {r}
        /\ dropped \subseteq dropped' /\ r \in Range(pending_recv') \cup dropped'
    <3>1. /\ IsInjective(Append(pending_recv, r))
          /\ Range(Append(pending_recv, r)) = Range(pending_recv) \cup {r}
      BY <1>0, <1>3, NewInSequence DEF UdpTypeOK, OnePlace
    <3> QED BY <1>0, <2>1, <3>1 DEF OnePlace
  <2>3. OnePlace'
    BY <1>0, <1>1, <1>2, <1>3, <2>2 DEF OnePlace
  <2>4. InAQueue' \subseteq InAQueue /\ InAQueue \subseteq InAQueue' \cup dropped'
    BY <1>1, <1>2, <2>2 DEF InAQueue
  <2>5. WaitsOrTold'
    BY <1>0, <1>1, <1>4, <2>2, <2>4, MovedKeeps
  <2> QED BY <2>3, <2>5 DEF OnceInv
<1>5. CASE ready_q # <<>> /\ Reply(r, Head(ready_q)) /\ UNCHANGED <<pending_recv, dropped>>
  <2>1. OnePlace'
    BY <1>0, <1>1, <1>2, <1>5 DEF OnePlace
  <2>2. InAQueue' = InAQueue \ {r}
    BY <1>1, <1>2, <1>3, <1>5 DEF InAQueue
  <2>3. PICK x \in Nat : x = Head(ready_q)
    BY <1>0, <1>5, TailAt DEF UdpTypeOK
  <2>4. \A s \in Receivers \cup Senders :
             Len(replies'[s]) = IF s \in {r} THEN Len(replies[s]) + 1 ELSE Len(replies[s])
    BY <1>0, <1>5, <2>3, ToldLen
  <2>5. WaitsOrTold'
    <3>1. {r} \subseteq InAQueue
      BY <1>3
    <3> QED BY <1>0, <1>1, <1>5, <2>2, <2>4, <3>1, ToldKeeps
  <2> QED BY <2>1, <2>5 DEF OnceInv
<1> QED BY <1>2, <1>4, <1>5 DEF DrainRecv

LEMMA SendOnce ==
  ASSUME OnceInv, UdpTypeOK', DrainSendEpoll \/ EnqueueSendmsg
  PROVE  OnceInv'
<1>0. UdpTypeOK /\ OnePlace /\ WaitsOrTold
  BY DEF OnceInv
<1>1. /\ dgram_send_q # <<>> /\ dgram_send_q' = Tail(dgram_send_q)
      /\ UNCHANGED <<recv_q, pending_recv, made_of, dropped>>
  BY DEF DrainSendEpoll, EnqueueSendmsg
<1>2. PICK r \in Senders : /\ r = Head(dgram_send_q) /\ r \in Range(dgram_send_q)
                           /\ IsInjective(dgram_send_q')
                           /\ Range(dgram_send_q') = Range(dgram_send_q) \ {r}
  BY <1>0, <1>1, HeadTaken DEF UdpTypeOK, OnePlace
<1>3. /\ r \in InAQueue /\ r \notin Range(pending_sends) /\ r \notin Range(burst)
      /\ r \notin Range(recv_q) /\ r \notin Range(pending_recv)
  BY <1>0, <1>2, QueueHolds, UdpAssumption DEF OnePlace, InAQueue
<1>4. /\ IsInjective(Append(pending_sends, r)) /\ IsInjective(Append(burst, r))
      /\ Range(Append(pending_sends, r)) = Range(pending_sends) \cup {r}
      /\ Range(Append(burst, r)) = Range(burst) \cup {r}
  BY <1>0, <1>3, NewInSequence DEF UdpTypeOK, OnePlace
<1>5. CASE pending_sends' = Append(pending_sends, r) /\ UNCHANGED <<burst, replies>>
  <2>1. OnePlace'
    BY <1>0, <1>1, <1>2, <1>3, <1>4, <1>5 DEF OnePlace
  <2>2. InAQueue' = InAQueue
    BY <1>1, <1>2, <1>4, <1>5 DEF InAQueue
  <2>3. WaitsOrTold'
    BY <1>0, <1>1, <1>5, <2>2, MovedKeeps
  <2> QED BY <2>1, <2>3 DEF OnceInv
<1>6. CASE burst' = Append(burst, r) /\ UNCHANGED <<pending_sends, replies>>
  <2>1. OnePlace'
    BY <1>0, <1>1, <1>2, <1>3, <1>4, <1>6 DEF OnePlace
  <2>2. InAQueue' = InAQueue
    BY <1>1, <1>2, <1>4, <1>6 DEF InAQueue
  <2>3. WaitsOrTold'
    BY <1>0, <1>1, <1>6, <2>2, MovedKeeps
  <2> QED BY <2>1, <2>3 DEF OnceInv
<1>7. ASSUME NEW x \in {Done, Failed}, Reply(r, x), UNCHANGED <<pending_sends, burst>>
      PROVE  OnceInv'
  <2>1. OnePlace'
    BY <1>0, <1>1, <1>2, <1>7 DEF OnePlace
  <2>2. InAQueue' = InAQueue \ {r} /\ {r} \subseteq InAQueue
    BY <1>1, <1>2, <1>3, <1>7 DEF InAQueue
  <2>3. \A s \in Receivers \cup Senders :
           Len(replies'[s]) = IF s \in {r} THEN Len(replies[s]) + 1 ELSE Len(replies[s])
    BY <1>0, <1>7, ToldLen DEF Done, Failed
  <2>4. WaitsOrTold'
    BY <1>0, <1>1, <2>2, <2>3, ToldKeeps
  <2> QED BY <2>1, <2>4 DEF OnceInv
<1>8. CASE DrainSendEpoll
  BY <1>2, <1>5, <1>7, <1>8 DEF DrainSendEpoll, Sent
<1>9. CASE EnqueueSendmsg
  BY <1>2, <1>6, <1>7, <1>9 DEF EnqueueSendmsg
<1> QED BY <1>8, <1>9

LEMMA CompletionOnce ==
  ASSUME OnceInv, UdpTypeOK', SendCompletes
  PROVE  OnceInv'
<1>0. UdpTypeOK /\ OnePlace /\ WaitsOrTold
  BY DEF OnceInv
<1>1. UNCHANGED <<recv_q, pending_recv, dgram_send_q, pending_sends, made_of, dropped>>
  BY DEF SendCompletes
<1>2. burst \in Seq(Senders) /\ DOMAIN burst = 1..Len(burst) /\ IsInjective(burst)
  BY <1>0 DEF UdpTypeOK, OnePlace
<1>3. ASSUME NEW i \in DOMAIN burst, NEW res \in {Done, Failed},
             Reply(burst[i], res), burst' = RemoveAt(burst, i)
      PROVE  OnceInv'
  <2>1. PICK r \in Senders : r = burst[i]
    BY <1>2
  <2>2. IsInjective(burst') /\ Range(burst') = Range(burst) \ {r} /\ r \in Range(burst)
    <3>1. IsInjective(RemoveAt(burst, i)) /\ Range(RemoveAt(burst, i)) = Range(burst) \ {burst[i]}
      BY <1>2, PluckIs
    <3> QED BY <1>3, <2>1, <3>1 DEF Range
  <2>3. OnePlace'
    BY <1>0, <1>1, <2>2 DEF OnePlace
  <2>4. r \notin Range(dgram_send_q) /\ r \notin Range(pending_sends)
        /\ r \notin Range(recv_q) /\ r \notin Range(pending_recv)
    BY <1>0, <2>2, QueueHolds, UdpAssumption DEF OnePlace
  <2>5. {r} \subseteq InAQueue /\ InAQueue' = InAQueue \ {r}
    BY <1>1, <2>2, <2>4 DEF InAQueue
  <2>6. \A s \in Receivers \cup Senders :
           Len(replies'[s]) = IF s \in {r} THEN Len(replies[s]) + 1 ELSE Len(replies[s])
    BY <1>0, <1>3, <2>1, ToldLen DEF Done, Failed
  <2>7. WaitsOrTold'
    BY <1>0, <1>1, <2>5, <2>6, ToldKeeps
  <2> QED BY <2>3, <2>7 DEF OnceInv
<1>4. ASSUME NEW k \in 0..Len(burst), burst' = <<>>,
             replies' = [r \in DOMAIN replies |->
                    IF r \notin {burst[i] : i \in DOMAIN burst} THEN replies[r]
                    ELSE Append(replies[r],
                                IF \E i \in 1..k : burst[i] = r
                                THEN Done ELSE Failed)]
      PROVE  OnceInv'
  <2>1. IsInjective(burst') /\ Range(burst') = {}
    BY <1>4 DEF IsInjective, Range
  <2>2. OnePlace'
    BY <1>0, <1>1, <2>1 DEF OnePlace
  <2>3. PICK A : A = Range(burst)
    OBVIOUS
  <2>4. A \subseteq InAQueue /\ InAQueue' = InAQueue \ A
    BY <1>0, <1>1, <2>1, <2>3, QueueHolds, UdpAssumption DEF OnePlace, InAQueue
  <2>5. ASSUME NEW r \in Receivers \cup Senders
        PROVE  Len(replies'[r]) = IF r \in A THEN Len(replies[r]) + 1 ELSE Len(replies[r])
    <3>1. r \in A <=> r \in {burst[i] : i \in DOMAIN burst}
      BY <2>3 DEF Range
    <3>2. r \in DOMAIN replies /\ replies[r] \in Seq(Nat)
      BY <1>0 DEF UdpTypeOK
    <3>3. PICK x \in Nat : x = IF \E i \in 1..k : burst[i] = r THEN Done ELSE Failed
      BY DEF Done, Failed
    <3>4. replies'[r] = IF r \in A THEN Append(replies[r], x) ELSE replies[r]
      BY <1>4, <3>1, <3>2, <3>3
    <3>5. Len(Append(replies[r], x)) = Len(replies[r]) + 1
      BY <3>2, AppendAt
    <3> QED BY <3>4, <3>5
  <2>6. WaitsOrTold'
    BY <1>0, <1>1, <2>4, <2>5, ToldKeeps
  <2> QED BY <2>2, <2>6 DEF OnceInv
<1> QED BY <1>3, <1>4 DEF SendCompletes

LEMMA FlushOnce ==
  ASSUME OnceInv, UdpTypeOK', FlushPendingSends
  PROVE  OnceInv'
<1>0. UdpTypeOK /\ OnePlace /\ WaitsOrTold
  BY DEF OnceInv
<1>1. UNCHANGED <<recv_q, pending_recv, dgram_send_q, burst, made_of, dropped>>
  BY DEF FlushPendingSends
<1>2. PICK n \in 0..Len(pending_sends), x \in {Done, Failed} :
        /\ pending_sends' = SubSeq(pending_sends, n + 1, Len(pending_sends))
        /\ replies' = ReplyAll(SubSeq(pending_sends, 1, n), x)
  BY DEF FlushPendingSends
<1>3. pending_sends \in Seq(Senders) /\ IsInjective(pending_sends)
      /\ n \in Int /\ n <= Len(pending_sends) /\ x \in Nat
  BY <1>0 DEF UdpTypeOK, OnePlace, Done, Failed
<1>4. PICK rs \in Seq(Senders) : rs = SubSeq(pending_sends, 1, n)
  BY <1>3, FirstIs
<1>5. PICK A : A = Range(rs)
  OBVIOUS
<1>6. /\ IsInjective(pending_sends') /\ IsInjective(rs)
      /\ Range(pending_sends') = Range(pending_sends) \ A
  BY <1>2, <1>3, <1>4, <1>5, CutIs
<1>7. A \subseteq Range(pending_sends)
  <2>1. A = {pending_sends[i] : i \in 1..n}
    BY <1>3, <1>4, <1>5, CutIs
  <2>2. \A i \in 1..n : i \in DOMAIN pending_sends
    BY <1>3
  <2> QED BY <2>1, <2>2 DEF Range
<1>8. OnePlace'
  BY <1>0, <1>1, <1>6 DEF OnePlace
<1>9. A \subseteq InAQueue /\ InAQueue' = InAQueue \ A
  BY <1>0, <1>1, <1>6, <1>7, QueueHolds, UdpAssumption DEF OnePlace, InAQueue
<1>10. \A r \in Receivers \cup Senders :
          Len(replies'[r]) = IF r \in A THEN Len(replies[r]) + 1 ELSE Len(replies[r])
  <2>1. rs \in Seq(Receivers \cup Senders)
    OBVIOUS
  <2>2. replies' = ReplyAll(rs, x)
    BY <1>2, <1>4
  <2> QED BY <1>0, <1>3, <1>5, <1>6, <2>1, <2>2, RepliedOnce
<1>11. WaitsOrTold'
  BY <1>0, <1>1, <1>9, <1>10, ToldKeeps
<1> QED BY <1>8, <1>11 DEF OnceInv

LEMMA OnDatagramsOnce ==
  ASSUME OnceInv, UdpTypeOK', NEW ids \in Seq(Nat), OnDatagrams(ids),
         UNCHANGED <<recv_q, dgram_send_q, pending_sends, burst, made_of, dropped>>
  PROVE  OnceInv'
<1>0. UdpTypeOK /\ OnePlace /\ WaitsOrTold
  BY DEF OnceInv
<1>1. /\ pending_recv \in Seq(Receivers) /\ IsInjective(pending_recv)
      /\ Len(pending_recv) \in Nat /\ Len(ids) \in Nat
  BY <1>0 DEF UdpTypeOK, OnePlace
<1>2. PICK m \in 0..Len(pending_recv) : m = Matched(ids) /\ m <= Len(ids)
  BY <1>1 DEF Matched
<1>3. /\ pending_recv' = SubSeq(pending_recv, m + 1, Len(pending_recv))
      /\ replies' = [r \in DOMAIN replies |->
             IF \E i \in 1..m : pending_recv[i] = r
             THEN Append(replies[r], ids[CHOOSE i \in 1..m : pending_recv[i] = r])
             ELSE replies[r]]
  BY <1>2 DEF OnDatagrams
<1>4. PICK A : A = {pending_recv[i] : i \in 1..m}
  OBVIOUS
<1>5. IsInjective(pending_recv') /\ Range(pending_recv') = Range(pending_recv) \ A
  BY <1>1, <1>3, <1>4, CutIs
<1>6. A \subseteq Range(pending_recv)
  <2>1. \A i \in 1..m : i \in DOMAIN pending_recv
    BY <1>1
  <2> QED BY <1>4, <2>1 DEF Range
<1>7. OnePlace'
  BY <1>0, <1>5 DEF OnePlace
<1>8. A \subseteq InAQueue /\ InAQueue' = InAQueue \ A
  BY <1>0, <1>5, <1>6, QueueHolds, UdpAssumption DEF OnePlace, InAQueue
<1>9. ASSUME NEW r \in Receivers \cup Senders
      PROVE  Len(replies'[r]) = IF r \in A THEN Len(replies[r]) + 1 ELSE Len(replies[r])
  <2>1. r \in DOMAIN replies /\ replies[r] \in Seq(Nat)
    BY <1>0 DEF UdpTypeOK
  <2>2. CASE r \in A
    <3>1. \E i \in 1..m : pending_recv[i] = r
      BY <1>4, <2>2
    <3>2. PICK c \in 1..m : c = CHOOSE i \in 1..m : pending_recv[i] = r
      BY <3>1
    <3>3. PICK x \in Nat : x = ids[c]
      <4>1. c \in 1..Len(ids)
        BY <1>1, <1>2
      <4> QED BY <4>1
    <3>4. replies'[r] = Append(replies[r], x)
      BY <1>3, <2>1, <3>1, <3>2, <3>3
    <3>5. Len(Append(replies[r], x)) = Len(replies[r]) + 1
      BY <2>1, AppendAt
    <3> QED BY <2>2, <3>4, <3>5
  <2>3. CASE r \notin A
    <3>1. ~\E i \in 1..m : pending_recv[i] = r
      BY <1>4, <2>3
    <3> QED BY <1>3, <2>1, <2>3, <3>1
  <2> QED BY <2>2, <2>3
<1>10. WaitsOrTold'
  BY <1>0, <1>8, <1>9, ToldKeeps
<1> QED BY <1>7, <1>10 DEF OnceInv

LEMMA DrainUdpOnce ==
  ASSUME OnceInv, UdpTypeOK', DrainUdp
  PROVE  OnceInv'
<1>0. UdpTypeOK /\ OnePlace /\ WaitsOrTold
  BY DEF OnceInv
<1>1. /\ pending_recv' = <<>> /\ recv_q' = <<>>
      /\ dgram_send_q' = <<>> /\ pending_sends' = <<>> /\ UNCHANGED <<burst, made_of, dropped>>
  BY DEF DrainUdp
<1>2. PICK All : All = Receivers \cup Senders
  OBVIOUS
<1>3. /\ pending_recv \in Seq(All) /\ recv_q \in Seq(All)
      /\ dgram_send_q \in Seq(All) /\ pending_sends \in Seq(All)
  <2>1. /\ pending_recv \in Seq(Receivers \cup Senders) /\ recv_q \in Seq(Receivers \cup Senders)
        /\ dgram_send_q \in Seq(Receivers \cup Senders) /\ pending_sends \in Seq(Receivers \cup Senders)
    BY <1>0 DEF UdpTypeOK
  <2> QED BY <1>2, <2>1
<1>4. PICK p \in Seq(All) : /\ p = pending_recv \o recv_q /\ IsInjective(p)
                            /\ Range(p) = Range(pending_recv) \cup Range(recv_q)
  <2>1. /\ pending_recv \in Seq(All) /\ recv_q \in Seq(All)
        /\ IsInjective(pending_recv) /\ IsInjective(recv_q)
        /\ Range(pending_recv) \cap Range(recv_q) = {}
    BY <1>0, <1>3 DEF OnePlace
  <2>2. /\ pending_recv \o recv_q \in Seq(All) /\ IsInjective(pending_recv \o recv_q)
        /\ Range(pending_recv \o recv_q) = Range(pending_recv) \cup Range(recv_q)
    BY <2>1, JoinedIs
  <2> QED BY <2>2
<1>5. /\ Range(p) \cap Range(dgram_send_q) = {} /\ Range(p) \cap Range(pending_sends) = {}
      /\ Range(p) \cap Range(burst) = {}
  BY <1>0, <1>4, QueueHolds, UdpAssumption
<1>6. PICK q \in Seq(All) : /\ q = p \o dgram_send_q /\ IsInjective(q)
                            /\ Range(q) = Range(p) \cup Range(dgram_send_q)
  <2>1. /\ p \in Seq(All) /\ dgram_send_q \in Seq(All)
        /\ IsInjective(p) /\ IsInjective(dgram_send_q)
        /\ Range(p) \cap Range(dgram_send_q) = {}
    BY <1>0, <1>3, <1>5, <1>4 DEF OnePlace
  <2>2. /\ p \o dgram_send_q \in Seq(All) /\ IsInjective(p \o dgram_send_q)
        /\ Range(p \o dgram_send_q) = Range(p) \cup Range(dgram_send_q)
    BY <2>1, JoinedIs
  <2> QED BY <2>2
<1>7. Range(q) \cap Range(pending_sends) = {}
  BY <1>0, <1>5, <1>6 DEF OnePlace
<1>8. PICK rs \in Seq(All) : /\ rs = q \o pending_sends /\ IsInjective(rs)
                             /\ Range(rs) = Range(q) \cup Range(pending_sends)
  <2>1. /\ q \in Seq(All) /\ pending_sends \in Seq(All)
        /\ IsInjective(q) /\ IsInjective(pending_sends)
        /\ Range(q) \cap Range(pending_sends) = {}
    BY <1>0, <1>3, <1>7, <1>6 DEF OnePlace
  <2>2. /\ q \o pending_sends \in Seq(All) /\ IsInjective(q \o pending_sends)
        /\ Range(q \o pending_sends) = Range(q) \cup Range(pending_sends)
    BY <2>1, JoinedIs
  <2> QED BY <2>2
<1>9. PICK A : A = Range(rs)
  OBVIOUS
<1>10. PICK x \in Nat : x = Failed
  BY DEF Failed
<1>11. \A r \in Receivers \cup Senders :
          Len(replies'[r]) = IF r \in A THEN Len(replies[r]) + 1 ELSE Len(replies[r])
  <2>1. replies' = ReplyAll(rs, x)
    BY <1>4, <1>6, <1>8, <1>10 DEF DrainUdp
  <2>2. rs \in Seq(Receivers \cup Senders)
    BY <1>2
  <2> QED BY <1>0, <1>8, <1>9, <2>1, <2>2, RepliedOnce
<1>12. IsInjective(<<>>) /\ Range(<<>>) = {}
  BY DEF IsInjective, Range
<1>13. OnePlace'
  BY <1>0, <1>1, <1>12 DEF OnePlace
<1>14. A \subseteq InAQueue /\ InAQueue' = InAQueue \ A
  <2>1. InAQueue' = Range(burst)
    BY <1>1, <1>12 DEF InAQueue
  <2>2. A \cap Range(burst) = {}
    BY <1>0, <1>5, <1>6, <1>8, <1>9 DEF OnePlace
  <2>3. InAQueue = A \cup Range(burst)
    BY <1>4, <1>6, <1>8, <1>9 DEF InAQueue
  <2> QED BY <2>1, <2>2, <2>3
<1>15. WaitsOrTold'
  BY <1>0, <1>1, <1>11, <1>14, ToldKeeps
<1> QED BY <1>13, <1>15 DEF OnceInv

LEMMA NextOnce == UdpInv /\ UdpInv' /\ OnceInv /\ [UdpNext]_udpvars => OnceInv'
<1> SUFFICES ASSUME UdpInv, UdpInv', OnceInv, [UdpNext]_udpvars PROVE OnceInv'
  OBVIOUS
<1>0. UdpTypeOK' /\ UdpTypeOK /\ InSocket
  BY DEF UdpInv
<1>1. CASE UdpCaller
  BY <1>0, <1>1, AskOnce
<1>2. CASE DatagramArrives \/ SocketDrains \/ UdpShutdown \/ UNCHANGED udpvars
  <2>1. /\ UNCHANGED <<recv_q, pending_recv, dgram_send_q, pending_sends>>
        /\ UNCHANGED <<burst, replies, made_of, dropped>>
    BY <1>2 DEF DatagramArrives, SocketDrains, UdpShutdown, udpvars
  <2> QED BY <1>0, <2>1 DEF OnceInv, OnePlace, WaitsOrTold, InAQueue
<1>3. CASE DrainRecv
  BY <1>0, <1>3, DrainRecvOnce
<1>4. CASE DrainSendEpoll \/ EnqueueSendmsg
  BY <1>0, <1>4, SendOnce
<1>5. CASE SendCompletes
  BY <1>0, <1>5, CompletionOnce
<1>6. CASE EpollRead \/ Receive
  <2>1. \E n \in 0..Len(rx) : \E ids \in Batches(n) : OnDatagrams(ids)
    <3>1. CASE EpollRead
      BY <3>1 DEF EpollRead
    <3>2. CASE Receive
      <4>1. PICK n \in 1..Len(rx) : \E ids \in Batches(n) : OnDatagrams(ids)
        BY <3>2 DEF Receive
      <4>2. n \in 0..Len(rx)
        OBVIOUS
      <4> QED BY <4>1, <4>2
    <3> QED BY <1>6, <3>1, <3>2
  <2>2. UNCHANGED <<recv_q, dgram_send_q, pending_sends, burst, made_of, dropped>>
    BY <1>6 DEF EpollRead, Receive
  <2>3. PICK ids \in Seq(Nat) : OnDatagrams(ids)
    BY <1>0, <2>1, BatchIs
  <2> QED BY <1>0, <2>2, <2>3, OnDatagramsOnce
<1>7. CASE FlushPendingSends
  BY <1>0, <1>7, FlushOnce
<1>8. CASE DrainUdp
  BY <1>0, <1>8, DrainUdpOnce
<1> QED BY <1>1, <1>2, <1>3, <1>4, <1>5, <1>6, <1>7, <1>8 DEF UdpNext, UdpAdvance

LEMMA OnceInvHolds == UdpSpec => []OnceInv
<1>1. UdpInit => OnceInv
  BY InitOnce
<1>2. UdpInv /\ UdpInv' /\ OnceInv /\ [UdpNext]_udpvars => OnceInv'
  BY NextOnce
<1> QED BY <1>1, <1>2, UdpInvHolds, PTL DEF UdpSpec

-----------------------------------------------------------------------------
\* A send that met a full socket waits until the socket can send, and then
\* for the event that says so.
KeptSends == pending_sends # <<>> => transport = "epoll" /\ (~writable \/ edge \/ seen)

\* Behind the reads of an event a datagram is left only where an empty one,
\* which came before it, ended them.
SizesTrue == \A i \in 1..Len(rx) : rx[i].size = came[rx[i].id]
Announced ==
  (transport = "epoll" /\ rx # <<>> /\ ~edge) =>
     \E i \in DOMAIN came : came[i] = "empty" /\ i < rx[1].id

RestInv == made_of \subseteq Receivers \cup Senders /\ KeptSends /\ SizesTrue /\ Announced

LEMMA KeptStep ==
  ASSUME UdpTypeOK, KeptSends, [UdpNext]_udpvars
  PROVE  KeptSends'
<1>1. CASE /\ UNCHANGED <<pending_sends, transport, seen>>
           /\ (~writable => ~writable' \/ edge') /\ (edge => edge')
  BY <1>1 DEF KeptSends
<1>2. CASE UNCHANGED <<pending_sends, transport, writable>> /\ seen'
  BY <1>2 DEF KeptSends
<1>3. CASE UdpCaller \/ DatagramArrives \/ SocketDrains \/ UdpShutdown \/ DrainRecv \/ EnqueueSendmsg
           \/ SendCompletes \/ Receive \/ UNCHANGED udpvars
  <2>1. CASE UdpCaller
    BY <1>1, <2>1 DEF UdpCaller, AskRecv, AskSend
  <2>2. CASE DatagramArrives \/ SocketDrains \/ UdpShutdown \/ UNCHANGED udpvars
    BY <1>1, <2>2 DEF DatagramArrives, SocketDrains, UdpShutdown, udpvars
  <2>3. CASE DrainRecv \/ EnqueueSendmsg \/ SendCompletes \/ Receive
    BY <1>1, <2>3 DEF DrainRecv, EnqueueSendmsg, SendCompletes, Receive
  <2> QED BY <1>3, <2>1, <2>2, <2>3
<1>4. CASE EpollRead
  BY <1>2, <1>4 DEF EpollRead
<1>5. CASE DrainSendEpoll
  <2>1. CASE ~writable /\ UNCHANGED writable
    BY <1>5, <2>1 DEF DrainSendEpoll, KeptSends
  <2>2. CASE writable /\ UNCHANGED pending_sends
    BY <1>5, <2>2 DEF DrainSendEpoll, KeptSends
  <2> QED BY <1>5, <2>1, <2>2 DEF DrainSendEpoll, Sent
<1>6. CASE FlushPendingSends
  <2>1. PICK n \in 0..Len(pending_sends) :
           /\ pending_sends' = SubSeq(pending_sends, n + 1, Len(pending_sends))
           /\ writable' \in IF n < Len(pending_sends) THEN {FALSE}
                            ELSE IF n = 0 THEN {writable} ELSE BOOLEAN
    BY <1>6 DEF FlushPendingSends
  <2>2. pending_sends \in Seq(Senders) /\ Len(pending_sends) \in Nat
    BY DEF UdpTypeOK
  <2>3. CASE n < Len(pending_sends)
    <3>1. pending_sends # <<>> /\ ~writable' /\ transport' = transport
      BY <1>6, <2>1, <2>2, <2>3 DEF FlushPendingSends
    <3> QED BY <3>1 DEF KeptSends
  <2>4. CASE n = Len(pending_sends)
    BY <2>1, <2>2, <2>4 DEF KeptSends
  <2> QED BY <2>2, <2>3, <2>4
<1>7. CASE DrainUdp
  BY <1>7 DEF DrainUdp, KeptSends
<1> QED BY <1>3, <1>4, <1>5, <1>6, <1>7 DEF UdpNext, UdpAdvance

\* What is in the socket after the first n datagrams were read.
LEMMA UnreadIs ==
  ASSUME UdpTypeOK, InSocket, NEW n \in 0..Len(rx)
  PROVE  LET t == SubSeq(rx, n + 1, Len(rx)) IN
         /\ Len(t) = Len(rx) - n /\ \A i \in 1..Len(t) : n + i \in 1..Len(rx) /\ t[i] = rx[n + i]
<1>1. rx \in Seq([size : {"some", "empty"}, id : Nat]) /\ Len(rx) \in Nat
  BY DEF UdpTypeOK
<1> DEFINE t == SubSeq(rx, n + 1, Len(rx))
<1>2. Len(t) = Len(rx) - n /\ \A i \in 1..Len(rx) - n : t[i] = rx[n + i]
  BY <1>1, RestIs
<1> HIDE DEF t
<1>3. \A i \in 1..Len(t) : n + i \in 1..Len(rx) /\ t[i] = rx[n + i]
  BY <1>1, <1>2
<1> QED BY <1>2, <1>3 DEF t

LEMMA RestStep ==
  ASSUME UdpInv, RestInv, [UdpNext]_udpvars
  PROVE  RestInv'
<1>0. UdpTypeOK /\ InSocket /\ KeptSends /\ SizesTrue /\ Announced
  BY DEF UdpInv, RestInv
<1>1. /\ Len(rx) \in Nat /\ Len(came) \in Nat /\ Len(rx) <= Len(came) /\ DOMAIN came = 1..Len(came)
      /\ rx \in Seq([size : {"some", "empty"}, id : Nat]) /\ came \in Seq({"some", "empty"})
      /\ \A i \in 1..Len(rx) : rx[i].id = Read + i /\ rx[i].id \in 1..Len(came)
  <2>1. rx \in Seq([size : {"some", "empty"}, id : Nat]) /\ came \in Seq({"some", "empty"})
    BY <1>0 DEF UdpTypeOK
  <2>2. Len(rx) \in Nat /\ Len(came) \in Nat /\ DOMAIN came = 1..Len(came)
    BY <2>1
  <2>3. Len(rx) <= Len(came) /\ \A i \in 1..Len(rx) : rx[i].id = Read + i
    BY <1>0 DEF InSocket
  <2>4. ASSUME NEW i \in 1..Len(rx) PROVE rx[i].id \in 1..Len(came)
    <3>1. Len(came) - Len(rx) + i \in 1..Len(came)
      BY <2>2, <2>3
    <3> QED BY <2>3, <3>1, Zenon DEF Read
  <2> QED BY <2>1, <2>2, <2>3, <2>4
<1>2. made_of' \subseteq Receivers \cup Senders
  <2>1. made_of \subseteq Receivers \cup Senders
    BY DEF RestInv
  <2>2. CASE \E r \in Receivers : AskRecv(r)
    BY <2>1, <2>2 DEF AskRecv
  <2>3. CASE \E r \in Senders : AskSend(r)
    BY <2>1, <2>3 DEF AskSend
  <2>4. CASE DatagramArrives \/ SocketDrains \/ UdpShutdown \/ UNCHANGED udpvars
    BY <2>1, <2>4 DEF DatagramArrives, SocketDrains, UdpShutdown, udpvars
  <2>5. CASE DrainRecv \/ DrainSendEpoll \/ EnqueueSendmsg \/ SendCompletes
    BY <2>1, <2>5 DEF DrainRecv, DrainSendEpoll, EnqueueSendmsg, SendCompletes
  <2>6. CASE EpollRead \/ FlushPendingSends \/ Receive \/ DrainUdp
    BY <2>1, <2>6 DEF EpollRead, FlushPendingSends, Receive, DrainUdp
  <2> QED BY <2>2, <2>3, <2>4, <2>5, <2>6 DEF UdpNext, UdpCaller, UdpAdvance
<1>3. KeptSends'
  BY <1>0, KeptStep
<1>4. CASE DatagramArrives
  <2>1. PICK size \in {"some", "empty"} :
           came' = Append(came, size) /\ rx' = Append(rx, [size |-> size, id |-> Len(came) + 1])
    BY <1>4 DEF DatagramArrives
  <2>2. edge'
    BY <1>4 DEF DatagramArrives
  <2>3. PICK d \in [size : {"some", "empty"}, id : Nat] :
           d = [size |-> size, id |-> Len(came) + 1] /\ d.size = size /\ d.id = Len(came) + 1
    <3>1. [size |-> size, id |-> Len(came) + 1] \in [size : {"some", "empty"}, id : Nat]
      BY <1>1
    <3> QED BY <3>1
  <2>4. /\ Len(rx') = Len(rx) + 1 /\ rx'[Len(rx) + 1] = d /\ \A i \in 1..Len(rx) : rx'[i] = rx[i]
        /\ came'[Len(came) + 1] = size /\ \A i \in 1..Len(came) : came'[i] = came[i]
    <3>1. rx' = Append(rx, d)
      BY <2>1, <2>3
    <3>2. Len(rx') = Len(rx) + 1 /\ rx'[Len(rx) + 1] = d /\ \A i \in 1..Len(rx) : rx'[i] = rx[i]
      BY <1>1, <3>1, AppendAt
    <3>3. came'[Len(came) + 1] = size /\ \A i \in 1..Len(came) : came'[i] = came[i]
      BY <1>1, <2>1, AppendAt
    <3> QED BY <3>2, <3>3
  <2>5. ASSUME NEW i \in 1..Len(rx') PROVE rx'[i].size = came'[rx'[i].id]
    <3>1. CASE i = Len(rx) + 1
      BY <2>3, <2>4, <3>1
    <3>2. CASE i \in 1..Len(rx)
      <4>1. rx'[i] = rx[i]
        BY <2>4, <3>2
      <4>2. rx[i].id \in 1..Len(came)
        BY <1>1, <3>2
      <4>3. rx[i].size = came[rx[i].id]
        BY <1>0, <3>2 DEF SizesTrue
      <4>4. came'[rx[i].id] = came[rx[i].id]
        BY <2>4, <4>2
      <4> QED BY <4>1, <4>3, <4>4
    <3>3. i \in 1..Len(rx) + 1 /\ Len(rx) \in Nat
      BY <1>1, <2>4
    <3>4. i \in 1..Len(rx) \/ i = Len(rx) + 1
      BY <3>3
    <3> QED BY <3>1, <3>2, <3>4
  <2> QED BY <1>2, <1>3, <2>2, <2>5 DEF RestInv, SizesTrue, Announced
<1>5. CASE EpollRead \/ Receive
  <2>1. PICK n \in 0..Len(rx) : /\ rx' = SubSeq(rx, n + 1, Len(rx)) /\ UNCHANGED <<came, transport>>
                                /\ transport = "epoll" => Readable(n)
    <3>1. CASE EpollRead
      BY <3>1 DEF EpollRead
    <3>2. CASE Receive
      <4>1. PICK n \in 1..Len(rx) : rx' = SubSeq(rx, n + 1, Len(rx))
        BY <3>2 DEF Receive
      <4>2. n \in 0..Len(rx)
        BY <1>1
      <4> QED BY <3>2, <4>1, <4>2 DEF Receive
    <3> QED BY <1>5, <3>1, <3>2
  <2>2. Len(rx') = Len(rx) - n /\ \A i \in 1..Len(rx') : n + i \in 1..Len(rx) /\ rx'[i] = rx[n + i]
    BY <1>0, <2>1, UnreadIs
  <2>3. SizesTrue'
    BY <1>0, <2>1, <2>2 DEF SizesTrue
  <2>4. ASSUME transport = "epoll", rx' # <<>>
        PROVE  \E i \in DOMAIN came : came[i] = "empty" /\ i < rx'[1].id
    <3>1. n < Len(rx) /\ 1 \in 1..Len(rx') /\ rx'[1] = rx[n + 1]
      <4>1. Len(rx') # 0
        BY <1>1, <2>1, <2>4
      <4>2. n < Len(rx) /\ 1 \in 1..Len(rx')
        BY <1>1, <2>2, <4>1
      <4> QED BY <2>2, <4>2
    <3>2. n \in 1..Len(rx) /\ rx[n].size = "empty"
      BY <1>1, <2>1, <2>4, <3>1 DEF Readable
    <3>3. rx[n].id < rx[n + 1].id
      <4>1. n + 1 \in 1..Len(rx) /\ Read \in Int
        BY <1>1, <3>1 DEF Read
      <4>2. rx[n].id = Read + n /\ rx[n + 1].id = Read + (n + 1)
        BY <1>1, <3>2, <4>1
      <4> QED BY <4>1, <4>2
    <3>4. rx[n].id \in DOMAIN came /\ came[rx[n].id] = "empty"
      BY <1>0, <1>1, <3>2 DEF SizesTrue
    <3> QED BY <3>1, <3>3, <3>4
  <2>5. Announced'
    BY <2>1, <2>4 DEF Announced
  <2> QED BY <1>2, <1>3, <2>3, <2>5 DEF RestInv
<1>6. CASE UNCHANGED <<rx, came, transport>> /\ (edge => edge')
  <2>1. SizesTrue' /\ Announced'
    BY <1>0, <1>6 DEF SizesTrue, Announced
  <2> QED BY <1>2, <1>3, <2>1 DEF RestInv
<1>7. CASE UdpCaller \/ SocketDrains \/ UdpShutdown \/ DrainRecv \/ DrainSendEpoll \/ EnqueueSendmsg
           \/ SendCompletes \/ FlushPendingSends \/ DrainUdp \/ UNCHANGED udpvars
  <2>1. UNCHANGED <<rx, came, transport>> /\ (edge' = edge \/ edge' = TRUE)
    BY <1>7 DEF UdpCaller, AskRecv, AskSend, SocketDrains, UdpShutdown, DrainRecv, DrainSendEpoll,
                EnqueueSendmsg, SendCompletes, FlushPendingSends, DrainUdp, udpvars
  <2> QED BY <1>6, <2>1
<1> QED BY <1>4, <1>5, <1>7 DEF UdpNext, UdpAdvance

LEMMA RestInvHolds == UdpSpec => []RestInv
<1>1. UdpInit => RestInv
  BY DEF UdpInit, RestInv, KeptSends, SizesTrue, Announced
<1>2. UdpInv /\ RestInv /\ [UdpNext]_udpvars => RestInv'
  BY RestStep
<1> QED BY <1>1, <1>2, UdpInvHolds, PTL DEF UdpSpec

\* No request is told twice, whatever completes, drains or is shut down first:
\* a request waits in one queue, once, and leaves it when it is told.  And no
\* send is kept for an event that does not come, nor any request forgotten in
\* a queue: when nothing is left to do, everybody has been told but those that
\* the code abandons.
THEOREM RequestsAreTold == UdpSpec => []RequestsTold
<1>1. OnceInv => ToldOnce
  <2> SUFFICES ASSUME OnceInv, NEW r \in DOMAIN replies PROVE Len(replies[r]) <= 1
    BY DEF ToldOnce
  <2>1. r \in Receivers \cup Senders
    BY DEF OnceInv, UdpTypeOK
  <2>2. PICK k \in {0, 1} : Len(replies[r]) = k
    BY <2>1 DEF OnceInv, WaitsOrTold
  <2>3. k <= 1
    OBVIOUS
  <2> QED BY <2>2, <2>3
<1>2. OnceInv /\ RestInv => RequestsTold
  <2> SUFFICES ASSUME OnceInv, RestInv, UdpQuiet, NEW r \in made_of,
                      Len(replies[r]) # 1, r \notin dropped
               PROVE  IF _shutdown THEN r \in Range(burst) ELSE r \in Range(pending_recv)
    BY <1>1 DEF RequestsTold
  <2>1. r \in InAQueue
    BY DEF OnceInv, WaitsOrTold, RestInv
  <2>2. Range(<<>>) = {}
    BY DEF Range
  <2>3. recv_q = <<>> /\ dgram_send_q = <<>>
    BY DEF UdpQuiet
  <2>4. CASE _shutdown
    BY <2>1, <2>2, <2>3, <2>4 DEF UdpQuiet, InAQueue
  <2>5. CASE ~_shutdown
    <3>1. pending_sends = <<>>
      BY <2>5 DEF RestInv, KeptSends, UdpQuiet
    <3> QED BY <2>1, <2>2, <2>3, <2>5, <3>1 DEF UdpQuiet, InAQueue
  <2> QED BY <2>4, <2>5
<1> QED BY <1>2, OnceInvHolds, RestInvHolds, PTL

\* No datagram stays in the socket of a quiet scheduler, unless an empty one
\* ended the reads of the epoll transport: until the edge is taken all that
\* came is announced, and the reads that take it go on to the end.
THEOREM NothingIsLeftUnread == UdpSpec => []NothingUnread
<1>1. RestInv => NothingUnread
  BY DEF RestInv, Announced, NothingUnread, UdpQuiet
<1> QED BY <1>1, RestInvHolds, PTL
=============================================================================
