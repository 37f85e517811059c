----------------------------- MODULE ProtocolProofs ----------------------------
(***************************************************************************)
(* The protocols above a transport: two whose answers find their requests  *)
(* by number, kcp's retransmission and tcp's framing, for any requests,    *)
(* messages, rooms, rings and numbers of retries.                          *)
(*                                                                         *)
(* RpcCalls: a slot does not remember the request it is for, so two calls a *)
(* capacity apart can meet in it (rpc_slots).  As long as no more requests *)
(* are ever made than a trigger has slots, every call goes on with its own *)
(* response, however the frames are reordered, relayed or lost and whenever *)
(* the session fails.                                                      *)
(*                                                                         *)
(* KcpHandshake: a conversation number never leaves the connections, so a  *)
(* SYN that comes again is known; and a number means one peer as long as   *)
(* the schedulers that are dialled are not dialled by two (OneDialler).    *)
(*                                                                         *)
(* KcpArq: the receiver has delivered or buffered the segments below       *)
(* rcv_nxt and those of rcv_buf, all of them fragments of messages taken   *)
(* from the other end's application; a datagram only says what its sender  *)
(* had and sent, and what a receiver has had it never loses, so however    *)
(* old a datagram is, it is still true.  The loops of kcp are recursive    *)
(* functions: what they compute is proved with the least number at which   *)
(* it would fail (UpTo).                                                   *)
(*                                                                         *)
(* TcpFraming: the ring holds the bytes of the stream that were read and   *)
(* not taken, each in the cell of its position, and starts at a frame; so  *)
(* what reads as a length is one, and what is copied out is a payload.     *)
(***************************************************************************)
EXTENDS RpcCalls, KcpHandshake, KcpArq, TcpFraming, FiniteSetTheorems,
        SequenceTheorems, WellFoundedInduction, TLAPS

\* Every request has a slot of its own.
RoomForAll == Calls \in Nat /\ MapCapacity \in Nat /\ Calls <= MapCapacity

Frames == [id : Ids, error : BOOLEAN]

\* What lies or waits in slot k belongs to request k.
SlotIsOwn(slot, k) == slot.state # "empty" => slot.holds = k

Places == {"idle", "sending", "written", "recv", "waiting", "done", "failed"}
Slots  == [state : {"empty", "wait_frame", "wait_callback"},
           holds : Ids \cup {Nobody}, error : BOOLEAN]
Clients == [call : [Ids -> Places], got : [Ids -> Ids \cup {Nobody}],
            slots : [Services -> [0 .. MapCapacity - 1 -> Slots]]]

\* The client's part: w = [call, got, slots].
ClientInv(w) ==
  /\ w \in Clients
  /\ \A c \in Ids : w.got[c] \in {Nobody, c}
  /\ \A s \in Services : \A k \in 0 .. MapCapacity - 1 : SlotIsOwn(w.slots[s][k], k)

WireInv ==
  /\ send_q \in Seq(Ids) /\ recv_q \in Seq(Ids) /\ ready_q \in Seq(Frames)
  /\ requests \in Seq(Ids) /\ responses \in Seq(Frames)
  /\ handling \subseteq Ids /\ serv_ready_q \in Seq(Ids) /\ serv_send_q \in Seq(Frames)

AnswerInv == ClientInv(Client) /\ WireInv

LEMMA SlotOfId == ASSUME RoomForAll, NEW c \in Ids
                  PROVE  SlotOf(c) = c /\ c \in 0 .. MapCapacity - 1
  BY DEF RoomForAll, Ids, SlotOf

LEMMA ServiceOfId == ASSUME NEW c \in Ids PROVE ServiceOf[c] \in Services
  BY DEF Services

\* A call that goes on with the response to its own request.
LEMMA FinishOwn ==
  ASSUME NEW w, ClientInv(w), NEW c \in Ids, NEW f \in Frames, f.id = c
  PROVE  ClientInv(Finish(w, c, f))
<1> DEFINE place == IF f.error THEN "failed" ELSE "done"
           v == [call |-> [w.call EXCEPT ![c] = place],
                 got |-> [w.got EXCEPT ![c] = f.id], slots |-> w.slots]
<1>1. Finish(w, c, f) = v
  <2>1. w = [call |-> w.call, got |-> w.got, slots |-> w.slots]
    BY DEF ClientInv, Clients
  <2>2. Finish(w, c, f) = [[w EXCEPT !.call = v.call] EXCEPT !.got = v.got]
    BY <2>1 DEF Finish
  <2> HIDE DEF place
  <2> QED BY <2>1, <2>2
<1>2. place \in Places /\ f.id \in Ids
  BY DEF Places, Frames
<1>3. v \in Clients
  <2> HIDE DEF place
  <2> QED BY <1>2 DEF ClientInv, Clients
<1>4. \A d \in Ids : v.got[d] \in {Nobody, d}
  BY DEF ClientInv, Clients
<1>5. v.slots = w.slots
  OBVIOUS
<1> HIDE DEF v
<1> QED BY <1>1, <1>3, <1>4, <1>5 DEF ClientInv

LEMMA SetSlot ==
  ASSUME NEW w, ClientInv(w), NEW s \in Services, NEW k \in 0 .. MapCapacity - 1,
         NEW slot \in Slots, SlotIsOwn(slot, k)
  PROVE  ClientInv([w EXCEPT !.slots[s][k] = slot])
<1> DEFINE row == [w.slots[s] EXCEPT ![k] = slot]
           all == [w.slots EXCEPT ![s] = row]
           v == [call |-> w.call, got |-> w.got, slots |-> all]
<1>1. [w EXCEPT !.slots[s][k] = slot] = v
  <2>1. [w EXCEPT !.slots[s][k] = slot] = [w EXCEPT !.slots = all]
    OBVIOUS
  <2> HIDE DEF all
  <2> QED BY <2>1 DEF ClientInv, Clients
<1>2. all \in [Services -> [0 .. MapCapacity - 1 -> Slots]]
  <2>1. w.slots \in [Services -> [0 .. MapCapacity - 1 -> Slots]]
    BY DEF ClientInv, Clients
  <2>2. row \in [0 .. MapCapacity - 1 -> Slots]
    BY <2>1
  <2> HIDE DEF row
  <2> QED BY <2>1, <2>2
<1>3. \A t \in Services : \A i \in 0 .. MapCapacity - 1 : SlotIsOwn(all[t][i], i)
  <2> TAKE t \in Services
  <2> TAKE i \in 0 .. MapCapacity - 1
  <2>1. all[t][i] = IF t = s /\ i = k THEN slot ELSE w.slots[t][i]
    BY DEF ClientInv, Clients
  <2>2. SlotIsOwn(w.slots[t][i], i)
    BY DEF ClientInv
  <2> HIDE DEF all
  <2> QED BY <2>1, <2>2
<1>4. v \in Clients /\ v.got = w.got /\ v.slots = all
  <2> HIDE DEF all
  <2> QED BY <1>2 DEF ClientInv, Clients
<1> HIDE DEF v, all
<1> QED BY <1>1, <1>3, <1>4 DEF ClientInv

LEMMA SetCall ==
  ASSUME NEW w, ClientInv(w), NEW c \in Ids, NEW place \in Places
  PROVE  ClientInv([w EXCEPT !.call[c] = place])
<1> DEFINE v == [call |-> [w.call EXCEPT ![c] = place], got |-> w.got, slots |-> w.slots]
<1>1. [w EXCEPT !.call[c] = place] = v
  BY DEF ClientInv, Clients
<1>2. v \in Clients /\ v.got = w.got /\ v.slots = w.slots
  BY DEF ClientInv, Clients
<1> HIDE DEF v
<1> QED BY <1>1, <1>2 DEF ClientInv

LEMMA EmptyIsOwn ==
  ASSUME NEW k
  PROVE  SlotIsOwn(Empty, k) /\ Empty \in Slots
  BY DEF SlotIsOwn, Empty, Slots

\* on_frame relays a frame to the call it answers.
LEMMA OnResponseOwn ==
  ASSUME RoomForAll, NEW w, ClientInv(w),
         NEW c \in Ids, NEW f \in Frames
  PROVE  ClientInv(OnResponse(w, c, f))
<1> DEFINE s == ServiceOf[c]
           k == SlotOf(f.id)
           slot == w.slots[s][k]
<1>1. s \in Services /\ f.id \in Ids /\ f.error \in BOOLEAN /\ k = f.id
      /\ k \in 0 .. MapCapacity - 1
  BY ServiceOfId, SlotOfId DEF Frames
<1>2. /\ slot \in Slots
      /\ SlotIsOwn(slot, k)
  BY <1>1 DEF ClientInv, Clients
<1>3. CASE slot.state = "empty"
  <2> DEFINE new == [state |-> "wait_callback", holds |-> f.id, error |-> f.error]
  <2>1. OnResponse(w, c, f) = [w EXCEPT !.slots[s][k] = new]
    BY <1>3 DEF OnResponse
  <2>2. SlotIsOwn(new, k)
        /\ new \in Slots
    BY <1>1 DEF SlotIsOwn, Slots
  <2> HIDE DEF s, k, new
  <2> QED BY <2>1, <2>2, <1>1, SetSlot
<1>4. CASE slot.state = "wait_callback"
  <2>1. OnResponse(w, c, f) = [w EXCEPT !.call[c] = "failed"]
    BY <1>4 DEF OnResponse
  <2> QED BY <2>1, SetCall DEF Places
<1>5. CASE slot.state = "wait_frame"
  <2> DEFINE v == [w EXCEPT !.slots[s][k] = Empty]
  <2>1. OnResponse(w, c, f) = Finish(v, slot.holds, f)
    BY <1>5 DEF OnResponse
  <2>2. slot.holds = f.id
    BY <1>1, <1>2, <1>5 DEF SlotIsOwn
  <2>3. ClientInv(v)
    <3> HIDE DEF s, k
    <3> QED BY <1>1, EmptyIsOwn, SetSlot
  <2> HIDE DEF v
  <2> QED BY <2>1, <2>2, <2>3, <1>1, FinishOwn
<1> QED BY <1>2, <1>3, <1>4, <1>5 DEF Slots

\* on_callback takes what lies in the call's own slot.
LEMMA WaitResponseOwn ==
  ASSUME RoomForAll, NEW w, ClientInv(w),
         NEW c \in Ids
  PROVE  ClientInv(WaitResponse(w, c))
<1> DEFINE s == ServiceOf[c]
           k == SlotOf(c)
           slot == w.slots[s][k]
<1>1. s \in Services /\ k = c /\ k \in 0 .. MapCapacity - 1
  BY ServiceOfId, SlotOfId
<1>2. /\ slot \in Slots
      /\ SlotIsOwn(slot, k)
  BY <1>1 DEF ClientInv, Clients
<1>3. CASE slot.state = "empty"
  <2> DEFINE new == [state |-> "wait_frame", holds |-> c, error |-> FALSE]
             v == [w EXCEPT !.slots[s][k] = new]
  <2>1. WaitResponse(w, c) = [v EXCEPT !.call[c] = "waiting"]
    BY <1>3 DEF WaitResponse
  <2>2. SlotIsOwn(new, k)
        /\ new \in Slots
    BY <1>1 DEF SlotIsOwn, Slots
  <2>3. ClientInv(v)
    <3> HIDE DEF s, k, new
    <3> QED BY <1>1, <2>2, SetSlot
  <2> HIDE DEF v
  <2> QED BY <2>1, <2>3, SetCall DEF Places
<1>4. CASE slot.state = "wait_frame"
  <2>1. WaitResponse(w, c) = [w EXCEPT !.call[c] = "failed"]
    BY <1>4 DEF WaitResponse
  <2> QED BY <2>1, SetCall DEF Places
<1>5. CASE slot.state = "wait_callback"
  <2> DEFINE v == [w EXCEPT !.slots[s][k] = Empty]
             f == Frame(slot.holds, slot.error)
  <2>1. WaitResponse(w, c) = Finish(v, c, f)
    BY <1>5 DEF WaitResponse
  <2>2. f \in Frames /\ f.id = c
    BY <1>1, <1>2, <1>5 DEF SlotIsOwn, Frame, Frames, Slots
  <2>3. ClientInv(v)
    <3> HIDE DEF s, k
    <3> QED BY <1>1, EmptyIsOwn, SetSlot
  <2> HIDE DEF v, f
  <2> QED BY <2>1, <2>2, <2>3, FinishOwn
<1> QED BY <1>2, <1>3, <1>4, <1>5 DEF Slots

LEMMA ReceiveOwn ==
  ASSUME RoomForAll, NEW w, ClientInv(w),
         NEW c \in Ids, NEW f \in Frames
  PROVE  ClientInv(Receive(w, c, f))
<1>1. CASE f.id = c
  BY <1>1, FinishOwn DEF Receive
<1>2. CASE f.id # c
  <2> DEFINE r == OnResponse(w, c, f)
  <2>1. ClientInv(r)
    BY OnResponseOwn
  <2>2. Receive(w, c, f) = IF r.call[c] = "failed" THEN r ELSE WaitResponse(r, c)
    BY <1>2 DEF Receive
  <2> HIDE DEF r
  <2> QED BY <2>1, <2>2, WaitResponseOwn
<1> QED BY <1>1, <1>2

\* A handler in which call c receives frame f.
LEMMA Received ==
  ASSUME RoomForAll, ClientInv(Client), NEW c \in Ids, NEW f \in Frames,
         Becomes(Receive(Client, c, f))
  PROVE  ClientInv(Client)'
<1> DEFINE r == Receive(Client, c, f)
<1>1. ClientInv(r)
  BY ReceiveOwn DEF Client
<1>2. call' = r.call /\ got' = r.got /\ slots' = r.slots
  BY DEF Becomes
<1> HIDE DEF r
<1>3. r = [call |-> r.call, got |-> r.got, slots |-> r.slots]
  BY <1>1 DEF ClientInv, Clients
<1>4. Client' = r
  BY <1>2, <1>3 DEF Client
<1>5. ClientInv(Client') <=> ClientInv(Client)'
  BY DEF ClientInv, Clients, SlotIsOwn, Client
<1> QED BY <1>1, <1>4, <1>5

-----------------------------------------------------------------------------
LEMMA QueueFacts ==
  ASSUME NEW S, NEW q \in Seq(S)
  PROVE  /\ q # <<>> => Head(q) \in S /\ Tail(q) \in Seq(S)
         /\ \A x \in S : Append(q, x) \in Seq(S)
         /\ <<>> \in Seq(S)
  OBVIOUS

LEMMA InitAnswerInv == RoomForAll /\ RpcInit => AnswerInv
<1> SUFFICES ASSUME RoomForAll, RpcInit PROVE AnswerInv
  OBVIOUS
<1>1. Client \in Clients
  BY EmptyIsOwn DEF RpcInit, Client, Clients, Places
<1>2. ClientInv(Client)
  BY <1>1, EmptyIsOwn DEF RpcInit, Client, ClientInv
<1>3. WireInv
  BY DEF RpcInit, WireInv
<1> QED BY <1>2, <1>3 DEF AnswerInv

\* A step that moves calls from place to place and leaves the rest.
LEMMA Moved ==
  ASSUME ClientInv(Client), call' \in [Ids -> Places], UNCHANGED <<got, slots>>
  PROVE  ClientInv(Client)'
  BY DEF ClientInv, Clients, Client, SlotIsOwn

LEMMA ClientParts ==
  ASSUME ClientInv(Client)
  PROVE  /\ call \in [Ids -> Places]
         /\ \A c \in Ids : got[c] \in {Nobody, c}
  BY DEF ClientInv, Clients, Client

LEMMA NextAnswerInv ==
  ASSUME RoomForAll, AnswerInv, [RpcNext]_rpcVars
  PROVE  AnswerInv'
<1>0. ClientInv(Client) /\ WireInv /\ call \in [Ids -> Places]
  BY ClientParts DEF AnswerInv
<1> USE DEF AnswerInv
<1>1. CASE UNCHANGED rpcVars
  BY <1>0, <1>1, Moved DEF rpcVars, clientVars, serverVars, WireInv
<1>2. ASSUME NEW c \in Ids, Call(c)
      PROVE  AnswerInv'
  <2>1. call' \in [Ids -> Places]
    BY <1>0, <1>2 DEF Call, Places
  <2> QED BY <1>0, <1>2, <2>1, Moved DEF Call, serverVars, WireInv
<1>3. CASE Write
  <2>1. call' \in [Ids -> Places]
    BY <1>0, <1>3 DEF Write, Places
  <2>2. WireInv'
    BY <1>0, <1>3 DEF Write, serverVars, WireInv
  <2> QED BY <1>0, <1>3, <2>1, <2>2, Moved DEF Write
<1>4. ASSUME NEW c \in Ids, Sent(c)
      PROVE  AnswerInv'
  <2>1. CASE closed \/ (ready_q = <<>> /\ Len(recv_q) = QueueRoom)
    <3>1. call' \in [Ids -> Places]
      BY <1>0, <1>4, <2>1 DEF Sent, Places
    <3> QED BY <1>0, <1>4, <2>1, <3>1, Moved DEF Sent, serverVars, WireInv
  <2>2. CASE ~(closed \/ (ready_q = <<>> /\ Len(recv_q) = QueueRoom)) /\ ready_q # <<>>
    <3>1. Head(ready_q) \in Frames /\ Becomes(Receive(Client, c, Head(ready_q)))
      BY <1>0, <1>4, <2>2 DEF Sent, WireInv
    <3>2. Tail(ready_q) \in Seq(Frames)
      BY <1>0, <2>2, QueueFacts DEF WireInv
    <3>3. WireInv'
      BY <1>0, <1>4, <2>2, <3>2 DEF Sent, serverVars, WireInv
    <3> QED BY <1>0, <3>1, <3>3, Received
  <2>3. CASE ~(closed \/ (ready_q = <<>> /\ Len(recv_q) = QueueRoom)) /\ ready_q = <<>>
    <3>1. call' \in [Ids -> Places]
      BY <1>0, <1>4, <2>3 DEF Sent, Places
    <3>2. recv_q' = Append(recv_q, c) /\ recv_q' \in Seq(Ids)
      <4>1. recv_q' = Append(recv_q, c)
        BY <1>4, <2>3 DEF Sent
      <4>2. recv_q \in Seq(Ids)
        BY <1>0 DEF WireInv
      <4> QED BY <4>1, <4>2, QueueFacts
    <3>3. UNCHANGED <<got, slots, send_q, ready_q, serverVars, requests, responses>>
      BY <1>4, <2>3 DEF Sent
    <3> QED BY <1>0, <3>1, <3>2, <3>3, Moved DEF serverVars, WireInv
  <2> QED BY <2>1, <2>2, <2>3
<1>5. CASE OnFrame
  <2>1. Head(responses) \in Frames
    BY <1>0, <1>5 DEF OnFrame, WireInv
  <2>2. WireInv'
    <3>1. UNCHANGED <<send_q, serverVars, requests>> /\ responses' = Tail(responses)
      BY <1>5 DEF OnFrame
    <3>2. responses' \in Seq(Frames)
      BY <1>0, <1>5, <3>1, QueueFacts DEF OnFrame, WireInv
    <3>3. recv_q' \in Seq(Ids)
      BY <1>0, <1>5, QueueFacts DEF OnFrame, WireInv
    <3>4. ready_q' \in {ready_q, Append(ready_q, Head(responses))}
      BY <1>5 DEF OnFrame
    <3>5. ready_q' \in Seq(Frames)
      <4>1. ready_q \in Seq(Frames)
        BY <1>0 DEF WireInv
      <4> QED BY <2>1, <3>4, <4>1, QueueFacts
    <3> QED BY <1>0, <3>1, <3>2, <3>3, <3>5 DEF serverVars, WireInv
  <2>3. CASE recv_q # <<>>
    <3>1. Head(recv_q) \in Ids /\ Becomes(Receive(Client, Head(recv_q), Head(responses)))
      BY <1>0, <1>5, <2>3 DEF OnFrame, WireInv
    <3> QED BY <1>0, <2>1, <2>2, <3>1, Received
  <2>4. CASE recv_q = <<>>
    <3>1. UNCHANGED <<call, got, slots>>
      BY <1>5, <2>4 DEF OnFrame
    <3> QED BY <1>0, <2>2, <3>1, Moved
  <2> QED BY <2>3, <2>4
<1>6. CASE OnError
  <2>1. call' \in [Ids -> Places]
    BY <1>0, <1>6 DEF OnError, Places
  <2> QED BY <1>0, <1>6, <2>1, Moved DEF OnError, serverVars, WireInv
<1>7. CASE RecvReq \/ SendRes \/ ServError \/ Break \/ \E c \in Ids : Dispatch(c)
  <2>1. UNCHANGED <<call, got, slots, send_q, recv_q, ready_q>>
    BY <1>7 DEF RecvReq, SendRes, ServError, Break, Dispatch, clientVars
  <2>2. ClientInv(Client)'
    BY <1>0, <2>1, Moved
  <2>3. CASE RecvReq
    <3>1. Head(requests) \in Ids /\ requests' = Tail(requests) /\ requests' \in Seq(Ids)
      BY <1>0, <2>3, QueueFacts DEF RecvReq, WireInv
    <3>2. handling' \subseteq Ids /\ serv_ready_q' \in Seq(Ids)
      BY <1>0, <2>3, <3>1, QueueFacts DEF RecvReq, WireInv
    <3>3. UNCHANGED <<serv_send_q, responses>>
      BY <2>3 DEF RecvReq
    <3> QED BY <1>0, <2>1, <2>2, <3>1, <3>2, <3>3 DEF WireInv
  <2>4. CASE SendRes
    <3>1. /\ serv_send_q # <<>> /\ serv_send_q' = Tail(serv_send_q)
          /\ responses' \in {responses, Append(responses, Head(serv_send_q))}
          /\ NextIteration(serving, handling) /\ UNCHANGED requests
      BY <2>4 DEF SendRes
    <3>2. serv_send_q' \in Seq(Frames) /\ responses' \in Seq(Frames)
      <4>1. serv_send_q \in Seq(Frames) /\ responses \in Seq(Frames)
        BY <1>0 DEF WireInv
      <4>2. Head(serv_send_q) \in Frames /\ Tail(serv_send_q) \in Seq(Frames)
        BY <3>1, <4>1, QueueFacts
      <4>3. Append(responses, Head(serv_send_q)) \in Seq(Frames)
        BY <4>1, <4>2, QueueFacts
      <4> QED BY <3>1, <4>1, <4>2, <4>3
    <3>3. handling' \subseteq Ids /\ serv_ready_q' \in Seq(Ids)
      BY <1>0, <3>1, QueueFacts DEF NextIteration, WireInv
    <3> QED BY <1>0, <2>1, <2>2, <3>1, <3>2, <3>3 DEF WireInv
  <2>5. CASE ServError
    BY <1>0, <2>1, <2>2, <2>5 DEF ServError, WireInv
  <2>6. CASE Break
    BY <1>0, <2>1, <2>2, <2>6 DEF Break, serverVars, WireInv
  <2>7. ASSUME NEW c \in Ids, Dispatch(c)
        PROVE  AnswerInv'
    <3>1. PICK error \in BOOLEAN : serv_send_q' = Append(serv_send_q, Frame(c, error))
      BY <2>7 DEF Dispatch
    <3>2. Frame(c, error) \in Frames
      BY DEF Frame, Frames
    <3> QED BY <1>0, <2>1, <2>2, <2>7, <3>1, <3>2 DEF Dispatch, WireInv
  <2> QED BY <1>7, <2>3, <2>4, <2>5, <2>6, <2>7
<1> QED BY <1>1, <1>2, <1>3, <1>4, <1>5, <1>6, <1>7
        DEF RpcNext, ClientStep, ServerStep

(* With a slot for every request that is made, a call goes on with the     *)
(* response to its own request only.                                       *)
THEOREM CallsGetTheirOwn == RoomForAll => (RpcSpec => []OwnAnswer)
<1> SUFFICES ASSUME RoomForAll PROVE RpcSpec => []OwnAnswer
  OBVIOUS
<1>1. RpcInit => AnswerInv
  BY InitAnswerInv
<1>2. AnswerInv /\ [RpcNext]_rpcVars => AnswerInv'
  BY NextAnswerInv
<1>3. AnswerInv => OwnAnswer
  BY ClientParts DEF AnswerInv, OwnAnswer
<1> QED BY <1>1, <1>2, <1>3, PTL DEF RpcSpec

-----------------------------------------------------------------------------
(* Connections over kcp.                                                    *)

LEMMA TailIs ==
  ASSUME NEW S, NEW s \in Seq(S), s # <<>>
  PROVE  /\ Head(s) \in Range(s) /\ Head(s) \in S
         /\ Tail(s) \in Seq(S) /\ Range(Tail(s)) \subseteq Range(s)
         /\ IsInjective(s) => IsInjective(Tail(s)) /\ Head(s) \notin Range(Tail(s))
<1>1. /\ Head(s) = s[1] /\ Tail(s) \in Seq(S) /\ Len(s) \in Nat \ {0}
      /\ Len(Tail(s)) = Len(s) - 1 /\ \A i \in 1 .. Len(s) - 1 : Tail(s)[i] = s[i + 1]
  OBVIOUS
<1>2. DOMAIN s = 1 .. Len(s) /\ DOMAIN Tail(s) = 1 .. Len(s) - 1
  BY <1>1
<1>3. \A i \in DOMAIN Tail(s) : i + 1 \in DOMAIN s /\ i + 1 # 1 /\ Tail(s)[i] = s[i + 1]
  BY <1>1, <1>2
<1>4. 1 \in DOMAIN s /\ \A i \in DOMAIN s : s[i] \in S
  BY <1>1, <1>2
<1>5. IsInjective(s) => Head(s) \notin Range(Tail(s))
  BY <1>1, <1>3, <1>4 DEF IsInjective, Range
<1>6. IsInjective(s) => IsInjective(Tail(s))
  <2> SUFFICES ASSUME IsInjective(s), NEW i \in DOMAIN Tail(s), NEW j \in DOMAIN Tail(s),
                      Tail(s)[i] = Tail(s)[j]
               PROVE  i = j
    BY DEF IsInjective
  <2>1. i + 1 = j + 1
    BY <1>3 DEF IsInjective
  <2> QED BY <1>1, <1>2, <2>1
<1> QED BY <1>1, <1>3, <1>4, <1>5, <1>6 DEF Range

LEMMA AppendIs ==
  ASSUME NEW S, NEW s \in Seq(S), NEW x \in S
  PROVE  /\ Append(s, x) \in Seq(S) /\ Range(Append(s, x)) = Range(s) \cup {x}
         /\ IsInjective(s) /\ x \notin Range(s) => IsInjective(Append(s, x))
<1>1. /\ Append(s, x) \in Seq(S) /\ Len(s) \in Nat /\ DOMAIN s = 1 .. Len(s)
      /\ DOMAIN Append(s, x) = 1 .. Len(s) + 1
      /\ Append(s, x)[Len(s) + 1] = x /\ \A i \in 1 .. Len(s) : Append(s, x)[i] = s[i]
  OBVIOUS
<1>2. \A i \in 1 .. Len(s) + 1 : i \in 1 .. Len(s) \/ i = Len(s) + 1
  BY <1>1
<1>3. Range(Append(s, x)) = Range(s) \cup {x}
  <2>1. Range(Append(s, x)) \subseteq Range(s) \cup {x}
    BY <1>1, <1>2 DEF Range
  <2>2. \A i \in 1 .. Len(s) : i \in 1 .. Len(s) + 1
    BY <1>1
  <2>3. Len(s) + 1 \in 1 .. Len(s) + 1
    BY <1>1
  <2>4. Range(s) \cup {x} \subseteq Range(Append(s, x))
    BY <1>1, <2>2, <2>3 DEF Range
  <2> QED BY <2>1, <2>4
<1>4. IsInjective(s) /\ x \notin Range(s) => IsInjective(Append(s, x))
  BY <1>1, <1>2 DEF IsInjective, Range
<1> QED BY <1>1, <1>3, <1>4

LEMMA RemoveAtIs ==
  ASSUME NEW S, NEW s \in Seq(S), NEW i \in DOMAIN s
  PROVE  /\ RemoveAt(s, i) \in Seq(S)
         /\ \A k \in DOMAIN RemoveAt(s, i) :
              LET m == IF k < i THEN k ELSE k + 1
              IN m \in DOMAIN s /\ m # i /\ RemoveAt(s, i)[k] = s[m]
<1> DEFINE a == SubSeq(s, 1, i - 1)
           b == SubSeq(s, i + 1, Len(s))
<1>1. Len(s) \in Nat /\ DOMAIN s = 1 .. Len(s) /\ i \in 1 .. Len(s)
  OBVIOUS
<1>2. RemoveAt(s, i) = a \o b
  BY DEF RemoveAt
<1>3. a \in Seq(S) /\ Len(a) = i - 1 /\ \A k \in 1 .. i - 1 : a[k] = s[k]
  BY <1>1, SubSeqProperties
<1>4. b \in Seq(S) /\ Len(b) = Len(s) - i /\ \A k \in 1 .. Len(s) - i : b[k] = s[i + k]
  BY <1>1, SubSeqProperties
<1> HIDE DEF a, b
<1>5. /\ a \o b \in Seq(S) /\ Len(a \o b) = Len(s) - 1
      /\ \A k \in 1 .. Len(s) - 1 : (a \o b)[k] = IF k <= i - 1 THEN a[k] ELSE b[k - (i - 1)]
  <2>1. a \o b \in Seq(S) /\ Len(a \o b) = Len(a) + Len(b)
    BY <1>3, <1>4, ConcatProperties
  <2>2. \A k \in 1 .. Len(a) + Len(b) : (a \o b)[k] = IF k <= Len(a) THEN a[k] ELSE b[k - Len(a)]
    BY <1>3, <1>4, ConcatProperties
  <2>3. Len(a) + Len(b) = Len(s) - 1 /\ Len(a) = i - 1
    BY <1>1, <1>3, <1>4
  <2> HIDE DEF a, b
  <2> QED BY <2>1, <2>2, <2>3
<1>6. DOMAIN (a \o b) = 1 .. Len(s) - 1
  <2> DEFINE c == a \o b
  <2>1. c \in Seq(S) /\ Len(c) = Len(s) - 1
    BY <1>5
  <2> HIDE DEF c
  <2>2. DOMAIN c = 1 .. Len(c)
    BY <2>1
  <2> QED BY <2>1, <2>2 DEF c
<1>7. ASSUME NEW k \in 1 .. Len(s) - 1
      PROVE  LET m == IF k < i THEN k ELSE k + 1
             IN m \in 1 .. Len(s) /\ m # i /\ (a \o b)[k] = s[m]
  <2>1. CASE k < i
    <3>1. k \in 1 .. i - 1 /\ k <= i - 1 /\ k \in 1 .. Len(s)
      BY <1>1, <2>1
    <3>2. (a \o b)[k] = a[k]
      BY <1>5, <3>1
    <3> QED BY <1>1, <1>3, <2>1, <3>1, <3>2
  <2>2. CASE ~(k < i)
    <3> DEFINE n == k - (i - 1)
    <3>1. n \in 1 .. Len(s) - i /\ ~(k <= i - 1) /\ i + n = k + 1 /\ k + 1 \in 1 .. Len(s) /\ k + 1 # i
      BY <1>1, <2>2
    <3>2. (a \o b)[k] = b[n]
      BY <1>5, <3>1
    <3> HIDE DEF n
    <3>3. b[n] = s[k + 1]
      BY <1>4, <3>1
    <3> QED BY <2>2, <3>1, <3>2, <3>3
  <2> QED BY <2>1, <2>2
<1> QED BY <1>1, <1>2, <1>5, <1>6, <1>7

LEMMA InitKcpInv == KcpInit => KcpInv
<1> SUFFICES ASSUME KcpInit PROVE KcpInv
  OBVIOUS
<1>1. KcpTypeOK
  BY DEF KcpInit, KcpTypeOK
<1>2. \A h \in Hosts : AcceptAt(h) /\ DialAt(h)
  BY DEF KcpInit, AcceptAt, DialAt, IsInjective, Range
<1>3. \A h \in Hosts : HandedAt(h)
  BY DEF KcpInit, HandedAt, IsInjective, Range, Given
<1>4. GivenInv
  BY DEF KcpInit, GivenInv
<1> QED BY <1>1, <1>2, <1>3, <1>4 DEF KcpInv, HostInv

LEMMA KcpTypes ==
  ASSUME KcpTypeOK, NEW h \in Hosts
  PROVE  /\ connect_q[h] \in Seq(Dials) /\ Range(connect_q[h]) \subseteq Dials
         /\ accept_q[h] \in Seq(Accepts) /\ Range(accept_q[h]) \subseteq Accepts
         /\ pending_accepts[h] \in Seq(Accepts) /\ Range(pending_accepts[h]) \subseteq Accepts
         /\ ready_accepts[h] \in Seq(Nat) /\ Range(ready_accepts[h]) \subseteq Nat
         /\ dials[h] \in Seq(Waiting) /\ next_conv[h] \in Nat \ {0}
         /\ \A i \in DOMAIN dials[h] : /\ dials[h][i] \in Waiting /\ dials[h][i].req \in Dials
                                       /\ dials[h][i].conv \in Nat
<1>1. /\ connect_q[h] \in Seq(Dials) /\ accept_q[h] \in Seq(Accepts)
      /\ pending_accepts[h] \in Seq(Accepts) /\ ready_accepts[h] \in Seq(Nat)
      /\ dials[h] \in Seq(Waiting) /\ next_conv[h] \in Nat \ {0}
  BY DEF KcpTypeOK
<1>2. \A S : \A q \in Seq(S) : Range(q) \subseteq S
  BY DEF Range
<1>3. \A i \in DOMAIN dials[h] : dials[h][i] \in Waiting
  BY <1>1
<1> QED BY <1>1, <1>2, <1>3 DEF Waiting

\* What a step that does not reach a scheduler's places leaves true of them.
LEMMA AcceptAtSame ==
  ASSUME NEW h \in Hosts, AcceptAt(h), accept_q'[h] = accept_q[h],
         pending_accepts'[h] = pending_accepts[h], asked_of \subseteq asked_of',
         \A r \in Range(accept_q[h]) \cup Range(pending_accepts[h]) : given'[r] = given[r]
  PROVE  AcceptAt(h)'
BY DEF AcceptAt, Unanswered

LEMMA DialAtSame ==
  ASSUME NEW h \in Hosts, DialAt(h), connect_q'[h] = connect_q[h], dials'[h] = dials[h],
         next_conv'[h] = next_conv[h], asked_of \subseteq asked_of',
         \A r \in Range(connect_q[h]) : given'[r] = given[r],
         \A i \in DOMAIN dials[h] : given'[dials[h][i].req] = given[dials[h][i].req]
  PROVE  DialAt(h)'
BY DEF DialAt, Unanswered

LEMMA HandedAtSame ==
  ASSUME NEW h \in Hosts, HandedAt(h), ready_accepts'[h] = ready_accepts[h],
         \A r \in Accepts : Accept[r] = h => given'[r] = given[r],
         Conversations(h) \subseteq Conversations(h)'
  PROVE  HandedAt(h)'
<1>1. \A r \in Given(h)' : r \in Given(h) /\ given'[r] = given[r]
  BY DEF Given
<1> QED BY <1>1 DEF HandedAt

\* Requests of one kind wait while one of the other is answered.
LEMMA OthersWait ==
  ASSUME KcpInv, NEW r, \A q \in Dials \cup Accepts : q # r => given'[q] = given[q],
         asked_of \subseteq asked_of'
  PROVE  /\ r \notin Accepts => \A h \in Hosts :
              /\ UNCHANGED <<accept_q, pending_accepts>> => AcceptAt(h)'
              /\ UNCHANGED ready_accepts /\ Conversations(h) \subseteq Conversations(h)' => HandedAt(h)'
         /\ r \notin Dials => \A h \in Hosts :
              UNCHANGED <<connect_q, dials, next_conv>> => DialAt(h)'
<1>0. KcpTypeOK /\ \A h \in Hosts : AcceptAt(h) /\ DialAt(h) /\ HandedAt(h)
  BY DEF KcpInv, HostInv
<1>1. ASSUME r \notin Accepts, NEW h \in Hosts, UNCHANGED <<accept_q, pending_accepts>>
      PROVE  AcceptAt(h)'
  BY <1>0, <1>1, KcpTypes, AcceptAtSame
<1>2. ASSUME r \notin Accepts, NEW h \in Hosts, UNCHANGED ready_accepts,
             Conversations(h) \subseteq Conversations(h)'
      PROVE  HandedAt(h)'
  BY <1>0, <1>2, HandedAtSame
<1>3. ASSUME r \notin Dials, NEW h \in Hosts, UNCHANGED <<connect_q, dials, next_conv>>
      PROVE  DialAt(h)'
  BY <1>0, <1>3, KcpTypes, DialAtSame
<1> QED BY <1>1, <1>2, <1>3

-----------------------------------------------------------------------------

LEMMA AskAcceptKeeps ==
  ASSUME KcpInv, NEW r \in Accepts, AskAccept(r)
  PROVE  KcpInv'
<1> DEFINE h == Accept[r]
<1>0. KcpTypeOK /\ GivenInv /\ \A g \in Hosts : AcceptAt(g) /\ DialAt(g) /\ HandedAt(g)
  BY DEF KcpInv, HostInv
<1>1. /\ r \notin asked_of /\ asked_of' = asked_of \cup {r} /\ h \in Hosts
      /\ UNCHANGED <<connect_q, pending_accepts, ready_accepts, dials, next_conv, connections, packets, given>>
  BY DEF AskAccept, Hosts
<1>2. \/ accept_q' = [accept_q EXCEPT ![h] = Append(@, r)]
      \/ accept_q' = accept_q
  BY DEF AskAccept
<1>3. accept_q[h] \in Seq(Accepts) /\ r \notin Range(accept_q[h]) /\ r \notin Range(pending_accepts[h])
  BY <1>0, <1>1, KcpTypes DEF AcceptAt, Unanswered
<1>4. given[r] = <<>>
  BY <1>0, <1>1 DEF GivenInv
<1>5. GivenInv' /\ \A g \in Hosts : DialAt(g)' /\ HandedAt(g)'
  BY <1>0, <1>1, DialAtSame, HandedAtSame DEF GivenInv, Conversations
<1>6. Accept[r] = h
  OBVIOUS
<1> HIDE DEF h
<1>7. CASE accept_q' = [accept_q EXCEPT ![h] = Append(@, r)]
  <2> DEFINE q == Append(accept_q[h], r)
  <2>1. /\ q \in Seq(Accepts) /\ Range(q) = Range(accept_q[h]) \cup {r}
        /\ IsInjective(accept_q[h]) => IsInjective(q)
    BY <1>3, AppendIs
  <2> HIDE DEF q
  <2>2. /\ accept_q' = [accept_q EXCEPT ![h] = q] /\ accept_q'[h] = q
        /\ \A g \in Hosts : g # h => accept_q'[g] = accept_q[g]
    BY <1>0, <1>1, <1>7 DEF q, KcpTypeOK
  <2>3. KcpTypeOK'
    BY <1>0, <1>1, <2>1, <2>2 DEF KcpTypeOK
  <2>4. AcceptAt(h)'
    BY <1>0, <1>1, <1>3, <1>4, <1>6, <2>1, <2>2 DEF AcceptAt, Unanswered
  <2>5. \A g \in Hosts : g # h => AcceptAt(g)'
    BY <1>0, <1>1, <2>2, AcceptAtSame
  <2> QED BY <1>5, <2>3, <2>4, <2>5 DEF KcpInv, HostInv
<1>8. CASE accept_q' = accept_q
  <2>1. KcpTypeOK'
    BY <1>0, <1>1, <1>8 DEF KcpTypeOK
  <2>2. \A g \in Hosts : AcceptAt(g)'
    BY <1>0, <1>1, <1>8, AcceptAtSame
  <2> QED BY <1>5, <2>1, <2>2 DEF KcpInv, HostInv
<1> QED BY <1>2, <1>7, <1>8

LEMMA AskConnectKeeps ==
  ASSUME KcpInv, NEW r \in Dials, AskConnect(r)
  PROVE  KcpInv'
<1> DEFINE h == Dial[r].from
<1>0. KcpTypeOK /\ GivenInv /\ \A g \in Hosts : AcceptAt(g) /\ DialAt(g) /\ HandedAt(g)
  BY DEF KcpInv, HostInv
<1>1. /\ r \notin asked_of /\ asked_of' = asked_of \cup {r} /\ h \in Hosts
      /\ UNCHANGED <<accept_q, pending_accepts, ready_accepts, dials, next_conv, connections, packets, given>>
  BY DEF AskConnect, Hosts
<1>2. \/ connect_q' = [connect_q EXCEPT ![h] = Append(@, r)]
      \/ connect_q' = connect_q
  BY DEF AskConnect
<1>3. connect_q[h] \in Seq(Dials) /\ r \notin Range(connect_q[h])
      /\ \A i \in DOMAIN dials[h] : dials[h][i].req # r
  BY <1>0, <1>1, KcpTypes DEF DialAt, Unanswered
<1>4. given[r] = <<>>
  BY <1>0, <1>1 DEF GivenInv
<1>5. GivenInv' /\ \A g \in Hosts : AcceptAt(g)' /\ HandedAt(g)'
  BY <1>0, <1>1, AcceptAtSame, HandedAtSame DEF GivenInv, Conversations
<1>6. Dial[r].from = h
  OBVIOUS
<1> HIDE DEF h
<1>7. CASE connect_q' = [connect_q EXCEPT ![h] = Append(@, r)]
  <2> DEFINE q == Append(connect_q[h], r)
  <2>1. /\ q \in Seq(Dials) /\ Range(q) = Range(connect_q[h]) \cup {r}
        /\ IsInjective(connect_q[h]) => IsInjective(q)
    BY <1>3, AppendIs
  <2> HIDE DEF q
  <2>2. /\ connect_q' = [connect_q EXCEPT ![h] = q] /\ connect_q'[h] = q
        /\ \A g \in Hosts : g # h => connect_q'[g] = connect_q[g]
    BY <1>0, <1>1, <1>7 DEF q, KcpTypeOK
  <2>3. KcpTypeOK'
    BY <1>0, <1>1, <2>1, <2>2 DEF KcpTypeOK
  <2>4. DialAt(h)'
    BY <1>0, <1>1, <1>3, <1>4, <1>6, <2>1, <2>2 DEF DialAt, Unanswered
  <2>5. \A g \in Hosts : g # h => DialAt(g)'
    BY <1>0, <1>1, <2>2, DialAtSame
  <2> QED BY <1>5, <2>3, <2>4, <2>5 DEF KcpInv, HostInv
<1>8. CASE connect_q' = connect_q
  <2>1. KcpTypeOK'
    BY <1>0, <1>1, <1>8 DEF KcpTypeOK
  <2>2. \A g \in Hosts : DialAt(g)'
    BY <1>0, <1>1, <1>8, DialAtSame
  <2> QED BY <1>5, <2>1, <2>2 DEF KcpInv, HostInv
<1> QED BY <1>2, <1>7, <1>8

\* r gets its answer.
LEMMA GiveIs ==
  ASSUME KcpTypeOK, GivenInv, NEW r \in Dials \cup Accepts, NEW x \in Nat, Unanswered(r), Give(r, x),
         UNCHANGED asked_of
  PROVE  /\ given'[r] = <<x>> /\ \A q \in Dials \cup Accepts : q # r => given'[q] = given[q]
         /\ given' \in [Dials \cup Accepts -> Seq(Nat)] /\ GivenInv'
<1>1. given' = [given EXCEPT ![r] = <<x>>]
  BY DEF Give, KcpTypeOK, Unanswered
<1>2. <<x>> \in Seq(Nat) /\ Len(<<x>>) = 1
  OBVIOUS
<1> QED BY <1>1, <1>2 DEF KcpTypeOK, GivenInv, Unanswered

\* An acceptor of h gets c: a conversation h kept, or a new one.
LEMMA AcceptorGetsIt ==
  ASSUME KcpInv, NEW h \in Hosts, NEW r \in Accepts, Accept[r] = h, Unanswered(r), NEW c \in Nat,
         \A q \in Dials \cup Accepts : q # r => given'[q] = given[q], given'[r] = <<c>>,
         \A g \in Hosts : Conversations(g) \subseteq Conversations(g)',
         c \in Conversations(h)' /\ (c \in Range(ready_accepts[h]) \/ c \notin Conversations(h)),
         \A g \in Hosts : g # h => ready_accepts'[g] = ready_accepts[g],
         Range(ready_accepts'[h]) \subseteq Range(ready_accepts[h]) \ {c},
         IsInjective(ready_accepts'[h])
  PROVE  \A g \in Hosts : HandedAt(g)'
<1>0. \A g \in Hosts : HandedAt(g)
  BY DEF KcpInv, HostInv
<1>1. \A g \in Hosts : g # h => HandedAt(g)'
  BY <1>0, HandedAtSame
<1>2. <<c>>[1] = c
  OBVIOUS
<1>3. \A x \in Given(h)' : x = r \/ (x \in Given(h) /\ x # r /\ given'[x] = given[x])
  BY DEF Given
<1>4. \A x \in Given(h) : given[x][1] # c
  BY <1>0, <1>2 DEF HandedAt
<1>5. \A x \in Given(h)' : given'[x][1] \in Conversations(h)' \ Range(ready_accepts'[h])
  BY <1>0, <1>2, <1>3 DEF HandedAt
<1>6. \A x, y \in Given(h)' : given'[x] = given'[y] => x = y
  <2> SUFFICES ASSUME NEW x \in Given(h)', NEW y \in Given(h)', given'[x] = given'[y] PROVE x = y
    OBVIOUS
  <2>1. CASE x = r
    BY <1>2, <1>3, <1>4, <2>1
  <2>2. CASE y = r
    BY <1>2, <1>3, <1>4, <2>2
  <2>3. CASE x # r /\ y # r
    BY <1>0, <1>3, <2>3 DEF HandedAt
  <2> QED BY <2>1, <2>2, <2>3
<1>7. Range(ready_accepts'[h]) \subseteq Conversations(h)'
  BY <1>0 DEF HandedAt
<1>8. HandedAt(h)'
  BY <1>5, <1>6, <1>7 DEF HandedAt
<1> QED BY <1>1, <1>8

LEMMA DrainAcceptKeeps ==
  ASSUME KcpInv, NEW h \in Hosts, DrainAccept(h)
  PROVE  KcpInv'
<1> DEFINE r == Head(accept_q[h])
           q == Tail(accept_q[h])
<1>0. KcpTypeOK /\ GivenInv /\ \A g \in Hosts : AcceptAt(g) /\ DialAt(g) /\ HandedAt(g)
  BY DEF KcpInv, HostInv
<1>1. /\ accept_q[h] # <<>> /\ accept_q' = [accept_q EXCEPT ![h] = q]
      /\ UNCHANGED <<connect_q, dials, next_conv, connections, packets, asked_of, refused>>
  BY DEF DrainAccept
<1>2. /\ accept_q[h] \in Seq(Accepts) /\ pending_accepts[h] \in Seq(Accepts) /\ ready_accepts[h] \in Seq(Nat)
      /\ IsInjective(accept_q[h]) /\ IsInjective(pending_accepts[h]) /\ IsInjective(ready_accepts[h])
  BY <1>0, KcpTypes DEF AcceptAt, HandedAt
<1>3. /\ r \in Accepts /\ r \in Range(accept_q[h]) /\ q \in Seq(Accepts)
      /\ Range(q) \subseteq Range(accept_q[h]) /\ IsInjective(q) /\ r \notin Range(q)
  BY <1>1, <1>2, TailIs
<1>4. Accept[r] = h /\ Unanswered(r) /\ r \notin Range(pending_accepts[h]) /\ r \notin Dials
  BY <1>0, <1>3, KcpAssumption DEF AcceptAt, Dials, Accepts
<1>5. \/ /\ ready_accepts[h] # <<>> /\ Give(r, Head(ready_accepts[h]))
         /\ ready_accepts' = [ready_accepts EXCEPT ![h] = Tail(@)]
         /\ UNCHANGED pending_accepts
      \/ /\ pending_accepts' = [pending_accepts EXCEPT ![h] = Append(@, r)]
         /\ UNCHANGED <<given, ready_accepts>>
  BY DEF DrainAccept
<1> HIDE DEF r, q
<1>6. accept_q'[h] = q /\ \A g \in Hosts : g # h => accept_q'[g] = accept_q[g]
  BY <1>0, <1>1 DEF KcpTypeOK
<1>7. CASE /\ ready_accepts[h] # <<>> /\ Give(r, Head(ready_accepts[h]))
           /\ ready_accepts' = [ready_accepts EXCEPT ![h] = Tail(@)]
           /\ UNCHANGED pending_accepts
  <2> DEFINE c == Head(ready_accepts[h])
             t == Tail(ready_accepts[h])
  <2>1. /\ c \in Range(ready_accepts[h]) /\ c \in Nat /\ t \in Seq(Nat)
        /\ Range(t) \subseteq Range(ready_accepts[h]) /\ IsInjective(t) /\ c \notin Range(t)
    BY <1>2, <1>7, TailIs
  <2>2. ready_accepts' = [ready_accepts EXCEPT ![h] = t] /\ Give(r, c)
    BY <1>7
  <2> HIDE DEF c, t
  <2>3. ready_accepts'[h] = t /\ \A g \in Hosts : g # h => ready_accepts'[g] = ready_accepts[g]
    BY <1>0, <2>2 DEF KcpTypeOK
  <2>4. /\ given'[r] = <<c>> /\ \A x \in Dials \cup Accepts : x # r => given'[x] = given[x]
        /\ given' \in [Dials \cup Accepts -> Seq(Nat)] /\ GivenInv'
    BY <1>0, <1>1, <1>3, <1>4, <2>1, <2>2, GiveIs
  <2>5. KcpTypeOK'
    <3>1. accept_q' \in [Hosts -> Seq(Accepts)]
      BY <1>0, <1>1, <1>3 DEF KcpTypeOK
    <3>2. ready_accepts' \in [Hosts -> Seq(Nat)]
      BY <1>0, <2>1, <2>2 DEF KcpTypeOK
    <3> QED BY <1>0, <1>1, <1>7, <2>4, <3>1, <3>2 DEF KcpTypeOK
  <2>6. AcceptAt(h)'
    <3>1. Range(accept_q[h]) \cup Range(pending_accepts[h]) \subseteq Accepts
      BY <1>0, KcpTypes
    <3>2. \A x \in Range(accept_q[h]) \cup Range(pending_accepts[h]) : Accept[x] = h /\ Unanswered(x)
      BY <1>0 DEF AcceptAt
    <3>3. \A x \in Range(q) \cup Range(pending_accepts[h]) :
             x # r /\ x \in Range(accept_q[h]) \cup Range(pending_accepts[h])
      BY <1>3, <1>4
    <3>4. \A x \in Range(q) \cup Range(pending_accepts[h]) : Accept[x] = h /\ Unanswered(x)'
      BY <1>1, <2>4, <3>1, <3>2, <3>3 DEF Unanswered
    <3>5. \A x \in Range(q) : x \notin Range(pending_accepts[h])
      BY <1>0, <1>3 DEF AcceptAt
    <3>6. IsInjective(q) /\ IsInjective(pending_accepts[h])
      BY <1>2, <1>3
    <3>7. accept_q'[h] = q /\ pending_accepts'[h] = pending_accepts[h]
      BY <1>6, <1>7
    <3> QED BY <3>4, <3>5, <3>6, <3>7 DEF AcceptAt
  <2>7. ASSUME NEW g \in Hosts, g # h PROVE AcceptAt(g)'
    <3>1. Range(accept_q[g]) \cup Range(pending_accepts[g]) \subseteq Accepts
          /\ r \notin Range(accept_q[g]) \cup Range(pending_accepts[g])
      BY <1>0, <1>4, <2>7, KcpTypes DEF AcceptAt
    <3> QED BY <1>0, <1>1, <1>6, <1>7, <2>4, <2>7, <3>1, AcceptAtSame
  <2>8. \A g \in Hosts : DialAt(g)'
    BY <1>1, <1>4, <2>4, OthersWait
  <2>9. \A g \in Hosts : HandedAt(g)'
    <3>1. c \in Conversations(h) /\ \A g \in Hosts : Conversations(g)' = Conversations(g)
      BY <1>0, <1>1, <2>1 DEF HandedAt, Conversations
    <3>2. /\ c \in Conversations(h)' /\ (c \in Range(ready_accepts[h]) \/ c \notin Conversations(h))
          /\ \A g \in Hosts : Conversations(g) \subseteq Conversations(g)'
      BY <2>1, <3>1
    <3>3. /\ \A g \in Hosts : g # h => ready_accepts'[g] = ready_accepts[g]
          /\ Range(ready_accepts'[h]) \subseteq Range(ready_accepts[h]) \ {c}
          /\ IsInjective(ready_accepts'[h])
      BY <2>1, <2>3
    <3>4. r \in Accepts /\ c \in Nat /\ Accept[r] = h /\ Unanswered(r)
      BY <1>3, <1>4, <2>1
    <3>5. given'[r] = <<c>> /\ \A x \in Dials \cup Accepts : x # r => given'[x] = given[x]
      BY <2>4
    <3> QED BY <3>2, <3>3, <3>4, <3>5, AcceptorGetsIt
  <2> QED BY <2>4, <2>5, <2>6, <2>7, <2>8, <2>9 DEF KcpInv, HostInv
<1>8. CASE /\ pending_accepts' = [pending_accepts EXCEPT ![h] = Append(@, r)]
           /\ UNCHANGED <<given, ready_accepts>>
  <2> DEFINE t == Append(pending_accepts[h], r)
  <2>1. t \in Seq(Accepts) /\ Range(t) = Range(pending_accepts[h]) \cup {r} /\ IsInjective(t)
    BY <1>2, <1>3, <1>4, AppendIs
  <2>2. pending_accepts' = [pending_accepts EXCEPT ![h] = t]
    BY <1>8
  <2> HIDE DEF t
  <2>3. pending_accepts'[h] = t /\ \A g \in Hosts : g # h => pending_accepts'[g] = pending_accepts[g]
    BY <1>0, <2>2 DEF KcpTypeOK
  <2>4. KcpTypeOK'
    BY <1>0, <1>1, <1>3, <1>8, <2>1, <2>2 DEF KcpTypeOK
  <2>5. AcceptAt(h)'
    <3>1. \A x \in Range(q) : Accept[x] = h /\ Unanswered(x)' /\ x \notin Range(t)
      BY <1>0, <1>1, <1>3, <1>8, <2>1 DEF AcceptAt, Unanswered
    <3>2. \A x \in Range(t) : Accept[x] = h /\ Unanswered(x)'
      BY <1>0, <1>1, <1>4, <1>8, <2>1 DEF AcceptAt, Unanswered
    <3> QED BY <1>3, <1>6, <2>1, <2>3, <3>1, <3>2 DEF AcceptAt
  <2>6. \A g \in Hosts : (g # h => AcceptAt(g)') /\ DialAt(g)' /\ HandedAt(g)'
    BY <1>0, <1>1, <1>6, <1>8, <2>3, AcceptAtSame, DialAtSame, HandedAtSame DEF Conversations
  <2>7. GivenInv'
    BY <1>0, <1>1, <1>8 DEF GivenInv
  <2> QED BY <2>4, <2>5, <2>6, <2>7 DEF KcpInv, HostInv
<1> QED BY <1>5, <1>7, <1>8

\* What the wire holds after a datagram was sent.
LEMMA SentIs ==
  ASSUME NEW type, NEW conv, NEW from, NEW to, SendHandshake(type, conv, from, to)
  PROVE  packets' \subseteq packets \cup {[type |-> type, conv |-> conv, from |-> from, to |-> to]}
BY DEF SendHandshake, WithSent

LEMMA DrainConnectKeeps ==
  ASSUME KcpInv, NEW h \in Hosts, DrainConnect(h)
  PROVE  KcpInv'
<1> DEFINE r == Head(connect_q[h])
           q == Tail(connect_q[h])
           e == [req |-> r, conv |-> next_conv[h], retries |-> 1]
           d == Append(dials[h], e)
<1>0. KcpTypeOK /\ GivenInv /\ \A g \in Hosts : AcceptAt(g) /\ DialAt(g) /\ HandedAt(g)
  BY DEF KcpInv, HostInv
<1>1. /\ connect_q[h] # <<>> /\ connect_q' = [connect_q EXCEPT ![h] = q]
      /\ dials' = [dials EXCEPT ![h] = Append(@, e)] /\ next_conv' = [next_conv EXCEPT ![h] = @ + 1]
      /\ SendHandshake(SYN, next_conv[h], h, Dial[r].to)
      /\ UNCHANGED <<accept_q, pending_accepts, ready_accepts, connections, asked_of, given>>
  BY DEF DrainConnect
<1>2. connect_q[h] \in Seq(Dials) /\ IsInjective(connect_q[h]) /\ next_conv[h] \in Nat \ {0}
      /\ dials[h] \in Seq(Waiting)
  BY <1>0, KcpTypes DEF DialAt
<1>3. /\ r \in Dials /\ r \in Range(connect_q[h]) /\ q \in Seq(Dials)
      /\ Range(q) \subseteq Range(connect_q[h]) /\ IsInjective(q) /\ r \notin Range(q)
  BY <1>1, <1>2, TailIs
<1>4. Dial[r].from = h /\ Unanswered(r) /\ \A i \in DOMAIN dials[h] : dials[h][i].req # r
  BY <1>0, <1>3 DEF DialAt
<1>5. e \in Waiting /\ e.req = r /\ e.conv = next_conv[h]
  BY <1>2, <1>3 DEF Waiting
<1> HIDE DEF r, q, e
<1>6. /\ d \in Seq(Waiting) /\ DOMAIN d = 1 .. Len(dials[h]) + 1 /\ d[Len(dials[h]) + 1] = e
      /\ DOMAIN dials[h] = 1 .. Len(dials[h]) /\ Len(dials[h]) \in Nat
      /\ \A i \in 1 .. Len(dials[h]) : d[i] = dials[h][i]
  BY <1>2, <1>5
<1>7. /\ connect_q'[h] = q /\ dials'[h] = d /\ next_conv'[h] = next_conv[h] + 1
      /\ \A g \in Hosts : g # h => /\ connect_q'[g] = connect_q[g] /\ dials'[g] = dials[g]
                                   /\ next_conv'[g] = next_conv[g]
  BY <1>0, <1>1 DEF KcpTypeOK
<1> HIDE DEF d
<1>8. KcpTypeOK'
  <2>1. [type |-> SYN, conv |-> next_conv[h], from |-> h, to |-> Dial[r].to] \in Packet
    BY <1>2, <1>3 DEF Packet, Hosts
  <2>2. packets' \subseteq Packet
    BY <1>0, <1>1, <2>1, SentIs DEF KcpTypeOK
  <2>3. dials' \in [Hosts -> Seq(Waiting)] /\ connect_q' \in [Hosts -> Seq(Dials)]
        /\ next_conv' \in [Hosts -> Nat \ {0}]
    <3>1. dials' = [dials EXCEPT ![h] = d]
      BY <1>1 DEF d
    <3>2. next_conv' = [next_conv EXCEPT ![h] = next_conv[h] + 1] /\ next_conv[h] + 1 \in Nat \ {0}
      BY <1>0, <1>1, <1>2 DEF KcpTypeOK
    <3> QED BY <1>0, <1>1, <1>3, <1>6, <3>1, <3>2 DEF KcpTypeOK
  <2> QED BY <1>0, <1>1, <2>2, <2>3 DEF KcpTypeOK
<1>9. DialAt(h)'
  <2>1. \A x \in Range(q) : Dial[x].from = h /\ Unanswered(x)'
    BY <1>0, <1>1, <1>3 DEF DialAt, Unanswered
  <2>2. ASSUME NEW i \in DOMAIN d
        PROVE  /\ Dial[d[i].req].from = h /\ d[i].req \in asked_of' /\ given'[d[i].req] = <<>>
               /\ d[i].req \notin Range(q)
               /\ d[i].conv \in 1 .. next_conv[h]
               /\ i # Len(dials[h]) + 1 => d[i].req # r /\ d[i].conv < next_conv[h]
    <3>1. CASE i = Len(dials[h]) + 1
      BY <1>1, <1>2, <1>3, <1>4, <1>5, <1>6, <3>1 DEF Unanswered
    <3>2. CASE i \in 1 .. Len(dials[h])
      <4>1. /\ d[i] = dials[h][i] /\ Dial[d[i].req].from = h /\ Unanswered(d[i].req)
            /\ d[i].req \notin Range(connect_q[h]) /\ d[i].conv \in 1 .. next_conv[h] - 1
        BY <1>0, <1>6, <3>2 DEF DialAt
      <4> QED BY <1>1, <1>2, <1>3, <1>4, <1>6, <3>2, <4>1 DEF Unanswered
    <3> QED BY <1>6, <3>1, <3>2
  <2>3. ASSUME NEW i \in DOMAIN d, NEW j \in DOMAIN d, d[i].req = d[j].req \/ d[i].conv = d[j].conv
        PROVE  i = j
    <3>1. CASE i = Len(dials[h]) + 1 \/ j = Len(dials[h]) + 1
      BY <1>2, <1>5, <1>6, <2>2, <2>3, <3>1
    <3>2. CASE i \in 1 .. Len(dials[h]) /\ j \in 1 .. Len(dials[h])
      BY <1>0, <1>6, <2>3, <3>2 DEF DialAt
    <3> QED BY <1>6, <3>1, <3>2
  <2>4. next_conv'[h] - 1 = next_conv[h]
    BY <1>2, <1>7
  <2> QED BY <1>3, <1>7, <2>1, <2>2, <2>3, <2>4 DEF DialAt, Unanswered
<1>10. \A g \in Hosts : (g # h => DialAt(g)') /\ AcceptAt(g)' /\ HandedAt(g)'
  BY <1>0, <1>1, <1>7, AcceptAtSame, DialAtSame, HandedAtSame DEF Conversations
<1>11. GivenInv'
  BY <1>0, <1>1 DEF GivenInv
<1> QED BY <1>8, <1>9, <1>10, <1>11 DEF KcpInv, HostInv

\* A connection is made or made anew.
LEMMA CreatedIs ==
  ASSUME KcpTypeOK, NEW h \in Hosts, NEW c, NEW peer, CreateConnection(h, c, peer)
  PROVE  /\ DOMAIN connections' = Hosts
         /\ \A g \in Hosts : g # h => connections'[g] = connections[g]
         /\ Conversations(h)' = Conversations(h) \cup {c}
         /\ \A x \in Conversations(h) : x # c => connections'[h][x] = connections[h][x]
         /\ c \notin Conversations(h) => connections'[h][c] = [peer |-> peer, session |-> 1]
<1> DEFINE o == [peer |-> peer, session |-> IF Has(connections[h], c) THEN connections[h][c].session + 1 ELSE 1]
           v == Entered(connections[h], c, o)
<1>1. connections' = [connections EXCEPT ![h] = v]
  BY DEF CreateConnection
<1>2. /\ DOMAIN v = DOMAIN connections[h] \cup {c} /\ v[c] = o
      /\ \A y \in DOMAIN connections[h] : y # c => v[y] = connections[h][y]
  <2> HIDE DEF o
  <2> QED BY DEF Entered
<1>3. c \notin DOMAIN connections[h] => o = [peer |-> peer, session |-> 1]
  BY DEF Has
<1> HIDE DEF v, o
<1>4. connections'[h] = v /\ DOMAIN connections' = Hosts
      /\ \A g \in Hosts : g # h => connections'[g] = connections[g]
  BY <1>1 DEF KcpTypeOK
<1> QED BY <1>2, <1>3, <1>4 DEF Conversations

LEMMA SynKeeps ==
  ASSUME KcpInv, NEW h \in Hosts, NEW p \in packets, p.to = h, HandleSyn(h, p),
         UNCHANGED <<dials, connect_q, accept_q, next_conv, asked_of, refused>>
  PROVE  KcpInv'
<1> DEFINE r == Head(pending_accepts[h])
           q == Tail(pending_accepts[h])
           c == p.conv
<1>0. KcpTypeOK /\ GivenInv /\ \A g \in Hosts : AcceptAt(g) /\ DialAt(g) /\ HandedAt(g)
  BY DEF KcpInv, HostInv
<1>1. p \in Packet /\ c \in Nat /\ p.from \in Hosts
  BY <1>0 DEF KcpTypeOK, Packet
<1>2. packets' \subseteq Packet
  <2>1. SendHandshake(ACK, c, h, p.from)
    BY DEF HandleSyn
  <2>2. [type |-> ACK, conv |-> c, from |-> h, to |-> p.from] \in Packet
    BY <1>1 DEF Packet
  <2> QED BY <1>0, <2>1, <2>2, SentIs DEF KcpTypeOK
<1> HIDE DEF r, q, c
<1>3. CASE UNCHANGED <<connections, pending_accepts, ready_accepts, given>>
  <2>1. KcpTypeOK' /\ GivenInv'
    BY <1>0, <1>2, <1>3 DEF KcpTypeOK, GivenInv
  <2>2. \A g \in Hosts : AcceptAt(g)' /\ DialAt(g)' /\ HandedAt(g)'
    BY <1>0, <1>3, AcceptAtSame, DialAtSame, HandedAtSame DEF Conversations
  <2> QED BY <2>1, <2>2 DEF KcpInv, HostInv
<1>4. CASE c \notin Conversations(h) /\ CreateConnection(h, c, p.from)
  <2>1. /\ DOMAIN connections' = Hosts
        /\ \A g \in Hosts : Conversations(g) \subseteq Conversations(g)'
        /\ Conversations(h)' = Conversations(h) \cup {c}
    BY <1>0, <1>4, CreatedIs DEF Conversations
  <2>2. c \notin Range(ready_accepts[h])
    BY <1>0, <1>4 DEF HandedAt
  <2>3. ready_accepts[h] \in Seq(Nat) /\ pending_accepts[h] \in Seq(Accepts)
        /\ IsInjective(pending_accepts[h]) /\ IsInjective(ready_accepts[h])
    BY <1>0, KcpTypes DEF AcceptAt, HandedAt
  <2>4. CASE /\ pending_accepts[h] # <<>> /\ Give(r, c)
             /\ pending_accepts' = [pending_accepts EXCEPT ![h] = q]
             /\ UNCHANGED ready_accepts
    <3>1. /\ r \in Accepts /\ r \in Range(pending_accepts[h]) /\ q \in Seq(Accepts)
          /\ Range(q) \subseteq Range(pending_accepts[h]) /\ IsInjective(q) /\ r \notin Range(q)
      BY <2>3, <2>4, TailIs DEF r, q
    <3>2. Accept[r] = h /\ Unanswered(r) /\ r \notin Range(accept_q[h]) /\ r \notin Dials
      BY <1>0, <3>1, KcpAssumption DEF AcceptAt, Dials, Accepts
    <3>3. /\ given'[r] = <<c>> /\ \A x \in Dials \cup Accepts : x # r => given'[x] = given[x]
          /\ given' \in [Dials \cup Accepts -> Seq(Nat)] /\ GivenInv'
      BY <1>0, <1>1, <2>4, <3>1, <3>2, GiveIs DEF c
    <3>4. pending_accepts'[h] = q /\ \A g \in Hosts : g # h => pending_accepts'[g] = pending_accepts[g]
      BY <1>0, <2>4 DEF KcpTypeOK
    <3>5. KcpTypeOK'
      BY <1>0, <1>2, <2>1, <2>4, <3>1, <3>3 DEF KcpTypeOK
    <3>6. AcceptAt(h)'
      <4>1. Range(accept_q[h]) \cup Range(pending_accepts[h]) \subseteq Accepts
        BY <1>0, KcpTypes
      <4>2. \A x \in Range(accept_q[h]) \cup Range(pending_accepts[h]) : Accept[x] = h /\ Unanswered(x)
        BY <1>0 DEF AcceptAt
      <4>3. \A x \in Range(accept_q[h]) \cup Range(q) :
               x # r /\ x \in Range(accept_q[h]) \cup Range(pending_accepts[h])
        BY <3>1, <3>2
      <4>4. \A x \in Range(accept_q[h]) \cup Range(q) : Accept[x] = h /\ Unanswered(x)'
        BY <3>3, <4>1, <4>2, <4>3 DEF Unanswered
      <4>5. \A x \in Range(accept_q[h]) : x \notin Range(q)
        BY <1>0, <3>1 DEF AcceptAt
      <4>6. IsInjective(accept_q[h]) /\ IsInjective(q)
        BY <1>0, <3>1 DEF AcceptAt
      <4> QED BY <3>4, <4>4, <4>5, <4>6 DEF AcceptAt
    <3>7. ASSUME NEW g \in Hosts, g # h PROVE AcceptAt(g)'
      <4>1. Range(accept_q[g]) \cup Range(pending_accepts[g]) \subseteq Accepts
            /\ r \notin Range(accept_q[g]) \cup Range(pending_accepts[g])
        BY <1>0, <3>2, <3>7, KcpTypes DEF AcceptAt
      <4> QED BY <1>0, <3>3, <3>4, <3>7, <4>1, AcceptAtSame
    <3>8. \A g \in Hosts : DialAt(g)'
      BY <3>2, <3>3, OthersWait
    <3>9. \A g \in Hosts : HandedAt(g)'
      BY <1>0, <1>1, <1>4, <2>1, <2>2, <2>3, <2>4, <3>1, <3>2, <3>3, AcceptorGetsIt DEF c
    <3> QED BY <3>3, <3>5, <3>6, <3>7, <3>8, <3>9 DEF KcpInv, HostInv
  <2>5. CASE /\ ready_accepts' = [ready_accepts EXCEPT ![h] = Append(@, c)]
             /\ UNCHANGED <<pending_accepts, given>>
    <3> DEFINE t == Append(ready_accepts[h], c)
    <3>1. t \in Seq(Nat) /\ Range(t) = Range(ready_accepts[h]) \cup {c} /\ IsInjective(t)
      BY <1>1, <2>2, <2>3, AppendIs DEF c
    <3>2. ready_accepts' = [ready_accepts EXCEPT ![h] = t]
      BY <2>5
    <3> HIDE DEF t
    <3>3. ready_accepts'[h] = t /\ \A g \in Hosts : g # h => ready_accepts'[g] = ready_accepts[g]
      BY <1>0, <3>2 DEF KcpTypeOK
    <3>4. KcpTypeOK' /\ GivenInv'
      BY <1>0, <1>2, <2>1, <2>5, <3>1, <3>2 DEF KcpTypeOK, GivenInv
    <3>5. HandedAt(h)'
      <4>1. Given(h)' = Given(h) /\ given' = given
        BY <2>5 DEF Given
      <4>2. \A x \in Given(h) : given[x][1] \in Conversations(h) \ Range(ready_accepts[h])
        BY <1>0 DEF HandedAt
      <4>3. \A x \in Given(h) : given[x][1] \in (Conversations(h) \cup {c}) \ Range(t)
        BY <1>4, <3>1, <4>2
      <4>4. Range(t) \subseteq Conversations(h) \cup {c} /\ \A x, y \in Given(h) : given[x] = given[y] => x = y
        BY <1>0, <3>1 DEF HandedAt
      <4> QED BY <2>1, <3>1, <3>3, <4>1, <4>3, <4>4 DEF HandedAt
    <3>6. \A g \in Hosts : (g # h => HandedAt(g)') /\ AcceptAt(g)' /\ DialAt(g)'
      BY <1>0, <2>1, <2>5, <3>3, AcceptAtSame, DialAtSame, HandedAtSame
    <3> QED BY <3>4, <3>5, <3>6 DEF KcpInv, HostInv
  <2>6. \/ /\ pending_accepts[h] # <<>> /\ Give(r, c)
           /\ pending_accepts' = [pending_accepts EXCEPT ![h] = q]
           /\ UNCHANGED ready_accepts
        \/ /\ ready_accepts' = [ready_accepts EXCEPT ![h] = Append(@, c)]
           /\ UNCHANGED <<pending_accepts, given>>
    BY <1>4 DEF HandleSyn, Has, Conversations, r, q, c
  <2> QED BY <2>4, <2>5, <2>6
<1> QED BY <1>3, <1>4 DEF HandleSyn, Has, Conversations, c

\* The i-th of the waiting connects is answered and leaves the list.
DialAnswered(h, i, x) ==
  /\ Give(dials[h][i].req, x) /\ dials' = [dials EXCEPT ![h] = RemoveAt(@, i)]
  /\ UNCHANGED <<connect_q, accept_q, pending_accepts, ready_accepts, next_conv, asked_of>>
  /\ DOMAIN connections' = Hosts /\ packets' \subseteq Packet
  /\ \A g \in Hosts : Conversations(g) \subseteq Conversations(g)'

LEMMA DialerGetsIt ==
  ASSUME KcpInv, NEW h \in Hosts, NEW i \in DOMAIN dials[h], NEW x \in Nat, DialAnswered(h, i, x)
  PROVE  /\ KcpInv' /\ dials[h][i].req \in Dials
         /\ given'[dials[h][i].req] = <<x>>
         /\ \A q \in Dials \cup Accepts : q # dials[h][i].req => given'[q] = given[q]
         /\ \A g \in Hosts : g # h => dials'[g] = dials[g]
         /\ \A k \in DOMAIN dials'[h] : \E m \in DOMAIN dials[h] : m # i /\ dials'[h][k] = dials[h][m]
<1> USE DEF DialAnswered
<1> DEFINE r == dials[h][i].req
           d == RemoveAt(dials[h], i)
<1>0. KcpTypeOK /\ GivenInv /\ \A g \in Hosts : AcceptAt(g) /\ DialAt(g) /\ HandedAt(g)
  BY DEF KcpInv, HostInv
<1>1. r \in Dials /\ dials[h] \in Seq(Waiting) /\ r \notin Accepts
  BY <1>0, KcpTypes, KcpAssumption DEF Dials, Accepts
<1>2. Unanswered(r) /\ Dial[r].from = h /\ r \notin Range(connect_q[h])
  BY <1>0 DEF DialAt
<1>3. /\ given'[r] = <<x>> /\ \A q \in Dials \cup Accepts : q # r => given'[q] = given[q]
      /\ given' \in [Dials \cup Accepts -> Seq(Nat)] /\ GivenInv'
  BY <1>0, <1>1, <1>2, GiveIs
<1>4. /\ d \in Seq(Waiting)
      /\ \A k \in DOMAIN d : LET m == IF k < i THEN k ELSE k + 1
                             IN m \in DOMAIN dials[h] /\ m # i /\ d[k] = dials[h][m]
  BY <1>1, RemoveAtIs
<1>5. dials' = [dials EXCEPT ![h] = d]
  OBVIOUS
<1> HIDE DEF r
<1>6. \A k \in DOMAIN d, l \in DOMAIN d :
        (IF k < i THEN k ELSE k + 1) = (IF l < i THEN l ELSE l + 1) => k = l
  <2>1. i \in Int /\ DOMAIN d \subseteq Int
    BY <1>1, <1>4
  <2> QED BY <2>1
<1> HIDE DEF d
<1>7. dials'[h] = d /\ \A g \in Hosts : g # h => dials'[g] = dials[g]
  BY <1>0, <1>5 DEF KcpTypeOK
<1>8. KcpTypeOK'
  BY <1>0, <1>3, <1>4, <1>5 DEF KcpTypeOK
<1>9. DialAt(h)'
  <2>1. \A q \in Range(connect_q[h]) : Dial[q].from = h /\ q \in asked_of /\ given'[q] = <<>>
    BY <1>0, <1>2, <1>3, KcpTypes DEF DialAt, Unanswered
  <2>2. ASSUME NEW k \in DOMAIN d
        PROVE  /\ Dial[d[k].req].from = h /\ d[k].req \in asked_of /\ given'[d[k].req] = <<>>
               /\ d[k].req \notin Range(connect_q[h]) /\ d[k].conv \in 1 .. next_conv[h] - 1
    <3> DEFINE m == IF k < i THEN k ELSE k + 1
    <3>1. m \in DOMAIN dials[h] /\ m # i /\ d[k] = dials[h][m]
      BY <1>4
    <3> HIDE DEF m
    <3>2. /\ Dial[dials[h][m].req].from = h /\ Unanswered(dials[h][m].req)
          /\ dials[h][m].req \notin Range(connect_q[h]) /\ dials[h][m].conv \in 1 .. next_conv[h] - 1
          /\ dials[h][m].req # r
      BY <1>0, <3>1 DEF DialAt, r
    <3>3. dials[h][m].req \in Dials
      BY <1>0, <3>1, KcpTypes
    <3> QED BY <1>3, <3>1, <3>2, <3>3 DEF Unanswered
  <2>3. ASSUME NEW k \in DOMAIN d, NEW l \in DOMAIN d, d[k].req = d[l].req \/ d[k].conv = d[l].conv
        PROVE  k = l
    <3> DEFINE m == IF k < i THEN k ELSE k + 1
               n == IF l < i THEN l ELSE l + 1
    <3>1. m \in DOMAIN dials[h] /\ d[k] = dials[h][m] /\ n \in DOMAIN dials[h] /\ d[l] = dials[h][n]
      BY <1>4
    <3>2. m = n
      <4> HIDE DEF m, n
      <4> QED BY <1>0, <2>3, <3>1 DEF DialAt
    <3> QED BY <1>6, <3>2
  <2> QED BY <1>0, <1>7, <2>1, <2>2, <2>3 DEF DialAt, Unanswered
<1>10. ASSUME NEW g \in Hosts, g # h PROVE DialAt(g)'
  <2>1. /\ \A q \in Range(connect_q[g]) : q \in Dials /\ q # r
        /\ \A k \in DOMAIN dials[g] : dials[g][k].req \in Dials /\ dials[g][k].req # r
    BY <1>0, <1>2, <1>10, KcpTypes DEF DialAt
  <2> QED BY <1>0, <1>3, <1>7, <1>10, <2>1, DialAtSame
<1>11. \A g \in Hosts : AcceptAt(g)' /\ HandedAt(g)'
  BY <1>1, <1>3, OthersWait
<1>12. KcpInv'
  BY <1>3, <1>8, <1>9, <1>10, <1>11 DEF KcpInv, HostInv
<1>13. \A k \in DOMAIN dials'[h] : \E m \in DOMAIN dials[h] : m # i /\ dials'[h][k] = dials[h][m]
  BY <1>4, <1>7
<1> QED BY <1>1, <1>3, <1>7, <1>12, <1>13 DEF r

\* What an ACK does: nothing, or it answers one waiting connect.
LEMMA AckIs ==
  ASSUME NEW h \in Hosts, NEW p, HandleAck(h, p)
  PROVE  \/ UNCHANGED <<connections, dials, given>>
         \/ \E i \in DOMAIN dials[h] :
              /\ dials[h][i].conv = p.conv /\ CreateConnection(h, p.conv, p.from)
              /\ Give(dials[h][i].req, p.conv) /\ dials' = [dials EXCEPT ![h] = RemoveAt(@, i)]
BY DEF HandleAck

LEMMA AckKeeps ==
  ASSUME KcpInv, NEW h \in Hosts, NEW p \in packets, HandleAck(h, p),
         UNCHANGED <<pending_accepts, ready_accepts, packets, connect_q, accept_q, next_conv,
                     asked_of, refused>>
  PROVE  KcpInv'
<1>0. KcpTypeOK /\ GivenInv /\ \A g \in Hosts : AcceptAt(g) /\ DialAt(g) /\ HandedAt(g)
  BY DEF KcpInv, HostInv
<1>1. CASE UNCHANGED <<connections, dials, given>>
  <2>1. KcpTypeOK' /\ GivenInv'
    BY <1>0, <1>1 DEF KcpTypeOK, GivenInv
  <2>2. \A g \in Hosts : AcceptAt(g)' /\ DialAt(g)' /\ HandedAt(g)'
    BY <1>0, <1>1, AcceptAtSame, DialAtSame, HandedAtSame DEF Conversations
  <2> QED BY <2>1, <2>2 DEF KcpInv, HostInv
<1>2. ASSUME NEW i \in DOMAIN dials[h], CreateConnection(h, p.conv, p.from),
             Give(dials[h][i].req, p.conv), dials' = [dials EXCEPT ![h] = RemoveAt(@, i)]
      PROVE  KcpInv'
  <2>1. p.conv \in Nat /\ packets' \subseteq Packet
    BY <1>0 DEF KcpTypeOK, Packet
  <2>2. DOMAIN connections' = Hosts /\ \A g \in Hosts : Conversations(g) \subseteq Conversations(g)'
    BY <1>0, <1>2, CreatedIs DEF Conversations
  <2>3. DialAnswered(h, i, p.conv)
    BY <1>2, <2>1, <2>2 DEF DialAnswered
  <2> QED BY <2>1, <2>3, DialerGetsIt
<1> QED BY <1>1, <1>2, AckIs

\* A SYN is repeated: the i-th waiting connect counts it.
LEMMA RepeatIs ==
  ASSUME KcpTypeOK, NEW h \in Hosts, NEW i \in DOMAIN dials[h],
         dials' = [dials EXCEPT ![h][i].retries = @ + 1]
  PROVE  /\ dials' \in [Hosts -> Seq(Waiting)]
         /\ \A g \in Hosts : g # h => dials'[g] = dials[g]
         /\ DOMAIN dials'[h] = DOMAIN dials[h]
         /\ \A k \in DOMAIN dials[h] : /\ dials'[h][k].req = dials[h][k].req
                                       /\ dials'[h][k].conv = dials[h][k].conv
<1> DEFINE e == [dials[h][i] EXCEPT !.retries = @ + 1]
           d == [dials[h] EXCEPT ![i] = e]
<1>1. dials[h] \in Seq(Waiting) /\ dials[h][i] \in Waiting
  BY KcpTypes
<1>2. e \in Waiting /\ e.req = dials[h][i].req /\ e.conv = dials[h][i].conv
  <2> DEFINE x == dials[h][i]  y == [x EXCEPT !.retries = @ + 1]
  <2>1. x \in Waiting
    BY <1>1
  <2> HIDE DEF x
  <2>2. y \in Waiting /\ y.req = x.req /\ y.conv = x.conv
    BY <2>1 DEF Waiting
  <2> QED BY <2>2 DEF x
<1>3. dials' = [dials EXCEPT ![h] = d]
  OBVIOUS
<1> HIDE DEF e
<1>4. d \in Seq(Waiting) /\ DOMAIN d = DOMAIN dials[h] /\ d[i] = e
      /\ \A k \in DOMAIN dials[h] : k # i => d[k] = dials[h][k]
  BY <1>1, <1>2
<1> HIDE DEF d
<1>5. dials'[h] = d /\ dials' \in [Hosts -> Seq(Waiting)] /\ \A g \in Hosts : g # h => dials'[g] = dials[g]
  <2>1. dials \in [Hosts -> Seq(Waiting)]
    BY DEF KcpTypeOK
  <2> QED BY <1>3, <1>4, <2>1
<1> QED BY <1>2, <1>4, <1>5

LEMMA RetryKeeps ==
  ASSUME KcpInv, NEW h \in Hosts, RetryConnects(h)
  PROVE  KcpInv'
<1>0. KcpTypeOK /\ GivenInv /\ \A g \in Hosts : AcceptAt(g) /\ DialAt(g) /\ HandedAt(g)
  BY DEF KcpInv, HostInv
<1>1. UNCHANGED <<connect_q, accept_q, pending_accepts, ready_accepts, next_conv, connections, asked_of>>
  BY DEF RetryConnects
<1>2. ASSUME NEW i \in DOMAIN dials[h], GiveUp(h, i)
      PROVE  KcpInv'
  <2>1. Timeout \in Nat /\ packets' \subseteq Packet
    BY <1>0, <1>2 DEF Timeout, GiveUp, KcpTypeOK
  <2>2. DialAnswered(h, i, Timeout)
    BY <1>0, <1>1, <1>2, <2>1 DEF DialAnswered, GiveUp, Conversations, KcpTypeOK
  <2> QED BY <2>1, <2>2, DialerGetsIt
<1>3. ASSUME NEW i \in DOMAIN dials[h],
             SendHandshake(SYN, dials[h][i].conv, h, Dial[dials[h][i].req].to),
             dials' = [dials EXCEPT ![h][i].retries = @ + 1], UNCHANGED given
      PROVE  KcpInv'
  <2>1. /\ dials' \in [Hosts -> Seq(Waiting)]
        /\ \A g \in Hosts : g # h => dials'[g] = dials[g]
        /\ DOMAIN dials'[h] = DOMAIN dials[h]
        /\ \A k \in DOMAIN dials[h] : /\ dials'[h][k].req = dials[h][k].req
                                      /\ dials'[h][k].conv = dials[h][k].conv
    BY <1>0, <1>3, RepeatIs
  <2>2. packets' \subseteq Packet
    <3>1. dials[h][i].req \in Dials /\ dials[h][i].conv \in Nat
      BY <1>0, KcpTypes
    <3>2. [type |-> SYN, conv |-> dials[h][i].conv, from |-> h, to |-> Dial[dials[h][i].req].to] \in Packet
      BY <3>1 DEF Packet, Hosts
    <3> QED BY <1>0, <1>3, <3>2, SentIs DEF KcpTypeOK
  <2>3. KcpTypeOK' /\ GivenInv'
    BY <1>0, <1>1, <1>3, <2>1, <2>2 DEF KcpTypeOK, GivenInv
  <2>4. DialAt(h)'
    BY <1>0, <1>1, <1>3, <2>1 DEF DialAt, Unanswered
  <2>5. \A g \in Hosts : (g # h => DialAt(g)') /\ AcceptAt(g)' /\ HandedAt(g)'
    BY <1>0, <1>1, <1>3, <2>1, AcceptAtSame, DialAtSame, HandedAtSame DEF Conversations
  <2> QED BY <2>3, <2>4, <2>5 DEF KcpInv, HostInv
<1> QED BY <1>2, <1>3 DEF RetryConnects

LEMMA NextKcpInv == ASSUME KcpInv, [KcpNext]_kcpvars PROVE KcpInv'
<1>0. KcpTypeOK /\ GivenInv /\ \A g \in Hosts : AcceptAt(g) /\ DialAt(g) /\ HandedAt(g)
  BY DEF KcpInv, HostInv
<1>1. CASE Lose \/ UNCHANGED kcpvars
  <2>1. /\ packets' \subseteq packets
        /\ UNCHANGED <<connect_q, accept_q, pending_accepts, ready_accepts, dials, next_conv,
                       connections, asked_of, given>>
    BY <1>1 DEF Lose, kcpvars
  <2>2. KcpTypeOK' /\ GivenInv'
    BY <1>0, <2>1 DEF KcpTypeOK, GivenInv
  <2>3. \A g \in Hosts : AcceptAt(g)' /\ DialAt(g)' /\ HandedAt(g)'
    BY <1>0, <2>1, AcceptAtSame, DialAtSame, HandedAtSame DEF Conversations
  <2> QED BY <2>2, <2>3 DEF KcpInv, HostInv
<1>2. CASE KcpAsk
  BY <1>2, AskAcceptKeeps, AskConnectKeeps DEF KcpAsk
<1>3. ASSUME NEW h \in Hosts, OnRawPacket(h) PROVE KcpInv'
  BY <1>3, SynKeeps, AckKeeps DEF OnRawPacket
<1>4. ASSUME NEW h \in Hosts, KcpAdvance(h) PROVE KcpInv'
  BY <1>3, <1>4, DrainAcceptKeeps, DrainConnectKeeps, RetryKeeps DEF KcpAdvance
<1> QED BY <1>1, <1>2, <1>4 DEF KcpNext

(* A request waits in one place, and there once, until it is answered, and *)
(* every conversation handed out or kept is a connection.                  *)
THEOREM KcpInvHolds == KcpSpec => []KcpInv
<1>1. KcpInit => KcpInv
  BY InitKcpInv
<1>2. KcpInv /\ [KcpNext]_kcpvars => KcpInv'
  BY NextKcpInv
<1> QED BY <1>1, <1>2, PTL DEF KcpSpec

(* handle_syn with drain_accept_q: the SYN a caller repeats never becomes a *)
(* second connection, and no conversation goes to two acceptors.           *)
THEOREM NoConversationTwice == KcpSpec => []AcceptedOnce
<1>1. KcpInv => AcceptedOnce
  <2> SUFFICES ASSUME KcpInv PROVE AcceptedOnce
    OBVIOUS
  <2>1. KcpTypeOK /\ GivenInv /\ \A h \in Hosts : HandedAt(h)
    BY DEF KcpInv, HostInv
  <2>2. \A h \in Hosts : \A r \in Given(h) : Len(given[r]) = 1
    <3> SUFFICES ASSUME NEW h \in Hosts, NEW r \in Given(h) PROVE Len(given[r]) = 1
      OBVIOUS
    <3>1. r \in Accepts /\ given[r] \in Seq(Nat) /\ given[r] # <<>> /\ Len(given[r]) <= 1
      BY <2>1 DEF Given, KcpTypeOK, GivenInv
    <3>2. Len(given[r]) \in Nat \ {0}
      BY <3>1, EmptySeq
    <3>3. PICK n \in Nat \ {0} : n = Len(given[r])
      BY <3>2
    <3>4. n <= 1
      BY <3>1, <3>3
    <3>5. n = 1
      BY <3>4
    <3> QED BY <3>3, <3>5
  <2> QED BY <2>1, <2>2 DEF AcceptedOnce, HandedAt
<1> QED BY <1>1, KcpInvHolds, PTL

-----------------------------------------------------------------------------
\* A request that was made is answered, was refused, or waits in one of its
\* scheduler's lists; and no conversation is kept while an acceptor waits.
DialHeld(r) ==
  \/ r \in Range(connect_q[Dial[r].from])
  \/ \E i \in DOMAIN dials[Dial[r].from] : dials[Dial[r].from][i].req = r
AcceptHeld(r) == r \in Range(accept_q[Accept[r]]) \cup Range(pending_accepts[Accept[r]])
Heard(r) ==
  \/ given[r] # <<>> \/ r \in refused
  \/ r \in Dials /\ DialHeld(r)
  \/ r \in Accepts /\ AcceptHeld(r)
NoneKept == \A h \in Hosts : pending_accepts[h] = <<>> \/ ready_accepts[h] = <<>>
HeardInv == asked_of \subseteq Dials \cup Accepts /\ (\A r \in asked_of : Heard(r)) /\ NoneKept

\* A sequence is its head and the rest.
LEMMA HeadAndRest ==
  ASSUME NEW S, NEW s \in Seq(S), s # <<>>
  PROVE  Range(s) \subseteq Range(Tail(s)) \cup {Head(s)}
<1>1. /\ Head(s) = s[1] /\ Len(s) \in Nat \ {0} /\ DOMAIN s = 1 .. Len(s)
      /\ Tail(s) \in Seq(S) /\ Len(Tail(s)) = Len(s) - 1
      /\ \A i \in 1 .. Len(s) - 1 : Tail(s)[i] = s[i + 1]
  OBVIOUS
<1>2. DOMAIN Tail(s) = 1 .. Len(s) - 1
  BY <1>1
<1>3. \A i \in 2 .. Len(s) : i - 1 \in 1 .. Len(s) - 1 /\ Tail(s)[i - 1] = s[i]
  BY <1>1
<1>4. \A i \in 1 .. Len(s) : i = 1 \/ i \in 2 .. Len(s)
  BY <1>1
<1>5. \A i \in DOMAIN s : s[i] = Head(s) \/ \E k \in DOMAIN Tail(s) : Tail(s)[k] = s[i]
  <2> SUFFICES ASSUME NEW i \in 1 .. Len(s), i # 1 PROVE \E k \in DOMAIN Tail(s) : Tail(s)[k] = s[i]
    BY <1>1
  <2> QED BY <1>2, <1>3, <1>4
<1>6. \A x \in Range(s) : \E i \in DOMAIN s : x = s[i]
  BY DEF Range
<1>7. \A k \in DOMAIN Tail(s) : Tail(s)[k] \in Range(Tail(s))
  BY DEF Range
<1> QED BY <1>5, <1>6, <1>7

\* What is not removed stays.
LEMMA RemovedKeeps ==
  ASSUME NEW S, NEW s \in Seq(S), NEW i \in DOMAIN s, NEW m \in DOMAIN s, m # i
  PROVE  \E k \in DOMAIN RemoveAt(s, i) : RemoveAt(s, i)[k] = s[m]
<1> DEFINE a == SubSeq(s, 1, i - 1)
           b == SubSeq(s, i + 1, Len(s))
<1>1. Len(s) \in Nat /\ i \in 1 .. Len(s) /\ m \in 1 .. Len(s)
  OBVIOUS
<1>2. RemoveAt(s, i) = a \o b
  BY DEF RemoveAt
<1>3. a \in Seq(S) /\ Len(a) = i - 1 /\ \A k \in 1 .. i - 1 : a[k] = s[k]
  BY <1>1, SubSeqProperties
<1>4. b \in Seq(S) /\ Len(b) = Len(s) - i /\ \A k \in 1 .. Len(s) - i : b[k] = s[i + k]
  BY <1>1, SubSeqProperties
<1> HIDE DEF a, b
<1>5. PICK t \in Seq(S) :
         /\ t = a \o b /\ Len(t) = Len(a) + Len(b)
         /\ \A k \in 1 .. Len(a) + Len(b) : t[k] = IF k <= Len(a) THEN a[k] ELSE b[k - Len(a)]
  <2>1. /\ a \o b \in Seq(S) /\ Len(a \o b) = Len(a) + Len(b)
        /\ \A k \in 1 .. Len(a) + Len(b) :
              (a \o b)[k] = IF k <= Len(a) THEN a[k] ELSE b[k - Len(a)]
    BY <1>3, <1>4, ConcatProperties
  <2> QED BY <2>1, Zenon
<1>6. DOMAIN t = 1 .. Len(s) - 1 /\ Len(a) + Len(b) = Len(s) - 1 /\ Len(a) = i - 1
  <2>1. Len(a) + Len(b) = Len(s) - 1 /\ Len(a) = i - 1
    BY <1>1, <1>3, <1>4
  <2>2. DOMAIN t = 1 .. Len(t)
    OBVIOUS
  <2> QED BY <1>5, <2>1, <2>2
<1>7. CASE m < i
  <2>1. m \in 1 .. Len(s) - 1 /\ m <= Len(a) /\ m \in 1 .. i - 1
    BY <1>1, <1>6, <1>7
  <2>2. t[m] = s[m]
    BY <1>3, <1>5, <1>6, <2>1
  <2> QED BY <1>2, <1>5, <1>6, <2>1, <2>2
<1>8. CASE ~(m < i)
  <2>1. PICK n \in 1 .. Len(s) - i : i + n = m
    <3>1. m - i \in 1 .. Len(s) - i /\ i + (m - i) = m
      BY <1>1, <1>8
    <3> QED BY <3>1
  <2>2. m - 1 \in 1 .. Len(s) - 1 /\ ~(m - 1 <= Len(a)) /\ m - 1 - Len(a) = n
    <3> DEFINE l == Len(s)  la == Len(a)
    <3>1. /\ l \in Nat /\ i \in Int /\ n \in Int /\ m = i + n /\ la = i - 1
          /\ 1 <= i /\ m <= l /\ 1 <= n
      BY <1>1, <1>6, <2>1
    <3> HIDE DEF l, la
    <3>2. m - 1 \in 1 .. l - 1
      BY <3>1
    <3>3. m - 1 = i + n - 1 /\ i + n - 1 - la = n /\ la < i + n - 1
      BY <3>1
    <3>4. la \in Int /\ i + n - 1 \in Int
      BY <3>1
    <3>5. ~(i + n - 1 <= la)
      BY <3>3, <3>4
    <3> QED BY <3>2, <3>3, <3>5 DEF l, la
  <2>3. t[m - 1] = s[m]
    BY <1>4, <1>5, <1>6, <2>1, <2>2
  <2> QED BY <1>2, <1>5, <1>6, <2>2, <2>3
<1> QED BY <1>7, <1>8

\* Who has an answer keeps it.
LEMMA GivenStays ==
  ASSUME KcpTypeOK, NEW r \in Dials \cup Accepts, NEW x \in Nat, Give(r, x)
  PROVE  given'[r] # <<>> /\ \A q \in Dials \cup Accepts : given[q] # <<>> => given'[q] # <<>>
<1>1. given' = [given EXCEPT ![r] = Append(given[r], x)] /\ given[r] \in Seq(Nat)
      /\ given \in [Dials \cup Accepts -> Seq(Nat)]
  BY DEF Give, KcpTypeOK
<1>2. Append(given[r], x) # <<>>
  BY <1>1
<1> QED BY <1>1, <1>2

\* A step that takes nobody out of a list without an answer.
LEMMA HeardStays ==
  ASSUME HeardInv, NEW h \in Hosts, refused \subseteq refused', asked_of' = asked_of,
         \A q \in Dials \cup Accepts : given[q] # <<>> => given'[q] # <<>>,
         \A g \in Hosts : g # h => /\ connect_q'[g] = connect_q[g] /\ dials'[g] = dials[g]
                                   /\ accept_q'[g] = accept_q[g] /\ pending_accepts'[g] = pending_accepts[g],
         \A r \in Range(connect_q[h]) :
            \/ r \in Range(connect_q'[h]) \/ given'[r] # <<>>
            \/ \E k \in DOMAIN dials'[h] : dials'[h][k].req = r,
         \A i \in DOMAIN dials[h] :
            \/ given'[dials[h][i].req] # <<>>
            \/ \E k \in DOMAIN dials'[h] : dials'[h][k].req = dials[h][i].req,
         \A r \in Range(accept_q[h]) \cup Range(pending_accepts[h]) :
            given'[r] # <<>> \/ r \in Range(accept_q'[h]) \cup Range(pending_accepts'[h]),
         NoneKept'
  PROVE  HeardInv'
<1> SUFFICES ASSUME NEW r \in asked_of PROVE Heard(r)'
  BY DEF HeardInv
<1>0. r \in Dials \cup Accepts /\ Heard(r)
  BY DEF HeardInv
<1>1. CASE given[r] # <<>> \/ r \in refused
  BY <1>0, <1>1 DEF Heard
<1>2. CASE r \in Dials /\ DialHeld(r)
  <2>1. Dial[r].from \in Hosts
    BY <1>2 DEF Hosts
  <2>2. given'[r] # <<>> \/ DialHeld(r)'
    BY <1>2, <2>1 DEF DialHeld
  <2> QED BY <1>2, <2>2 DEF Heard
<1>3. CASE r \in Accepts /\ AcceptHeld(r)
  <2>1. Accept[r] \in Hosts
    BY <1>3 DEF Hosts
  <2>2. given'[r] # <<>> \/ AcceptHeld(r)'
    BY <1>3, <2>1 DEF AcceptHeld
  <2> QED BY <1>3, <2>2 DEF Heard
<1> QED BY <1>0, <1>1, <1>2, <1>3 DEF Heard

LEMMA AskHeard ==
  ASSUME KcpInv, HeardInv, KcpAsk
  PROVE  HeardInv'
<1>0. KcpTypeOK
  BY DEF KcpInv
<1>1. ASSUME NEW r \in Accepts, AskAccept(r) PROVE HeardInv'
  <2>1. /\ asked_of' = asked_of \cup {r} /\ Accept[r] \in Hosts
        /\ UNCHANGED <<connect_q, pending_accepts, ready_accepts, dials, given>>
    BY <1>1 DEF AskAccept, Hosts
  <2>2. CASE accept_q' = [accept_q EXCEPT ![Accept[r]] = Append(@, r)] /\ UNCHANGED refused
    <3>1. Range(Append(accept_q[Accept[r]], r)) = Range(accept_q[Accept[r]]) \cup {r}
      BY <1>0, <2>1, KcpTypes, AppendIs
    <3>2. /\ Range(accept_q'[Accept[r]]) = Range(accept_q[Accept[r]]) \cup {r}
          /\ \A g \in Hosts : g # Accept[r] => accept_q'[g] = accept_q[g]
      BY <1>0, <2>1, <2>2, <3>1 DEF KcpTypeOK
    <3>3. \A q \in Accepts : AcceptHeld(q) => AcceptHeld(q)'
      BY <2>1, <3>2 DEF AcceptHeld, Hosts
    <3>4. AcceptHeld(r)'
      BY <3>2 DEF AcceptHeld
    <3>5. \A q \in Dials : DialHeld(q) => DialHeld(q)'
      BY <2>1 DEF DialHeld
    <3> QED BY <1>1, <2>1, <2>2, <3>3, <3>4, <3>5 DEF HeardInv, Heard, NoneKept
  <2>3. CASE refused' = refused \cup {r} /\ UNCHANGED accept_q
    BY <1>1, <2>1, <2>3 DEF HeardInv, Heard, NoneKept, AcceptHeld, DialHeld
  <2> QED BY <1>1, <2>2, <2>3 DEF AskAccept
<1>2. ASSUME NEW r \in Dials, AskConnect(r) PROVE HeardInv'
  <2>1. /\ asked_of' = asked_of \cup {r} /\ Dial[r].from \in Hosts
        /\ UNCHANGED <<accept_q, pending_accepts, ready_accepts, dials, given>>
    BY <1>2 DEF AskConnect, Hosts
  <2>2. CASE connect_q' = [connect_q EXCEPT ![Dial[r].from] = Append(@, r)] /\ UNCHANGED refused
    <3>1. Range(Append(connect_q[Dial[r].from], r)) = Range(connect_q[Dial[r].from]) \cup {r}
      BY <1>0, <2>1, KcpTypes, AppendIs
    <3>2. /\ Range(connect_q'[Dial[r].from]) = Range(connect_q[Dial[r].from]) \cup {r}
          /\ \A g \in Hosts : g # Dial[r].from => connect_q'[g] = connect_q[g]
      BY <1>0, <2>1, <2>2, <3>1 DEF KcpTypeOK
    <3>3. \A q \in Dials : DialHeld(q) => DialHeld(q)'
      BY <2>1, <3>2 DEF DialHeld, Hosts
    <3>4. DialHeld(r)'
      BY <3>2 DEF DialHeld
    <3>5. \A q \in Accepts : AcceptHeld(q) => AcceptHeld(q)'
      BY <2>1 DEF AcceptHeld
    <3> QED BY <1>2, <2>1, <2>2, <3>3, <3>4, <3>5 DEF HeardInv, Heard, NoneKept
  <2>3. CASE refused' = refused \cup {r} /\ UNCHANGED connect_q
    BY <1>2, <2>1, <2>3 DEF HeardInv, Heard, NoneKept, AcceptHeld, DialHeld
  <2> QED BY <1>2, <2>2, <2>3 DEF AskConnect
<1> QED BY <1>1, <1>2 DEF KcpAsk

LEMMA DrainAcceptHeard ==
  ASSUME KcpInv, HeardInv, NEW h \in Hosts, DrainAccept(h)
  PROVE  HeardInv'
<1>0. KcpTypeOK /\ NoneKept
  BY DEF KcpInv, HeardInv
<1>1. /\ accept_q[h] # <<>> /\ accept_q' = [accept_q EXCEPT ![h] = Tail(@)]
      /\ UNCHANGED <<connect_q, dials, asked_of, refused>>
  BY DEF DrainAccept
<1>2. /\ accept_q[h] \in Seq(Accepts) /\ pending_accepts[h] \in Seq(Accepts) /\ ready_accepts[h] \in Seq(Nat)
  BY <1>0, KcpTypes
<1>3. PICK r \in Accepts : r = Head(accept_q[h]) /\ Range(accept_q[h]) \subseteq Range(Tail(accept_q[h])) \cup {r}
  BY <1>1, <1>2, TailIs, HeadAndRest
<1>4. accept_q'[h] = Tail(accept_q[h]) /\ \A g \in Hosts : g # h => accept_q'[g] = accept_q[g]
  BY <1>0, <1>1 DEF KcpTypeOK
<1>5. CASE /\ ready_accepts[h] # <<>> /\ Give(r, Head(ready_accepts[h]))
           /\ ready_accepts' = [ready_accepts EXCEPT ![h] = Tail(@)] /\ UNCHANGED pending_accepts
  <2>1. Head(ready_accepts[h]) \in Nat
    BY <1>2, <1>5, TailIs
  <2>2. given'[r] # <<>> /\ \A q \in Dials \cup Accepts : given[q] # <<>> => given'[q] # <<>>
    BY <1>0, <1>5, <2>1, GivenStays
  <2>3. NoneKept'
    BY <1>0, <1>5 DEF NoneKept, KcpTypeOK
  <2>4. \A q \in Range(accept_q[h]) \cup Range(pending_accepts[h]) :
           given'[q] # <<>> \/ q \in Range(accept_q'[h]) \cup Range(pending_accepts'[h])
    BY <1>3, <1>4, <1>5, <2>2
  <2> QED BY <1>1, <1>4, <1>5, <2>2, <2>3, <2>4, HeardStays
<1>6. CASE /\ ready_accepts[h] = <<>> /\ UNCHANGED <<given, ready_accepts>>
           /\ pending_accepts' = [pending_accepts EXCEPT ![h] = Append(@, r)]
  <2>1. /\ Range(pending_accepts'[h]) = Range(pending_accepts[h]) \cup {r}
        /\ \A g \in Hosts : g # h => pending_accepts'[g] = pending_accepts[g]
    <3>1. Range(Append(pending_accepts[h], r)) = Range(pending_accepts[h]) \cup {r}
      BY <1>2, AppendIs
    <3> QED BY <1>0, <1>6, <3>1 DEF KcpTypeOK
  <2>2. NoneKept'
    BY <1>0, <1>6, <2>1 DEF NoneKept
  <2>3. \A q \in Range(accept_q[h]) \cup Range(pending_accepts[h]) :
           q \in Range(accept_q'[h]) \cup Range(pending_accepts'[h])
    BY <1>3, <1>4, <2>1
  <2> QED BY <1>1, <1>4, <1>6, <2>1, <2>2, <2>3, HeardStays
<1> QED BY <1>3, <1>5, <1>6 DEF DrainAccept

LEMMA DrainConnectHeard ==
  ASSUME KcpInv, HeardInv, NEW h \in Hosts, DrainConnect(h)
  PROVE  HeardInv'
<1>0. KcpTypeOK /\ NoneKept
  BY DEF KcpInv, HeardInv
<1>1. /\ connect_q[h] # <<>> /\ connect_q' = [connect_q EXCEPT ![h] = Tail(@)]
      /\ UNCHANGED <<accept_q, pending_accepts, ready_accepts, asked_of, refused, given>>
  BY DEF DrainConnect
<1>2. connect_q[h] \in Seq(Dials) /\ dials[h] \in Seq(Waiting) /\ next_conv[h] \in Nat
  BY <1>0, KcpTypes
<1>3. PICK r \in Dials : r = Head(connect_q[h]) /\ Range(connect_q[h]) \subseteq Range(Tail(connect_q[h])) \cup {r}
  BY <1>1, <1>2, TailIs, HeadAndRest
<1>4. connect_q'[h] = Tail(connect_q[h]) /\ \A g \in Hosts : g # h => connect_q'[g] = connect_q[g]
  BY <1>0, <1>1 DEF KcpTypeOK
<1>5. PICK e \in Waiting : e.req = r /\ dials' = [dials EXCEPT ![h] = Append(@, e)]
  <2>1. [req |-> r, conv |-> next_conv[h], retries |-> 1] \in Waiting
    BY <1>2 DEF Waiting
  <2> QED BY <1>3, <2>1 DEF DrainConnect
<1>6. /\ \A g \in Hosts : g # h => dials'[g] = dials[g]
      /\ \A i \in DOMAIN dials[h] : i \in DOMAIN dials'[h] /\ dials'[h][i] = dials[h][i]
      /\ \E k \in DOMAIN dials'[h] : dials'[h][k] = e
  <2>1. dials'[h] = Append(dials[h], e) /\ \A g \in Hosts : g # h => dials'[g] = dials[g]
    BY <1>0, <1>5 DEF KcpTypeOK
  <2>2. PICK d \in Seq(Waiting), t \in Seq(Waiting) : d = dials[h] /\ t = Append(d, e)
    <3>1. Append(dials[h], e) \in Seq(Waiting)
      BY <1>2
    <3> QED BY <1>2, <3>1
  <2>3. /\ DOMAIN d = 1 .. Len(d) /\ DOMAIN t = 1 .. Len(d) + 1 /\ Len(d) \in Nat
        /\ t[Len(d) + 1] = e /\ \A i \in 1 .. Len(d) : t[i] = d[i]
    BY <2>2
  <2>4. Len(d) + 1 \in DOMAIN t /\ \A i \in DOMAIN d : i \in DOMAIN t
    BY <2>3
  <2> QED BY <2>1, <2>2, <2>3, <2>4
<1>7. NoneKept'
  BY <1>0, <1>1 DEF NoneKept
<1> QED BY <1>1, <1>3, <1>4, <1>5, <1>6, <1>7, HeardStays

LEMMA SynHeard ==
  ASSUME KcpInv, HeardInv, NEW h \in Hosts, NEW p \in packets, HandleSyn(h, p),
         UNCHANGED <<dials, connect_q, accept_q, asked_of, refused>>
  PROVE  HeardInv'
<1>0. KcpTypeOK /\ NoneKept
  BY DEF KcpInv, HeardInv
<1>1. CASE UNCHANGED <<pending_accepts, given>> /\ \A g \in Hosts : pending_accepts[g] = <<>> \/ ready_accepts'[g] = ready_accepts[g]
  <2>1. NoneKept'
    BY <1>0, <1>1 DEF NoneKept
  <2> QED BY <1>1, <2>1, HeardStays
<1>2. CASE /\ pending_accepts[h] # <<>> /\ Give(Head(pending_accepts[h]), p.conv) /\ UNCHANGED ready_accepts
           /\ pending_accepts' = [pending_accepts EXCEPT ![h] = Tail(@)]
  <2>1. PICK r \in Accepts : /\ r = Head(pending_accepts[h])
                             /\ Range(pending_accepts[h]) \subseteq Range(Tail(pending_accepts[h])) \cup {r}
    BY <1>0, <1>2, KcpTypes, TailIs, HeadAndRest
  <2>2. p.conv \in Nat
    BY <1>0 DEF KcpTypeOK, Packet
  <2>3. given'[r] # <<>> /\ \A q \in Dials \cup Accepts : given[q] # <<>> => given'[q] # <<>>
    BY <1>0, <1>2, <2>1, <2>2, GivenStays
  <2>4. /\ pending_accepts'[h] = Tail(pending_accepts[h])
        /\ \A g \in Hosts : g # h => pending_accepts'[g] = pending_accepts[g]
    BY <1>0, <1>2 DEF KcpTypeOK
  <2>5. NoneKept'
    BY <1>0, <1>2, <2>4 DEF NoneKept
  <2> QED BY <2>1, <2>3, <2>4, <2>5, HeardStays
<1>3. CASE /\ pending_accepts[h] = <<>> /\ UNCHANGED <<pending_accepts, given>>
           /\ ready_accepts' = [ready_accepts EXCEPT ![h] = Append(@, p.conv)]
  BY <1>0, <1>1, <1>3 DEF KcpTypeOK
<1> QED BY <1>1, <1>2, <1>3 DEF HandleSyn

\* The i-th of the waiting connects is answered.
LEMMA DialerHeard ==
  ASSUME KcpInv, HeardInv, NEW h \in Hosts, NEW i \in DOMAIN dials[h], NEW x \in Nat,
         Give(dials[h][i].req, x), dials' = [dials EXCEPT ![h] = RemoveAt(@, i)],
         UNCHANGED <<connect_q, accept_q, pending_accepts, ready_accepts, asked_of, refused>>
  PROVE  HeardInv'
<1>0. KcpTypeOK /\ NoneKept
  BY DEF KcpInv, HeardInv
<1>1. dials[h] \in Seq(Waiting) /\ dials[h][i].req \in Dials
  BY <1>0, KcpTypes
<1>2. /\ given'[dials[h][i].req] # <<>>
      /\ \A q \in Dials \cup Accepts : given[q] # <<>> => given'[q] # <<>>
  BY <1>0, <1>1, GivenStays
<1>3. dials'[h] = RemoveAt(dials[h], i) /\ \A g \in Hosts : g # h => dials'[g] = dials[g]
  BY <1>0 DEF KcpTypeOK
<1>4. \A m \in DOMAIN dials[h] : m = i \/ \E k \in DOMAIN dials'[h] : dials'[h][k] = dials[h][m]
  BY <1>1, <1>3, RemovedKeeps
<1>5. NoneKept'
  BY <1>0 DEF NoneKept
<1>6. \A m \in DOMAIN dials[h] :
         \/ given'[dials[h][m].req] # <<>>
         \/ \E k \in DOMAIN dials'[h] : dials'[h][k].req = dials[h][m].req
  BY <1>2, <1>4
<1> QED BY <1>2, <1>3, <1>5, <1>6, HeardStays

LEMMA NextHeard == ASSUME KcpInv, HeardInv, [KcpNext]_kcpvars PROVE HeardInv'
<1>0. KcpTypeOK /\ NoneKept
  BY DEF KcpInv, HeardInv
<1>1. CASE /\ UNCHANGED <<connect_q, accept_q, pending_accepts, ready_accepts, given>>
           /\ UNCHANGED <<asked_of, refused, dials>>
  BY <1>1 DEF HeardInv, Heard, DialHeld, AcceptHeld, NoneKept
<1>2. CASE KcpAsk
  BY <1>2, AskHeard
<1>3. ASSUME NEW h \in Hosts, OnRawPacket(h) PROVE HeardInv'
  <2>1. PICK p \in packets :
           /\ \/ HandleSyn(h, p) /\ UNCHANGED dials
              \/ HandleAck(h, p) /\ UNCHANGED <<pending_accepts, ready_accepts>>
           /\ UNCHANGED <<connect_q, accept_q, asked_of, refused>>
    BY <1>3 DEF OnRawPacket
  <2>2. p.conv \in Nat
    BY <1>0 DEF KcpTypeOK, Packet
  <2>3. CASE HandleAck(h, p) /\ UNCHANGED <<pending_accepts, ready_accepts>>
    BY <1>1, <2>1, <2>2, <2>3, AckIs, DialerHeard
  <2> QED BY <2>1, <2>3, SynHeard
<1>4. ASSUME NEW h \in Hosts, RetryConnects(h) PROVE HeardInv'
  <2>1. UNCHANGED <<connect_q, accept_q, pending_accepts, ready_accepts, asked_of, refused>>
    BY <1>4 DEF RetryConnects
  <2>2. ASSUME NEW i \in DOMAIN dials[h], GiveUp(h, i) PROVE HeardInv'
    <3>1. Timeout \in Nat
      BY DEF Timeout
    <3> QED BY <2>1, <2>2, <3>1, DialerHeard DEF GiveUp
  <2>3. ASSUME NEW i \in DOMAIN dials[h], dials' = [dials EXCEPT ![h][i].retries = @ + 1], UNCHANGED given
        PROVE  HeardInv'
    <3>1. /\ \A g \in Hosts : g # h => dials'[g] = dials[g]
          /\ DOMAIN dials'[h] = DOMAIN dials[h]
          /\ \A k \in DOMAIN dials[h] : dials'[h][k].req = dials[h][k].req
      BY <1>0, <2>3, RepeatIs
    <3>2. NoneKept'
      BY <1>0, <2>1 DEF NoneKept
    <3> QED BY <2>1, <2>3, <3>1, <3>2, HeardStays
  <2> QED BY <1>4, <2>2, <2>3 DEF RetryConnects
<1>5. CASE Lose \/ UNCHANGED kcpvars
  BY <1>1, <1>5 DEF Lose, kcpvars
<1> QED BY <1>2, <1>3, <1>4, <1>5, DrainAcceptHeard, DrainConnectHeard DEF KcpNext, KcpAdvance

(* No conversation is kept while an acceptor waits; and once the queues    *)
(* are drained and no timer runs, every connect was answered, and an       *)
(* accept that was not waits for a conversation, unless a full queue       *)
(* refused it.                                                             *)
THEOREM NoDialIsForgotten == KcpSpec => []RequestsHeard
<1>1. KcpInit => HeardInv
  BY DEF KcpInit, HeardInv, NoneKept
<1>2. KcpInv /\ HeardInv /\ [KcpNext]_kcpvars => HeardInv'
  BY NextHeard
<1>3. HeardInv => RequestsHeard
  <2> SUFFICES ASSUME HeardInv, KcpQuiet, NEW r \in asked_of, given[r] = <<>>, r \notin refused
               PROVE  r \in Accepts /\ r \in Range(pending_accepts[Accept[r]])
    BY DEF RequestsHeard, HeardInv, NoneKept
  <2>1. Range(<<>>) = {} /\ DOMAIN <<>> = {}
    BY DEF Range
  <2>2. ~(r \in Dials /\ DialHeld(r))
    BY <2>1 DEF DialHeld, KcpQuiet, Hosts
  <2>3. r \in Accepts /\ AcceptHeld(r)
    BY <2>2 DEF HeardInv, Heard
  <2> QED BY <2>1, <2>3 DEF AcceptHeld, KcpQuiet, Hosts
<1> QED BY <1>1, <1>2, <1>3, KcpInvHolds, PTL DEF KcpSpec

-----------------------------------------------------------------------------
(* What a successful connect() may rely on.                                 *)

LEMMA InitTruthInv == KcpInit => TruthInv
<1> SUFFICES ASSUME KcpInit PROVE TruthInv
  OBVIOUS
<1>1. \A r \in Dials : Dial[r].from \in Hosts /\ Dial[r].to \in Hosts
  BY DEF Hosts
<1>2. PeerInv /\ NumberInv
  BY <1>1 DEF KcpInit, PeerInv, NumberInv, NumbersTrue, Conversations
<1>3. ConnectedTruly
  BY DEF KcpInit, ConnectedTruly
<1> QED BY <1>2, <1>3, InitKcpInv DEF TruthInv

\* A packet stays true while numbers and connections grow and no new request
\* waits with its number.
LEMMA PacketKept ==
  ASSUME NEW p, PacketTrue(p), next_conv'[Caller(p)] \in Nat,
         next_conv[Caller(p)] \in Nat, next_conv[Caller(p)] <= next_conv'[Caller(p)],
         Conversations(Callee(p)) \subseteq Conversations(Callee(p))',
         \A k \in DOMAIN dials'[Caller(p)] : dials'[Caller(p)][k].conv = p.conv =>
            \E m \in DOMAIN dials[Caller(p)] :
               /\ dials[Caller(p)][m].req = dials'[Caller(p)][k].req
               /\ dials[Caller(p)][m].conv = dials'[Caller(p)][k].conv
  PROVE  PacketTrue(p)'
<1>1. p.conv \in 1 .. next_conv'[Caller(p)] - 1
  BY DEF PacketTrue
<1>2. \A k \in DOMAIN dials'[Caller(p)] :
         dials'[Caller(p)][k].conv = p.conv => Dial[dials'[Caller(p)][k].req].to = Callee(p)
  BY DEF PacketTrue
<1> QED BY <1>1, <1>2 DEF PacketTrue, Caller, Callee

LEMMA CallersAreHosts == \A p \in Packet : Caller(p) \in Hosts /\ Callee(p) \in Hosts
BY DEF Caller, Callee, Packet

\* The number of a new request is larger than every number in use.
LEMMA DrainConnectTrue ==
  ASSUME TruthInv, KcpInv', NEW h \in Hosts, DrainConnect(h)
  PROVE  TruthInv'
<1> DEFINE r == Head(connect_q[h])
           n == next_conv[h]
           e == [req |-> r, conv |-> n, retries |-> 1]
           d == Append(dials[h], e)
           s == [type |-> SYN, conv |-> n, from |-> h, to |-> Dial[r].to]
<1>0. KcpTypeOK /\ DialAt(h) /\ PeerInv /\ NumberInv /\ ConnectedTruly
  BY DEF TruthInv, KcpInv, HostInv
<1>1. /\ connect_q[h] # <<>> /\ packets' \subseteq packets \cup {s}
      /\ dials' = [dials EXCEPT ![h] = d] /\ next_conv' = [next_conv EXCEPT ![h] = n + 1]
      /\ UNCHANGED <<connections, given>>
  <2>1. SendHandshake(SYN, n, h, Dial[r].to)
    BY DEF DrainConnect
  <2> QED BY <2>1, SentIs DEF DrainConnect
<1>2. connect_q[h] \in Seq(Dials) /\ n \in Nat \ {0} /\ dials[h] \in Seq(Waiting)
  BY <1>0, KcpTypes
<1>3. r \in Dials /\ r \in Range(connect_q[h])
  BY <1>1, <1>2, TailIs
<1>4. Dial[r].from = h
  BY <1>0, <1>3 DEF DialAt
<1>5. s.type = SYN /\ s.conv = n /\ s.from = h /\ s.to = Dial[r].to /\ Caller(s) = h /\ Callee(s) = Dial[r].to
      /\ e \in Waiting /\ e.req = r /\ e.conv = n
  BY <1>2, <1>3 DEF Caller, Callee, SYN, Waiting
<1> HIDE DEF r, e, s
<1>6. \A i \in DOMAIN d : d[i] = e \/ \E m \in DOMAIN dials[h] : d[i] = dials[h][m]
  <2>1. /\ DOMAIN d = 1 .. Len(dials[h]) + 1 /\ d[Len(dials[h]) + 1] = e
        /\ DOMAIN dials[h] = 1 .. Len(dials[h]) /\ Len(dials[h]) \in Nat
        /\ \A i \in 1 .. Len(dials[h]) : d[i] = dials[h][i]
    BY <1>2, <1>5
  <2> QED BY <2>1
<1> HIDE DEF d, n
<1>7. /\ dials'[h] = d /\ next_conv'[h] = n + 1 /\ n = next_conv[h]
      /\ \A g \in Hosts : g # h => dials'[g] = dials[g] /\ next_conv'[g] = next_conv[g]
  BY <1>0, <1>1 DEF KcpTypeOK, n
<1>8. \A g \in Hosts : /\ next_conv[g] \in Nat \ {0} /\ next_conv'[g] \in Nat \ {0}
                       /\ next_conv[g] <= next_conv'[g]
  BY <1>0, <1>2, <1>7, KcpTypes
<1>9. \A g : Conversations(g)' = Conversations(g)
  BY <1>1 DEF Conversations
<1>10. \A q \in Dials : Dial[q].from \in Hosts /\ Dial[q].to \in Hosts
  BY DEF Hosts
<1>11. PeerInv'
  BY <1>0, <1>1, <1>8, <1>9, <1>10 DEF PeerInv
<1>12. ASSUME NEW p \in packets PROVE PacketTrue(p)'
  <2>1. PacketTrue(p) /\ Caller(p) \in Hosts
    BY <1>0, CallersAreHosts DEF NumberInv, KcpTypeOK
  <2>2. Caller(p) = h => p.conv # n
    BY <1>2, <1>7, <2>1 DEF PacketTrue
  <2>3. \A k \in DOMAIN dials'[Caller(p)] : dials'[Caller(p)][k].conv = p.conv =>
            \E m \in DOMAIN dials[Caller(p)] :
               /\ dials[Caller(p)][m].req = dials'[Caller(p)][k].req
               /\ dials[Caller(p)][m].conv = dials'[Caller(p)][k].conv
    <3>1. CASE Caller(p) = h
      BY <1>5, <1>6, <1>7, <2>2, <3>1
    <3>2. CASE Caller(p) # h
      BY <1>7, <2>1, <3>2
    <3> QED BY <3>1, <3>2
  <2> QED BY <1>8, <1>9, <2>1, <2>3, PacketKept
<1>13. ASSUME NEW m \in DOMAIN dials[h] PROVE dials[h][m].conv \in 1 .. n - 1
  BY <1>0, <1>7 DEF DialAt
<1>14. ASSUME NEW p \in packets', p = s PROVE PacketTrue(p)'
  <2>1. p.conv \in 1 .. next_conv'[h] - 1
    BY <1>2, <1>5, <1>7, <1>14
  <2>2. \A k \in DOMAIN dials'[h] : dials'[h][k].conv = p.conv => Dial[dials'[h][k].req].to = p.to
    BY <1>2, <1>5, <1>6, <1>7, <1>13, <1>14
  <2>3. p.type # ACK /\ Caller(p) = h /\ Callee(p) = p.to /\ p.to = Dial[r].to
    BY <1>5, <1>14 DEF SYN, ACK, Callee
  <2>4. \E x \in Dials : Dial[x].from = h /\ Dial[x].to = p.to
    BY <1>3, <1>4, <2>3
  <2> HIDE DEF Caller, Callee
  <2> QED BY <2>1, <2>2, <2>3, <2>4 DEF PacketTrue
<1>15. ASSUME NEW q \in Dials PROVE NumbersTrue(q)'
  <2> DEFINE g == Dial[q].from
  <2>0. g \in Hosts /\ NumbersTrue(q)
    BY <1>0, <1>10 DEF NumberInv
  <2>1. Conversations(g)' \subseteq 1 .. next_conv'[g] - 1
    BY <1>8, <1>9, <2>0 DEF NumbersTrue
  <2>2. ASSUME NEW i \in DOMAIN dials'[g]
        PROVE  /\ dials'[g][i].conv \notin Conversations(g)
               /\ dials'[g][i].conv \in Conversations(Dial[q].to) => Dial[dials'[g][i].req].to = Dial[q].to
    <3>1. CASE g # h
      BY <1>7, <2>0, <2>2, <3>1 DEF NumbersTrue
    <3>2. CASE g = h
      <4>1. CASE dials'[g][i] = e
        <5>1. n \notin Conversations(g)
          BY <1>2, <1>7, <2>0, <3>2 DEF NumbersTrue
        <5>2. n \notin Conversations(Dial[q].to)
          <6>1. \A c \in Conversations(Dial[q].to) : c \in 1 .. next_conv[g] - 1
            BY <1>0 DEF PeerInv
          <6> QED BY <1>2, <1>7, <3>2, <6>1
        <5> QED BY <1>5, <4>1, <5>1, <5>2
      <4>2. CASE \E m \in DOMAIN dials[h] : dials'[g][i] = dials[h][m]
        BY <2>0, <3>2, <4>2 DEF NumbersTrue
      <4> QED BY <1>6, <1>7, <3>2, <4>1, <4>2
    <3> QED BY <3>1, <3>2
  <2> QED BY <1>9, <2>1, <2>2 DEF NumbersTrue
<1>16. NumberInv'
  <2>1. \A p \in packets' : p \in packets \/ p = s
    BY <1>1
  <2> QED BY <1>12, <1>14, <1>15, <2>1 DEF NumberInv
<1>17. ConnectedTruly'
  BY <1>0, <1>1 DEF ConnectedTruly
<1> QED BY <1>11, <1>16, <1>17 DEF TruthInv

\* The SYN creates at most one connection, at a scheduler that does not dial,
\* under a number only its own caller uses there.
LEMMA SynTrue ==
  ASSUME OneDialler, TruthInv, KcpInv', NEW h \in Hosts, NEW p \in packets, p.type = SYN, p.to = h,
         HandleSyn(h, p), UNCHANGED <<dials, next_conv>>
  PROVE  TruthInv'
<1> DEFINE s == [type |-> ACK, conv |-> p.conv, from |-> h, to |-> p.from]
<1>0. KcpTypeOK /\ PeerInv /\ NumberInv /\ ConnectedTruly /\ PacketTrue(p) /\ p \in Packet
      /\ GivenInv /\ \A g \in Hosts : AcceptAt(g)
  BY DEF TruthInv, KcpInv, HostInv, NumberInv, KcpTypeOK
<1>1. Caller(p) = p.from /\ Callee(p) = h
  BY DEF Caller, Callee
<1>2. PICK r \in Dials : Dial[r].from = p.from /\ Dial[r].to = h
  BY <1>0, <1>1 DEF PacketTrue
<1>3. s.type = ACK /\ s.conv = p.conv /\ s.from = h /\ s.to = p.from
  OBVIOUS
<1>4. packets' \subseteq packets \cup {s}
  BY SentIs DEF HandleSyn
<1> HIDE DEF s
<1>5. /\ p.conv \in Conversations(h)'
      /\ \A g \in Hosts : Conversations(g) \subseteq Conversations(g)'
      /\ \A g \in Hosts : g # h => connections'[g] = connections[g]
      /\ Conversations(h)' \subseteq Conversations(h) \cup {p.conv}
      /\ \A x \in Conversations(h) : connections'[h][x] = connections[h][x]
      /\ p.conv \notin Conversations(h) => connections'[h][p.conv] = [peer |-> p.from, session |-> 1]
  <2>1. CASE UNCHANGED connections /\ p.conv \in Conversations(h)
    BY <2>1 DEF Conversations
  <2>2. CASE CreateConnection(h, p.conv, p.from) /\ p.conv \notin Conversations(h)
    <3>1. /\ \A g \in Hosts : g # h => connections'[g] = connections[g]
          /\ Conversations(h)' = Conversations(h) \cup {p.conv}
          /\ \A x \in Conversations(h) : x # p.conv => connections'[h][x] = connections[h][x]
          /\ p.conv \notin Conversations(h) => connections'[h][p.conv] = [peer |-> p.from, session |-> 1]
      BY <1>0, <2>2, CreatedIs
    <3>2. \A g \in Hosts : g # h => Conversations(g)' = Conversations(g)
      BY <3>1 DEF Conversations
    <3> QED BY <2>2, <3>1, <3>2
  <2> QED BY <2>1, <2>2 DEF HandleSyn, Has, Conversations
<1>6. \A q \in Dials : Dial[q].from \in Hosts /\ Dial[q].to \in Hosts /\ Dial[q].from # h
  BY <1>2 DEF Hosts, OneDialler
<1>7. \A q \in Dials : Dial[q].to = h => Dial[q].from = p.from
  BY <1>2 DEF OneDialler
<1>8. \A g \in Hosts : g # h => Conversations(g)' = Conversations(g)
  BY <1>5 DEF Conversations
<1>9. next_conv' = next_conv /\ dials' = dials
  OBVIOUS
<1>10. PeerInv'
  <2> SUFFICES ASSUME NEW q \in Dials, NEW c \in Conversations(Dial[q].to)'
               PROVE  /\ c \in 1 .. next_conv[Dial[q].from] - 1
                      /\ connections'[Dial[q].to][c] = [peer |-> Dial[q].from, session |-> 1]
    BY <1>9 DEF PeerInv
  <2>1. CASE Dial[q].to # h \/ c \in Conversations(h)
    <3>1. c \in Conversations(Dial[q].to) /\ connections'[Dial[q].to][c] = connections[Dial[q].to][c]
      BY <1>5, <1>6, <1>8, <2>1
    <3> QED BY <1>0, <3>1 DEF PeerInv
  <2>2. CASE Dial[q].to = h /\ c \notin Conversations(h)
    <3>1. c = p.conv /\ Dial[q].from = p.from
      BY <1>5, <1>7, <2>2
    <3> QED BY <1>0, <1>1, <1>5, <2>2, <3>1 DEF PacketTrue
  <2> QED BY <2>1, <2>2
<1>11. ASSUME NEW x \in packets PROVE PacketTrue(x)'
  <2>1. PacketTrue(x) /\ Caller(x) \in Hosts /\ Callee(x) \in Hosts
    BY <1>0, CallersAreHosts DEF NumberInv, KcpTypeOK
  <2>2. next_conv[Caller(x)] \in Nat
    BY <1>0, <2>1, KcpTypes
  <2> QED BY <1>5, <1>9, <2>1, <2>2, PacketKept
<1>12. ASSUME NEW x \in packets', x = s PROVE PacketTrue(x)'
  <2>1. x.type = ACK /\ x.conv = p.conv /\ Caller(x) = p.from /\ Callee(x) = h
    BY <1>3, <1>12 DEF Caller, Callee, SYN, ACK
  <2>2. /\ p.conv \in 1 .. next_conv[p.from] - 1
        /\ \A i \in DOMAIN dials[p.from] :
              dials[p.from][i].conv = p.conv => Dial[dials[p.from][i].req].to = h
    BY <1>0, <1>1 DEF PacketTrue
  <2> QED BY <1>2, <1>5, <1>9, <2>1, <2>2 DEF PacketTrue, Caller, Callee
<1>13. ASSUME NEW q \in Dials PROVE NumbersTrue(q)'
  <2>0. NumbersTrue(q) /\ Conversations(Dial[q].from)' = Conversations(Dial[q].from)
    BY <1>0, <1>6, <1>8 DEF NumberInv
  <2>1. ASSUME NEW i \in DOMAIN dials[Dial[q].from],
               dials[Dial[q].from][i].conv \in Conversations(Dial[q].to)'
        PROVE  Dial[dials[Dial[q].from][i].req].to = Dial[q].to
    <3>1. CASE dials[Dial[q].from][i].conv \in Conversations(Dial[q].to)
      BY <2>0, <3>1 DEF NumbersTrue
    <3>2. CASE dials[Dial[q].from][i].conv \notin Conversations(Dial[q].to)
      <4>1. Dial[q].to = h /\ Dial[q].from = p.from /\ dials[p.from][i].conv = p.conv
        BY <1>5, <1>6, <1>7, <1>8, <2>1, <3>2
      <4> QED BY <1>0, <1>1, <2>1, <4>1 DEF PacketTrue
    <3> QED BY <3>1, <3>2
  <2> QED BY <1>9, <2>0, <2>1 DEF NumbersTrue
<1>14. NumberInv'
  <2>1. \A x \in packets' : x \in packets \/ x = s
    BY <1>4
  <2> QED BY <1>11, <1>12, <1>13, <2>1 DEF NumberInv
<1>15. \A q \in Dials : given'[q] = given[q]
  <2>1. CASE UNCHANGED given
    BY <2>1
  <2>2. CASE pending_accepts[h] # <<>> /\ Give(Head(pending_accepts[h]), p.conv)
    <3>1. pending_accepts[h] \in Seq(Accepts)
      BY <1>0, KcpTypes
    <3>2. Head(pending_accepts[h]) \notin Dials
      BY <2>2, <3>1, TailIs, KcpAssumption DEF Dials, Accepts
    <3> QED BY <1>0, <2>2, <3>2 DEF Give, KcpTypeOK
  <2> QED BY <2>1, <2>2 DEF HandleSyn
<1>16. ConnectedTruly'
  <2> SUFFICES ASSUME NEW q \in Dials, given[q] # <<>>, given[q][1] # Timeout
               PROVE  LET here == connections'[Dial[q].from]
                          there == connections'[Dial[q].to] IN
                      /\ Has(here, given[q][1]) /\ Has(there, given[q][1])
                      /\ here[given[q][1]] = [peer |-> Dial[q].to, session |-> 1]
                      /\ there[given[q][1]] = [peer |-> Dial[q].from, session |-> 1]
    BY <1>0, <1>15 DEF ConnectedTruly
  <2> DEFINE c == given[q][1]
  <2>1. /\ c \in Conversations(Dial[q].from) /\ c \in Conversations(Dial[q].to)
        /\ connections[Dial[q].from][c] = [peer |-> Dial[q].to, session |-> 1]
        /\ connections[Dial[q].to][c] = [peer |-> Dial[q].from, session |-> 1]
    BY <1>0 DEF ConnectedTruly, Has, Conversations
  <2> HIDE DEF c
  <2>2. connections'[Dial[q].from][c] = connections[Dial[q].from][c]
        /\ connections'[Dial[q].to][c] = connections[Dial[q].to][c]
    BY <1>5, <1>6, <2>1
  <2>3. c \in Conversations(Dial[q].from)' /\ c \in Conversations(Dial[q].to)'
    BY <1>5, <1>6, <2>1
  <2> QED BY <2>1, <2>2, <2>3 DEF c, Has, Conversations
<1> QED BY <1>10, <1>14, <1>16 DEF TruthInv

\* Nothing is sent, no connection is lost, and of the requests that wait some
\* leave: the numbers stay true where the connections stay.
LEMMA NumbersKept ==
  ASSUME TruthInv, packets' \subseteq packets, UNCHANGED next_conv,
         \A g \in Hosts : Conversations(g) \subseteq Conversations(g)',
         \A q \in Dials : Conversations(Dial[q].to)' = Conversations(Dial[q].to),
         \A g \in Hosts : \A k \in DOMAIN dials'[g] : \E m \in DOMAIN dials[g] :
            /\ dials'[g][k].req = dials[g][m].req /\ dials'[g][k].conv = dials[g][m].conv
            /\ dials[g][m].conv \notin Conversations(g)' \ Conversations(g),
         \A q \in Dials : Conversations(Dial[q].from)' \subseteq 1 .. next_conv[Dial[q].from] - 1
  PROVE  NumberInv'
<1>0. KcpTypeOK /\ NumberInv
  BY DEF TruthInv, KcpInv
<1>1. ASSUME NEW x \in packets PROVE PacketTrue(x)'
  <2>1. PacketTrue(x) /\ Caller(x) \in Hosts /\ Callee(x) \in Hosts
    BY <1>0, CallersAreHosts DEF NumberInv, KcpTypeOK
  <2>2. next_conv[Caller(x)] \in Nat
    BY <1>0, <2>1, KcpTypes
  <2> QED BY <2>1, <2>2, PacketKept
<1>2. ASSUME NEW q \in Dials PROVE NumbersTrue(q)'
  <2>1. NumbersTrue(q) /\ Dial[q].from \in Hosts
    BY <1>0 DEF NumberInv, Hosts
  <2> QED BY <2>1 DEF NumbersTrue
<1> QED BY <1>1, <1>2 DEF NumberInv

\* The ACK makes the caller's half of a connection whose other half is there.
LEMMA AckTrue ==
  ASSUME OneDialler, TruthInv, KcpInv', NEW h \in Hosts, NEW p \in packets, p.type = ACK, p.to = h,
         HandleAck(h, p),
         UNCHANGED <<pending_accepts, ready_accepts, packets, connect_q, accept_q, next_conv, asked_of>>
  PROVE  TruthInv'
<1>0. KcpInv /\ KcpTypeOK /\ DialAt(h) /\ PeerInv /\ NumberInv /\ ConnectedTruly /\ PacketTrue(p)
  BY DEF TruthInv, KcpInv, HostInv, NumberInv
<1>1. CASE UNCHANGED <<connections, dials, given>>
  <2>1. PeerInv' /\ ConnectedTruly'
    BY <1>0, <1>1 DEF PeerInv, ConnectedTruly, Conversations
  <2>2. \A g : Conversations(g)' = Conversations(g)
    BY <1>1 DEF Conversations
  <2>3. \A q \in Dials : Conversations(Dial[q].from) \subseteq 1 .. next_conv[Dial[q].from] - 1
    BY <1>0 DEF NumberInv, NumbersTrue
  <2>4. NumberInv'
    BY <1>1, <2>2, <2>3, NumbersKept
  <2> QED BY <2>1, <2>4 DEF TruthInv
<1>2. ASSUME NEW i \in DOMAIN dials[h], dials[h][i].conv = p.conv,
             CreateConnection(h, p.conv, p.from), Give(dials[h][i].req, p.conv),
             dials' = [dials EXCEPT ![h] = RemoveAt(@, i)]
      PROVE  TruthInv'
  <2> DEFINE e == dials[h][i].req
             c == p.conv
             t == p.from
  <2>1. Caller(p) = h /\ Callee(p) = t
    BY DEF Caller, Callee, SYN, ACK
  <2>2. p \in Packet /\ c \in Nat /\ c \in 1 .. next_conv[h] - 1 /\ t \in Hosts
    BY <1>0, <2>1 DEF PacketTrue, KcpTypeOK, Packet
  <2>3. /\ Dial[e].to = t /\ Dial[e].from = h /\ e \in Dials /\ c \in Conversations(t)
    BY <1>0, <1>2, <2>1, KcpTypes DEF PacketTrue, DialAt
  <2>4. c \notin Conversations(h)
    BY <1>0, <1>2, <2>3 DEF NumberInv, NumbersTrue
  <2>5. /\ DOMAIN connections' = Hosts
        /\ \A g \in Hosts : g # h => connections'[g] = connections[g]
        /\ Conversations(h)' = Conversations(h) \cup {c}
        /\ \A x \in Conversations(h) : connections'[h][x] = connections[h][x]
        /\ connections'[h][c] = [peer |-> t, session |-> 1]
    BY <1>0, <1>2, <2>4, CreatedIs
  <2>6. \A g \in Hosts : /\ g # h => Conversations(g)' = Conversations(g)
                         /\ Conversations(g) \subseteq Conversations(g)'
    BY <2>5 DEF Conversations
  <2>7. /\ given'[e] = <<c>> /\ \A q \in Dials : q # e => given'[q] = given[q]
        /\ \A g \in Hosts : g # h => dials'[g] = dials[g]
        /\ \A k \in DOMAIN dials'[h] : \E m \in DOMAIN dials[h] : m # i /\ dials'[h][k] = dials[h][m]
    <3>1. packets' \subseteq Packet
      BY <1>0 DEF KcpTypeOK
    <3>2. /\ given'[dials[h][i].req] = <<c>>
          /\ \A q \in Dials \cup Accepts : q # dials[h][i].req => given'[q] = given[q]
          /\ \A g \in Hosts : g # h => dials'[g] = dials[g]
          /\ \A k \in DOMAIN dials'[h] : \E m \in DOMAIN dials[h] : m # i /\ dials'[h][k] = dials[h][m]
      <4>1. KcpInv /\ p.conv \in Nat /\ DOMAIN connections' = Hosts
            /\ \A g \in Hosts : Conversations(g) \subseteq Conversations(g)'
        BY <1>0, <2>2, <2>5, <2>6
      <4> HIDE DEF e, c, t, Conversations
      <4>2. Give(dials[h][i].req, p.conv) /\ dials' = [dials EXCEPT ![h] = RemoveAt(@, i)]
        BY <1>2
      <4>0. PICK n \in Nat : n = p.conv
        BY <4>1
      <4>6. UNCHANGED <<connect_q, accept_q, pending_accepts, ready_accepts, next_conv, asked_of>>
        BY <4>1
      <4>10. dials' = [dials EXCEPT ![h] = RemoveAt(@, i)]
        BY <4>2
      <4>11. KcpInv
        BY <4>1
      <4>12. DOMAIN connections' = Hosts
        BY <4>1
      <4>7. \A g \in Hosts : Conversations(g) \subseteq Conversations(g)'
        BY <4>1
      <4>8. Give(dials[h][i].req, n)
        BY <4>0, <4>2
      <4>3. given'[dials[h][i].req] = <<p.conv>>
        <5>1. Unanswered(dials[h][i].req) /\ dials[h][i].req \in Dials
          BY <1>0, KcpTypes DEF DialAt
        <5>2. KcpTypeOK /\ GivenInv /\ UNCHANGED asked_of
          BY <1>0 DEF KcpInv
        <5> QED BY <4>1, <4>2, <5>1, <5>2, GiveIs
      <4>9. /\ KcpInv' /\ dials[h][i].req \in Dials
            /\ given'[dials[h][i].req] = <<n>>
            /\ \A q \in Dials \cup Accepts : q # dials[h][i].req => given'[q] = given[q]
            /\ \A g \in Hosts : g # h => dials'[g] = dials[g]
            /\ \A k \in DOMAIN dials'[h] : \E m \in DOMAIN dials[h] : m # i /\ dials'[h][k] = dials[h][m]
        <5>1. DialAnswered(h, i, n)
          BY <3>1, <4>6, <4>7, <4>8, <4>10, <4>12 DEF DialAnswered
        <5> QED BY <4>11, <5>1, DialerGetsIt
      <4>4. \A q \in Dials \cup Accepts : q # dials[h][i].req => given'[q] = given[q]
        BY <4>9
      <4>5. /\ \A g \in Hosts : g # h => dials'[g] = dials[g]
            /\ \A k \in DOMAIN dials'[h] : \E m \in DOMAIN dials[h] : m # i /\ dials'[h][k] = dials[h][m]
        BY <4>9
      <4> QED BY <4>3, <4>4, <4>5 DEF c
    <3> QED BY <3>2
  <2>8. \A q \in Dials : Dial[q].from \in Hosts /\ Dial[q].to \in Hosts /\ Dial[q].to # h
    BY <2>3 DEF Hosts, OneDialler
  <2>9. PeerInv'
    BY <1>0, <2>5, <2>6, <2>8 DEF PeerInv
  <2>10. dials[h][i].conv = c
    BY <1>2
  <2> HIDE DEF e, c, t
  <2>11. \A m \in DOMAIN dials[h] : m # i => dials[h][m].conv # c
    BY <1>0, <2>10 DEF DialAt
  <2>12. NumberInv'
    <3>1. \A g \in Hosts : \A k \in DOMAIN dials'[g] : \E m \in DOMAIN dials[g] :
             /\ dials'[g][k].req = dials[g][m].req /\ dials'[g][k].conv = dials[g][m].conv
             /\ dials[g][m].conv \notin Conversations(g)' \ Conversations(g)
      BY <2>5, <2>6, <2>7, <2>11
    <3>2. \A q \in Dials : Conversations(Dial[q].from)' \subseteq 1 .. next_conv[Dial[q].from] - 1
      <4>1. \A q \in Dials : Conversations(Dial[q].from) \subseteq 1 .. next_conv[Dial[q].from] - 1
        BY <1>0 DEF NumberInv, NumbersTrue
      <4> QED BY <2>2, <2>5, <2>6, <2>8, <4>1
    <3> QED BY <2>6, <2>8, <3>1, <3>2, NumbersKept
  <2>13. ASSUME NEW q \in Dials, given'[q] # <<>>, given'[q][1] # Timeout
         PROVE  LET x == given'[q][1] IN
                /\ x \in Conversations(Dial[q].from)' /\ x \in Conversations(Dial[q].to)'
                /\ connections'[Dial[q].from][x] = [peer |-> Dial[q].to, session |-> 1]
                /\ connections'[Dial[q].to][x] = [peer |-> Dial[q].from, session |-> 1]
    <3>1. CASE q = e
      <4>1. given'[q][1] = c
        BY <2>7, <3>1
      <4>2. connections[t][c] = [peer |-> h, session |-> 1]
        BY <1>0, <2>3 DEF PeerInv
      <4> QED BY <2>3, <2>5, <2>6, <2>8, <3>1, <4>1, <4>2
    <3>2. CASE q # e
      <4> DEFINE x == given[q][1]
      <4>0. given'[q] = given[q]
        BY <2>7, <3>2
      <4>1. /\ x \in Conversations(Dial[q].from) /\ x \in Conversations(Dial[q].to)
            /\ connections[Dial[q].from][x] = [peer |-> Dial[q].to, session |-> 1]
            /\ connections[Dial[q].to][x] = [peer |-> Dial[q].from, session |-> 1]
        BY <1>0, <2>13, <4>0 DEF ConnectedTruly, Has, Conversations
      <4> HIDE DEF x
      <4>2. /\ connections'[Dial[q].from][x] = connections[Dial[q].from][x]
            /\ connections'[Dial[q].to][x] = connections[Dial[q].to][x]
            /\ x \in Conversations(Dial[q].from)' /\ x \in Conversations(Dial[q].to)'
        BY <2>5, <2>6, <2>8, <4>1
      <4> QED BY <4>0, <4>1, <4>2 DEF x
    <3> QED BY <3>1, <3>2
  <2>14. ConnectedTruly'
    <3>1. \A q \in Dials : Len(given'[q]) <= 1
      BY DEF KcpInv, GivenInv
    <3> QED BY <2>13, <3>1 DEF ConnectedTruly, Has, Conversations
  <2> QED BY <2>9, <2>12, <2>14 DEF TruthInv
<1> QED BY <1>1, <1>2, AckIs

\* What has been answered stays true where no connection changes.
LEMMA ConnectedSame ==
  ASSUME ConnectedTruly, UNCHANGED connections,
         \A q \in Dials : given'[q] = given[q] \/ given'[q] = <<Timeout>>
  PROVE  ConnectedTruly'
<1>1. Len(<<Timeout>>) = 1 /\ <<Timeout>>[1] = Timeout
  OBVIOUS
<1> SUFFICES ASSUME NEW q \in Dials
             PROVE  /\ Len(given'[q]) <= 1
                    /\ (given'[q] # <<>> /\ given'[q][1] # Timeout) =>
                         LET here == connections[Dial[q].from]
                             there == connections[Dial[q].to] IN
                         /\ Has(here, given'[q][1]) /\ Has(there, given'[q][1])
                         /\ here[given'[q][1]] = [peer |-> Dial[q].to, session |-> 1]
                         /\ there[given'[q][1]] = [peer |-> Dial[q].from, session |-> 1]
  BY DEF ConnectedTruly
<1>2. CASE given'[q] = given[q]
  BY <1>2 DEF ConnectedTruly
<1>3. CASE given'[q] = <<Timeout>>
  BY <1>1, <1>3
<1> QED BY <1>2, <1>3

LEMMA RetryTrue ==
  ASSUME TruthInv, KcpInv', NEW h \in Hosts, RetryConnects(h)
  PROVE  TruthInv'
<1>0. KcpInv /\ KcpTypeOK /\ GivenInv /\ DialAt(h) /\ PeerInv /\ NumberInv /\ ConnectedTruly
  BY DEF TruthInv, KcpInv, HostInv
<1>1. UNCHANGED <<connect_q, accept_q, pending_accepts, ready_accepts, next_conv, connections, asked_of>>
  BY DEF RetryConnects
<1>2. PeerInv' /\ \A g : Conversations(g)' = Conversations(g)
  BY <1>0, <1>1 DEF PeerInv, Conversations
<1>3. \A q \in Dials : /\ Conversations(Dial[q].from) \subseteq 1 .. next_conv[Dial[q].from] - 1
                       /\ NumbersTrue(q) /\ Dial[q].from \in Hosts
  BY <1>0 DEF NumberInv, NumbersTrue, Hosts
<1>4. ASSUME NEW i \in DOMAIN dials[h], GiveUp(h, i) PROVE TruthInv'
  <2> DEFINE e == dials[h][i].req
  <2>1. /\ Give(e, Timeout) /\ dials' = [dials EXCEPT ![h] = RemoveAt(@, i)] /\ UNCHANGED packets
        /\ Timeout \in Nat
    BY <1>4 DEF GiveUp, Timeout
  <2>2. DOMAIN connections' = Hosts /\ packets' \subseteq Packet
    BY <1>0, <1>1, <2>1 DEF KcpTypeOK
  <2>3. /\ \A q \in Dials \cup Accepts : q # e => given'[q] = given[q]
        /\ \A g \in Hosts : g # h => dials'[g] = dials[g]
        /\ \A k \in DOMAIN dials'[h] : \E m \in DOMAIN dials[h] : m # i /\ dials'[h][k] = dials[h][m]
    <3>1. \A g \in Hosts : Conversations(g) \subseteq Conversations(g)'
      BY <1>2
    <3>2. DialAnswered(h, i, Timeout)
      BY <1>1, <2>1, <2>2, <3>1 DEF DialAnswered
    <3>3. KcpInv
      BY <1>0
    <3> HIDE DEF e
    <3>4. \A q \in Dials \cup Accepts : q # dials[h][i].req => given'[q] = given[q]
      BY <2>1, <3>2, <3>3, DialerGetsIt
    <3>5. /\ \A g \in Hosts : g # h => dials'[g] = dials[g]
          /\ \A k \in DOMAIN dials'[h] : \E m \in DOMAIN dials[h] : m # i /\ dials'[h][k] = dials[h][m]
      BY <2>1, <3>2, <3>3, DialerGetsIt
    <3> QED BY <3>4, <3>5 DEF e
  <2>4. given'[e] = <<Timeout>>
    <3>1. Unanswered(e) /\ e \in Dials
      BY <1>0, KcpTypes DEF DialAt
    <3> QED BY <1>0, <1>1, <2>1, <3>1, GiveIs
  <2>5. ConnectedTruly'
    BY <1>0, <1>1, <2>3, <2>4, ConnectedSame
  <2>6. NumberInv'
    <3>1. \A g \in Hosts : \A k \in DOMAIN dials'[g] : \E m \in DOMAIN dials[g] :
             /\ dials'[g][k].req = dials[g][m].req /\ dials'[g][k].conv = dials[g][m].conv
             /\ dials[g][m].conv \notin Conversations(g)' \ Conversations(g)
      BY <1>2, <2>3
    <3> QED BY <1>1, <1>2, <1>3, <2>1, <3>1, NumbersKept
  <2> QED BY <1>2, <2>5, <2>6 DEF TruthInv
<1>5. ASSUME NEW i \in DOMAIN dials[h],
             SendHandshake(SYN, dials[h][i].conv, h, Dial[dials[h][i].req].to),
             dials' = [dials EXCEPT ![h][i].retries = @ + 1], UNCHANGED given
      PROVE  TruthInv'
  <2> DEFINE s == [type |-> SYN, conv |-> dials[h][i].conv, from |-> h, to |-> Dial[dials[h][i].req].to]
  <2>1. /\ \A g \in Hosts : g # h => dials'[g] = dials[g]
        /\ DOMAIN dials'[h] = DOMAIN dials[h]
        /\ \A k \in DOMAIN dials[h] : /\ dials'[h][k].req = dials[h][k].req
                                      /\ dials'[h][k].conv = dials[h][k].conv
    BY <1>0, <1>5, RepeatIs
  <2>2. ConnectedTruly'
    BY <1>0, <1>1, <1>5, ConnectedSame
  <2>3. /\ dials[h][i].req \in Dials /\ Dial[dials[h][i].req].from = h
        /\ dials[h][i].conv \in 1 .. next_conv[h] - 1
        /\ \A j \in DOMAIN dials[h] : dials[h][j].conv = dials[h][i].conv => j = i
    BY <1>0, KcpTypes DEF DialAt
  <2>4. ASSUME NEW x \in packets PROVE PacketTrue(x)'
    <3>1. PacketTrue(x) /\ Caller(x) \in Hosts /\ Callee(x) \in Hosts
      BY <1>0, CallersAreHosts DEF NumberInv, KcpTypeOK
    <3>2. next_conv[Caller(x)] \in Nat /\ next_conv' = next_conv
      BY <1>0, <1>1, <3>1, KcpTypes
    <3>3. \A g \in Hosts : \A k \in DOMAIN dials'[g] : \E m \in DOMAIN dials[g] :
             dials[g][m].req = dials'[g][k].req /\ dials[g][m].conv = dials'[g][k].conv
      BY <2>1
    <3> QED BY <1>2, <3>1, <3>2, <3>3, PacketKept
  <2>5. ASSUME NEW x \in packets', x = s PROVE PacketTrue(x)'
    <3>1. x.type # ACK /\ x.conv = dials[h][i].conv /\ Caller(x) = h /\ Callee(x) = Dial[dials[h][i].req].to
      BY <2>5 DEF Caller, Callee, SYN, ACK
    <3>2. \A k \in DOMAIN dials'[h] : dials'[h][k].conv = x.conv => Dial[dials'[h][k].req].to = Callee(x)
      BY <2>1, <2>3, <3>1
    <3>3. x.conv \in 1 .. next_conv'[h] - 1
      BY <1>1, <2>3, <3>1
    <3>4. \E r \in Dials : Dial[r].from = Caller(x) /\ Dial[r].to = Callee(x)
      BY <2>3, <3>1
    <3> HIDE DEF Caller, Callee
    <3> QED BY <3>1, <3>2, <3>3, <3>4 DEF PacketTrue
  <2>6. ASSUME NEW q \in Dials PROVE NumbersTrue(q)'
    <3>1. CASE Dial[q].from = h
      BY <1>1, <1>2, <1>3, <2>1, <3>1 DEF NumbersTrue
    <3>2. CASE Dial[q].from # h
      BY <1>1, <1>2, <1>3, <2>1, <3>2 DEF NumbersTrue
    <3> QED BY <3>1, <3>2
  <2>7. \A x \in packets' : x \in packets \/ x = s
    BY <1>5, SentIs
  <2>8. NumberInv'
    BY <2>4, <2>5, <2>6, <2>7 DEF NumberInv
  <2> QED BY <1>2, <2>2, <2>8 DEF TruthInv
<1> QED BY <1>4, <1>5 DEF RetryConnects

LEMMA NextTruthInv == ASSUME OneDialler, TruthInv, [KcpNext]_kcpvars PROVE TruthInv'
<1>0. KcpInv /\ KcpTypeOK /\ PeerInv /\ NumberInv /\ ConnectedTruly
      /\ \A g \in Hosts : AcceptAt(g)
  BY DEF TruthInv, KcpInv, HostInv
<1>1. KcpInv'
  BY <1>0, NextKcpInv
\* A step that reaches neither dials nor connections.
<1>2. ASSUME UNCHANGED <<dials, next_conv, connections>>, packets' \subseteq packets,
             \A q \in Dials : given'[q] = given[q]
      PROVE  TruthInv'
  <2>1. PeerInv' /\ \A g : Conversations(g)' = Conversations(g)
    BY <1>0, <1>2 DEF PeerInv, Conversations
  <2>2. \A q \in Dials : Conversations(Dial[q].from) \subseteq 1 .. next_conv[Dial[q].from] - 1
    BY <1>0 DEF NumberInv, NumbersTrue
  <2>3. NumberInv'
    BY <1>2, <2>1, <2>2, NumbersKept
  <2>4. ConnectedTruly'
    BY <1>0, <1>2, ConnectedSame
  <2> QED BY <1>1, <2>1, <2>3, <2>4 DEF TruthInv
<1>3. CASE Lose \/ KcpAsk \/ UNCHANGED kcpvars
  BY <1>2, <1>3 DEF Lose, KcpAsk, AskAccept, AskConnect, kcpvars
<1>4. ASSUME NEW h \in Hosts, DrainAccept(h) PROVE TruthInv'
  <2>1. accept_q[h] \in Seq(Accepts) /\ accept_q[h] # <<>>
    BY <1>0, <1>4, KcpTypes DEF DrainAccept
  <2>2. Head(accept_q[h]) \notin Dials
    BY <2>1, TailIs, KcpAssumption DEF Dials, Accepts
  <2>3. \A q \in Dials : given'[q] = given[q]
    BY <1>0, <1>4, <2>2 DEF DrainAccept, Give, KcpTypeOK
  <2> QED BY <1>2, <1>4, <2>3 DEF DrainAccept
<1>5. ASSUME NEW h \in Hosts, OnRawPacket(h) PROVE TruthInv'
  BY <1>1, <1>5, SynTrue, AckTrue DEF OnRawPacket
<1> QED BY <1>1, <1>3, <1>4, <1>5, DrainConnectTrue, RetryTrue DEF KcpNext, KcpAdvance

(* handle_ack after handle_syn: where a scheduler that is dialled is dialled *)
(* by one other and does not dial, a connect() that succeeds has the two   *)
(* halves of a connection, however packets are lost, repeated or late.     *)
THEOREM ConnectionsAreTrue == OneDialler => (KcpSpec => []ConnectedTruly)
<1> SUFFICES ASSUME OneDialler PROVE KcpSpec => []ConnectedTruly
  OBVIOUS
<1>1. KcpInit => TruthInv
  BY InitTruthInv
<1>2. TruthInv /\ [KcpNext]_kcpvars => TruthInv'
  BY NextTruthInv
<1>3. TruthInv => ConnectedTruly
  BY DEF TruthInv
<1> QED BY <1>1, <1>2, <1>3, PTL DEF KcpSpec

-----------------------------------------------------------------------------
(* kcp: loops.                                                             *)

\* What holds of 0 and goes on from each number to the next holds up to n.
LEMMA UpTo ==
  ASSUME NEW n \in Nat, NEW S, 0 \in S, \A i \in 1 .. n : i - 1 \in S => i \in S
  PROVE  \A i \in 0 .. n : i \in S
<1> DEFINE Below == {pair \in Nat \X Nat : pair[1] < pair[2]}
           Bad == {i \in 0 .. n : i \notin S}
<1>1. IsWellFoundedOn(Below, Nat)
  BY NatLessThanWellFounded DEF OpToRel
<1>2. Bad \subseteq Nat
  OBVIOUS
<1>3. CASE Bad # {}
  <2>1. PICK x \in Bad : \A y \in Bad : <<y, x>> \notin Below
    <3> HIDE DEF Bad, Below
    <3> QED BY <1>1, <1>2, <1>3, WFMin
  <2>2. x \in 1 .. n /\ x - 1 \notin S
    OBVIOUS
  <2>3. x - 1 \in Bad
    BY <2>2
  <2>4. <<x - 1, x>> \in Below
    BY <2>2
  <2> QED BY <2>1, <2>3, <2>4
<1> QED BY <1>3

\* A run of m steps over a set.
IsRun(f, m, S, a, step) ==
  f \in [0 .. m -> S] /\ f[0] = a /\ \A i \in 1 .. m : f[i] = step[i][f[i - 1]]

\* Steps that stay in a set can be run from any of its elements.
LEMMA Iterates ==
  ASSUME NEW n \in Nat, NEW S, NEW a \in S, NEW step,
         \A i \in 1 .. n : \A x \in S : step[i][x] \in S
  PROVE  \E f : IsRun(f, n, S, a, step)
<1> USE DEF IsRun
<1> DEFINE Run(f, m) == IsRun(f, m, S, a, step)
           Far == {m \in 0 .. n : \E f : Run(f, m)}
<1>1. 0 \in Far
  <2> DEFINE f == [i \in 0 .. 0 |-> a]
  <2>1. Run(f, 0)
    OBVIOUS
  <2> HIDE DEF Run, f
  <2>2. \E g : Run(g, 0)
    BY <2>1
  <2> QED BY <2>2
<1>2. ASSUME NEW m \in 1 .. n, m - 1 \in Far PROVE m \in Far
  <2>1. PICK f : Run(f, m - 1)
    BY <1>2
  <2> DEFINE g == [i \in 0 .. m |-> IF i = m THEN step[m][f[m - 1]] ELSE f[i]]
  <2>2. f[m - 1] \in S /\ step[m][f[m - 1]] \in S
    BY <2>1
  <2>3. g \in [0 .. m -> S]
    BY <2>1, <2>2
  <2>4. ASSUME NEW i \in 1 .. m PROVE g[i] = step[i][g[i - 1]]
    <3>1. CASE i = m
      BY <3>1
    <3>2. CASE i # m
      <4>1. i \in 1 .. m - 1 /\ i - 1 # m /\ i \in 0 .. m /\ i - 1 \in 0 .. m
        BY <3>2
      <4>2. g[i] = f[i] /\ g[i - 1] = f[i - 1]
        BY <4>1, <3>2
      <4>3. f[i] = step[i][f[i - 1]]
        BY <2>1, <4>1
      <4> QED BY <4>2, <4>3
    <3> QED BY <3>1, <3>2
  <2>5. g[0] = a
    BY <2>1
  <2>6. Run(g, m)
    BY <2>3, <2>4, <2>5
  <2>7. m \in 0 .. n
    OBVIOUS
  <2> HIDE DEF IsRun, Run, g
  <2>8. \E h : Run(h, m)
    BY <2>6
  <2> QED BY <2>7, <2>8
<1>3. \A m \in 0 .. n : m \in Far
  <2> HIDE DEF Far
  <2> QED BY <1>1, <1>2, UpTo
<1> HIDE DEF IsRun, Run, Far
<1>4. n \in Far
  BY <1>3
<1>5. \E f : Run(f, n)
  BY <1>4 DEF Far
<1> QED BY <1>5 DEF Run

\* Kept() is a loop.
LEMMA KeptRuns ==
  ASSUME NEW S, NEW s \in Seq(S), NEW K
  PROVE  \E f : /\ Kept(s, K) = f[Len(s)] /\ f[0] = <<>>
                /\ \A i \in 1 .. Len(s) : f[i] = IF s[i] \in K THEN Append(f[i - 1], s[i]) ELSE f[i - 1]
<1> DEFINE n == Len(s)
           one(x, y) == IF y \in K THEN Append(x, y) ELSE x
           body(f) == [i \in 0 .. n |-> IF i = 0 THEN <<>> ELSE
                         IF s[i] \in K THEN Append(f[i - 1], s[i]) ELSE f[i - 1]]
           kept == CHOOSE f : f = body(f)
           step == [i \in 1 .. n |-> [x \in Seq(S) |-> one(x, s[i])]]
<1>1. n \in Nat /\ DOMAIN s = 1 .. n /\ \A i \in 1 .. n : s[i] \in S
  OBVIOUS
<1>2. \A i \in 1 .. n : \A x \in Seq(S) : step[i][x] = one(x, s[i]) /\ one(x, s[i]) \in Seq(S)
  BY <1>1
<1>3. Kept(s, K) = kept[n]
  BY DEF Kept
<1>4. \E f : f = body(f)
  <2>1. <<>> \in Seq(S)
    OBVIOUS
  <2>2. PICK f : IsRun(f, n, Seq(S), <<>>, step)
    <3> HIDE DEF step, n, one
    <3>1. \A i \in 1 .. n : \A x \in Seq(S) : step[i][x] \in Seq(S)
      BY <1>2
    <3> QED BY <1>1, <2>1, <3>1, Iterates
  <2>3. f \in [0 .. n -> Seq(S)] /\ f[0] = <<>>
    BY <2>2 DEF IsRun
  <2>4. ASSUME NEW i \in 0 .. n PROVE f[i] = body(f)[i]
    <3>1. CASE i = 0
      BY <2>3, <3>1
    <3>2. CASE i # 0
      <4>1. i \in 1 .. n /\ i - 1 \in 0 .. n /\ f[i - 1] \in Seq(S)
        <5> HIDE DEF n
        <5>1. i \in 1 .. n /\ i - 1 \in 0 .. n
          BY <1>1, <3>2
        <5> QED BY <2>3, <5>1
      <4>2. f[i] = step[i][f[i - 1]]
        <5> HIDE DEF step
        <5> QED BY <2>2, <4>1 DEF IsRun
      <4>3. f[i] = one(f[i - 1], s[i])
        BY <1>2, <4>1, <4>2
      <4> QED BY <3>2, <4>1, <4>3
    <3> QED BY <3>1, <3>2
  <2>5. f = body(f)
    BY <2>4, <2>3
  <2> HIDE DEF body
  <2> QED BY <2>5
<1>5. kept = body(kept)
  <2> HIDE DEF body
  <2> QED BY <1>4
<1> HIDE DEF kept
<1>6. kept[0] = <<>> /\ \A i \in 1 .. n : kept[i] = one(kept[i - 1], s[i])
  <2>1. kept[0] = body(kept)[0] /\ 0 \in 0 .. n
    BY <1>1, <1>5
  <2>2. ASSUME NEW i \in 1 .. n PROVE kept[i] = one(kept[i - 1], s[i])
    <3>1. i \in 0 .. n /\ i # 0
      BY <1>1
    <3>2. kept[i] = body(kept)[i]
      BY <1>5
    <3> QED BY <3>1, <3>2
  <2> QED BY <2>1, <2>2
<1> HIDE DEF step, body
<1> QED BY <1>3, <1>6

\* What Kept keeps.
LEMMA KeptIs ==
  ASSUME NEW S, NEW s \in Seq(S), NEW K
  PROVE  /\ Kept(s, K) \in Seq(S)
         /\ \A i \in DOMAIN Kept(s, K) : /\ Kept(s, K)[i] \in K
                                         /\ \E j \in DOMAIN s : s[j] = Kept(s, K)[i]
         /\ \A j \in DOMAIN s : s[j] \in K => \E i \in DOMAIN Kept(s, K) : Kept(s, K)[i] = s[j]
         /\ Len(Kept(s, K)) <= Len(s)
<1> DEFINE n == Len(s)  one(x, y) == IF y \in K THEN Append(x, y) ELSE x
<1>1. n \in Nat /\ DOMAIN s = 1 .. n /\ \A i \in 1 .. n : s[i] \in S
  OBVIOUS
<1>2. PICK kept : /\ Kept(s, K) = kept[n] /\ kept[0] = <<>>
                  /\ \A i \in 1 .. n : kept[i] = one(kept[i - 1], s[i])
  BY KeptRuns
<1>3. Kept(s, K) = kept[n]
  BY <1>2
<1>6. kept[0] = <<>> /\ \A i \in 1 .. n : kept[i] = one(kept[i - 1], s[i])
  BY <1>2
<1> DEFINE Ok(i, x) == /\ x \in Seq(S) /\ Len(x) <= i
                       /\ \A h \in DOMAIN x : x[h] \in K /\ \E j \in 1 .. i : s[j] = x[h]
                       /\ \A j \in 1 .. i : s[j] \in K => \E h \in DOMAIN x : x[h] = s[j]
           Good == {i \in 0 .. n : Ok(i, kept[i])}
<1>7. 0 \in Good
  <2> DEFINE x == kept[0]
  <2>1. x \in Seq(S) /\ Len(x) = 0 /\ DOMAIN x = 1 .. 0
    BY <1>6
  <2> HIDE DEF x
  <2>2. Ok(0, x)
    BY <2>1
  <2> QED BY <1>1, <2>2 DEF x
<1>8. ASSUME NEW i \in 1 .. n, i - 1 \in Good PROVE i \in Good
  <2> DEFINE x == kept[i - 1]  y == kept[i]
  <2>1. Ok(i - 1, x) /\ i \in Nat /\ i - 1 \in Nat /\ s[i] \in S
    BY <1>1, <1>8
  <2>2. y = one(x, s[i])
    BY <1>6
  <2> HIDE DEF x, y
  <2>3. CASE s[i] \in K
    <3>1. y = Append(x, s[i]) /\ y \in Seq(S) /\ DOMAIN y = 1 .. Len(x) + 1 /\ Len(y) = Len(x) + 1
          /\ Len(x) \in Nat /\ DOMAIN x = 1 .. Len(x)
      BY <2>1, <2>2, <2>3
    <3>2. y[Len(x) + 1] = s[i] /\ \A h \in 1 .. Len(x) : y[h] = x[h]
      BY <2>1, <3>1
    <3>3. ASSUME NEW h \in DOMAIN y PROVE y[h] \in K /\ \E j \in 1 .. i : s[j] = y[h]
      <4>1. CASE h = Len(x) + 1
        BY <2>3, <3>2, <4>1
      <4>2. CASE h # Len(x) + 1
        <5>1. h \in DOMAIN x /\ y[h] = x[h]
          BY <3>1, <3>2, <4>2
        <5> QED BY <2>1, <5>1
      <4> QED BY <4>1, <4>2
    <3>4. ASSUME NEW j \in 1 .. i, s[j] \in K PROVE \E h \in DOMAIN y : y[h] = s[j]
      <4>1. CASE j = i
        BY <3>1, <3>2, <4>1
      <4>2. CASE j # i
        <5>1. j \in 1 .. i - 1
          BY <4>2
        <5>2. PICK h \in DOMAIN x : x[h] = s[j]
          BY <2>1, <3>4, <5>1
        <5> QED BY <3>1, <3>2, <5>2
      <4> QED BY <4>1, <4>2
    <3>5. Len(y) <= i
      BY <2>1, <3>1
    <3>6. Ok(i, y)
      BY <3>1, <3>3, <3>4, <3>5
    <3> QED BY <3>6 DEF y
  <2>4. CASE s[i] \notin K
    <3>1. y = x
      BY <2>2, <2>4
    <3>2. ASSUME NEW h \in DOMAIN x PROVE \E j \in 1 .. i : s[j] = x[h]
      BY <2>1
    <3>3. ASSUME NEW j \in 1 .. i, s[j] \in K PROVE \E h \in DOMAIN x : x[h] = s[j]
      <4>1. j \in 1 .. i - 1
        BY <2>4, <3>3
      <4> QED BY <2>1, <3>3, <4>1
    <3>4. Ok(i, x)
      BY <2>1, <3>2, <3>3
    <3> QED BY <3>1, <3>4 DEF y
  <2> QED BY <2>3, <2>4
<1>9. n \in Good
  <2> HIDE DEF Good, n
  <2>1. \A i \in 0 .. n : i \in Good
    BY <1>1, <1>7, <1>8, UpTo
  <2> QED BY <1>1, <2>1
<1> QED BY <1>1, <1>3, <1>9

-----------------------------------------------------------------------------
(* The segments and the control blocks.                                    *)
Data     == Nat \X Nat
Arrivals == [sn : Nat, frg : Nat, data : Data]
Queued   == [frg : Nat, data : Data]
Buffered == [sn : Nat, frg : Nat, data : Data, xmit : Nat, fastack : Nat]
Segments == [cmd : {"ACK", "PUSH", "WASK", "WINS"}, sn : Nat, frg : Nat,
             data : Data \cup {<<>>}, wnd : Int, una : Nat]
Kcps == [snd_una : Nat, snd_nxt : Nat, rcv_nxt : Nat, rmt_wnd : Int,
         probe : SUBSET {"SEND", "TELL"}, probe_wait : BOOLEAN, state : Int,
         snd_queue : Seq(Queued), snd_buf : Seq(Buffered),
         rcv_queue : Seq(Arrivals), rcv_buf : Seq(Arrivals), acklist : Seq(Nat)]

\* The segments that have come: delivered on, or in a buffer.
HasCome(k, n) == n < k.rcv_nxt \/ \E i \in DOMAIN k.rcv_buf : k.rcv_buf[i].sn = n
Had(k) == {n \in Nat : HasCome(k, n)}

\* What waits in rcv_queue, what in rcv_buf; the number of the first segment
\* in rcv_queue.
InQueue(k) == Len(k.rcv_queue)
InBuf(k)   == Len(k.rcv_buf)
Base(k)    == k.rcv_nxt - InQueue(k)

\* The receiver holds segments of G, those of rcv_queue without a gap.
HoldsOf(k, G) ==
  /\ k \in Kcps
  /\ k.rcv_queue \in Seq(G) /\ k.rcv_buf \in Seq(G)
  /\ \A m \in 1 .. InQueue(k) : k.rcv_queue[m].sn = Base(k) + m - 1

\* What a receiver may do from k to r: nothing it has is lost.
ReceiverFollows(r, k) ==
  /\ Base(r) = Base(k) /\ k.rcv_nxt <= r.rcv_nxt
  /\ \A n \in Nat : HasCome(k, n) => HasCome(r, n)

\* What a sender may do on an answer: only what is in H leaves snd_buf.
SenderFollows(r, k, H) ==
  /\ r.snd_nxt = k.snd_nxt /\ r.snd_queue = k.snd_queue
  /\ \A i \in DOMAIN r.snd_buf : \E j \in DOMAIN k.snd_buf :
       /\ r.snd_buf[i].sn = k.snd_buf[j].sn /\ r.snd_buf[i].frg = k.snd_buf[j].frg
       /\ r.snd_buf[i].data = k.snd_buf[j].data
  /\ \A j \in DOMAIN k.snd_buf :
       \/ k.snd_buf[j].sn \in H
       \/ \E i \in DOMAIN r.snd_buf : r.snd_buf[i].sn = k.snd_buf[j].sn

SameReceiver(r, k) == r.rcv_nxt = k.rcv_nxt /\ r.rcv_queue = k.rcv_queue /\ r.rcv_buf = k.rcv_buf
                      /\ r.acklist = k.acklist
SameSender(r, k) == r.snd_una = k.snd_una /\ r.snd_nxt = k.snd_nxt /\ r.snd_queue = k.snd_queue
                    /\ r.snd_buf = k.snd_buf

\* One change of a sender after another.
LEMMA SenderThen ==
  ASSUME NEW k, NEW r, NEW q, NEW H, SenderFollows(r, k, H), SenderFollows(q, r, H)
  PROVE  SenderFollows(q, k, H)
<1>1. ASSUME NEW i \in DOMAIN q.snd_buf
      PROVE  \E j \in DOMAIN k.snd_buf :
               /\ q.snd_buf[i].sn = k.snd_buf[j].sn /\ q.snd_buf[i].frg = k.snd_buf[j].frg
               /\ q.snd_buf[i].data = k.snd_buf[j].data
  BY DEF SenderFollows
<1>2. ASSUME NEW j \in DOMAIN k.snd_buf, k.snd_buf[j].sn \notin H
      PROVE  \E i \in DOMAIN q.snd_buf : q.snd_buf[i].sn = k.snd_buf[j].sn
  <2>1. PICK h \in DOMAIN r.snd_buf : r.snd_buf[h].sn = k.snd_buf[j].sn
    BY <1>2 DEF SenderFollows
  <2>2. r.snd_buf[h].sn \notin H
    BY <1>2, <2>1
  <2> QED BY <2>1, <2>2 DEF SenderFollows
<1>3. q.snd_nxt = k.snd_nxt /\ q.snd_queue = k.snd_queue
  BY DEF SenderFollows
<1> QED BY <1>1, <1>2, <1>3 DEF SenderFollows

\* One change of a receiver after another.
LEMMA ReceiverThen ==
  ASSUME NEW k \in Kcps, NEW r \in Kcps, NEW q \in Kcps, ReceiverFollows(r, k), ReceiverFollows(q, r)
  PROVE  ReceiverFollows(q, k)
<1>1. k.rcv_nxt \in Nat /\ r.rcv_nxt \in Nat /\ q.rcv_nxt \in Nat
  BY DEF Kcps
<1>2. Base(q) = Base(k) /\ \A n \in Nat : HasCome(k, n) => HasCome(q, n)
  BY DEF ReceiverFollows
<1>3. k.rcv_nxt <= q.rcv_nxt
  BY <1>1 DEF ReceiverFollows
<1> QED BY <1>2, <1>3 DEF ReceiverFollows

\* A receiver that has not changed holds what it held.
LEMMA SameReceiverFollows ==
  ASSUME NEW k \in Kcps, NEW r \in Kcps, NEW G, HoldsOf(k, G), SameReceiver(r, k)
  PROVE  HoldsOf(r, G) /\ ReceiverFollows(r, k)
<1>1. k.rcv_nxt \in Nat
  BY DEF Kcps
<1>2. Base(r) = Base(k) /\ \A n \in Nat : HasCome(k, n) <=> HasCome(r, n)
  BY DEF SameReceiver, Base, InQueue, HasCome
<1>3. HoldsOf(r, G)
  BY <1>2 DEF HoldsOf, SameReceiver, InQueue
<1>4. ReceiverFollows(r, k)
  BY <1>1, <1>2 DEF ReceiverFollows, SameReceiver
<1> QED BY <1>3, <1>4

\* A sender that has not changed has forgotten nothing.
LEMMA SameSenderFollows ==
  ASSUME NEW k \in Kcps, NEW r \in Kcps, NEW H, SameSender(r, k)
  PROVE  SenderFollows(r, k, H)
BY DEF SenderFollows, SameSender

\* A sender that keeps of snd_buf what is in K.
LEMMA KeepInSndBuf ==
  ASSUME NEW k \in Kcps, NEW K, NEW H,
         \A j \in DOMAIN k.snd_buf : k.snd_buf[j] \in K \/ k.snd_buf[j].sn \in H
  PROVE  LET r == [k EXCEPT !.snd_buf = Kept(@, K)] IN
         r \in Kcps /\ SenderFollows(r, k, H) /\ SameReceiver(r, k) /\ r.snd_una = k.snd_una
<1> DEFINE b == k.snd_buf  c == Kept(b, K)  r == [k EXCEPT !.snd_buf = c]
<1>1. b \in Seq(Buffered)
  BY DEF Kcps
<1>2. /\ c \in Seq(Buffered)
      /\ \A i \in DOMAIN c : \E j \in DOMAIN b : b[j] = c[i]
      /\ \A j \in DOMAIN b : b[j] \in K => \E i \in DOMAIN c : c[i] = b[j]
  <2> HIDE DEF b
  <2> QED BY <1>1, KeptIs
<1> HIDE DEF c
<1>3. r \in Kcps /\ r.snd_buf = c
  BY <1>2 DEF Kcps
<1>4. /\ SameReceiver(r, k) /\ r.snd_una = k.snd_una
      /\ r.snd_nxt = k.snd_nxt /\ r.snd_queue = k.snd_queue
  BY DEF Kcps, SameReceiver
<1>5. ASSUME NEW j \in DOMAIN b, b[j].sn \notin H
      PROVE  \E i \in DOMAIN c : c[i].sn = b[j].sn
  BY <1>2, <1>5
<1> HIDE DEF r
<1>6. SenderFollows(r, k, H)
  <2>1. \A i \in DOMAIN c : \E j \in DOMAIN b : c[i].sn = b[j].sn /\ c[i].frg = b[j].frg /\ c[i].data = b[j].data
    BY <1>2
  <2> QED BY <1>3, <1>4, <1>5, <2>1 DEF SenderFollows
<1> QED BY <1>3, <1>4, <1>6 DEF r, c

\* ikcp_parse_una(): only segments below una leave snd_buf.
LEMMA ParseUnaIs ==
  ASSUME NEW k \in Kcps, NEW una \in Nat, NEW H, \A n \in Nat : n < una => n \in H
  PROVE  /\ ParseUna(k, una) \in Kcps
         /\ SenderFollows(ParseUna(k, una), k, H)
         /\ SameReceiver(ParseUna(k, una), k)
<1> DEFINE K == {s \in Range(k.snd_buf) : s.sn >= una}
<1>1. ParseUna(k, una) = [k EXCEPT !.snd_buf = Kept(@, K)]
  BY DEF ParseUna
<1>2. ASSUME NEW j \in DOMAIN k.snd_buf PROVE k.snd_buf[j] \in K \/ k.snd_buf[j].sn \in H
  <2>1. k.snd_buf \in Seq(Buffered)
    BY DEF Kcps
  <2>2. k.snd_buf[j] \in Buffered
    BY <2>1
  <2>3. k.snd_buf[j].sn \in Nat
    BY <2>2 DEF Buffered
  <2> QED BY <2>3 DEF Range
<1> HIDE DEF K
<1> QED BY <1>1, <1>2, KeepInSndBuf

\* ikcp_shrink_buf(): snd_una is moved, nothing else.
LEMMA ShrinkBufIs ==
  ASSUME NEW k \in Kcps, NEW H
  PROVE  /\ ShrinkBuf(k) \in Kcps
         /\ SenderFollows(ShrinkBuf(k), k, H)
         /\ SameReceiver(ShrinkBuf(k), k)
<1> DEFINE una == IF k.snd_buf = <<>> THEN k.snd_nxt ELSE k.snd_buf[1].sn
           r == [k EXCEPT !.snd_una = una]
<1>1. una \in Nat
  <2>1. CASE k.snd_buf = <<>>
    BY <2>1 DEF Kcps
  <2>2. CASE k.snd_buf # <<>>
    <3>1. k.snd_buf \in Seq(Buffered) /\ 1 \in DOMAIN k.snd_buf
      BY <2>2 DEF Kcps
    <3>2. k.snd_buf[1] \in Buffered
      BY <3>1
    <3> QED BY <2>2, <3>2 DEF Buffered
  <2> QED BY <2>1, <2>2
<1> HIDE DEF una
<1>2. r \in Kcps /\ SameReceiver(r, k) /\ r.snd_nxt = k.snd_nxt /\ r.snd_queue = k.snd_queue
      /\ r.snd_buf = k.snd_buf
  BY <1>1 DEF Kcps, SameReceiver
<1> HIDE DEF r
<1>3. SenderFollows(r, k, H)
  BY <1>2 DEF SenderFollows
<1> QED BY <1>2, <1>3 DEF ShrinkBuf, r, una

\* ikcp_parse_ack(): only the segment that was acknowledged leaves snd_buf.
LEMMA ParseAckIs ==
  ASSUME NEW k \in Kcps, NEW sn \in Nat, NEW H, sn \in H
  PROVE  /\ ParseAck(k, sn) \in Kcps
         /\ SenderFollows(ParseAck(k, sn), k, H)
         /\ SameReceiver(ParseAck(k, sn), k)
<1> DEFINE K == {s \in Range(k.snd_buf) : s.sn # sn}
<1>1. CASE Unacknowledged(k, sn)
  <2>1. ParseAck(k, sn) = [k EXCEPT !.snd_buf = Kept(@, K)]
    BY <1>1 DEF ParseAck
  <2>2. \A j \in DOMAIN k.snd_buf : k.snd_buf[j] \in K \/ k.snd_buf[j].sn \in H
    BY DEF Range
  <2> HIDE DEF K
  <2> QED BY <2>1, <2>2, KeepInSndBuf
<1>2. CASE ~Unacknowledged(k, sn)
  <2>1. ParseAck(k, sn) = k
    BY <1>2 DEF ParseAck
  <2>2. SameSender(k, k) /\ SameReceiver(k, k)
    BY DEF SameSender, SameReceiver
  <2> QED BY <2>1, <2>2, SameSenderFollows
<1> QED BY <1>1, <1>2

\* The smaller of two numbers.
LEMMA AtMostIs == ASSUME NEW n \in Nat, NEW x \in Nat PROVE AtMost(n, x) \in Nat /\ AtMost(n, x) <= n /\ AtMost(n, x) <= x
BY DEF AtMost

\* A sender that only counts in snd_buf.
LEMMA CountInSndBuf ==
  ASSUME NEW k \in Kcps, NEW b \in Seq(Buffered), NEW H, Len(b) = Len(k.snd_buf),
         \A i \in DOMAIN b : /\ b[i].sn = k.snd_buf[i].sn /\ b[i].frg = k.snd_buf[i].frg
                             /\ b[i].data = k.snd_buf[i].data
  PROVE  LET r == [k EXCEPT !.snd_buf = b] IN
         r \in Kcps /\ SenderFollows(r, k, H) /\ SameReceiver(r, k)
<1> DEFINE r == [k EXCEPT !.snd_buf = b]
<1>1. r \in Kcps /\ r.snd_buf = b /\ SameReceiver(r, k) /\ r.snd_nxt = k.snd_nxt /\ r.snd_queue = k.snd_queue
  BY DEF Kcps, SameReceiver
<1>2. k.snd_buf \in Seq(Buffered)
  BY DEF Kcps
<1>3. DOMAIN b = DOMAIN k.snd_buf
  BY <1>2
<1> HIDE DEF r
<1>4. SenderFollows(r, k, H)
  BY <1>1, <1>3 DEF SenderFollows
<1> QED BY <1>1, <1>4 DEF r

\* ikcp_parse_fastack(): only fastack counters change.
LEMMA ParseFastackIs ==
  ASSUME NEW k \in Kcps, NEW sn, NEW H
  PROVE  /\ ParseFastack(k, sn) \in Kcps
         /\ SenderFollows(ParseFastack(k, sn), k, H)
         /\ SameReceiver(ParseFastack(k, sn), k)
<1> DEFINE b == [i \in DOMAIN k.snd_buf |-> Overtaken(k.snd_buf[i], sn)]
<1>1. CASE Unacknowledged(k, sn)
  <2>1. ParseFastack(k, sn) = [k EXCEPT !.snd_buf = b]
    BY <1>1 DEF ParseFastack
  <2>2. k.snd_buf \in Seq(Buffered)
    BY DEF Kcps
  <2>3. ASSUME NEW i \in DOMAIN k.snd_buf
        PROVE  /\ b[i] \in Buffered /\ b[i].sn = k.snd_buf[i].sn /\ b[i].frg = k.snd_buf[i].frg
               /\ b[i].data = k.snd_buf[i].data
    <3> DEFINE s == k.snd_buf[i]
    <3>1. s \in Buffered
      BY <2>2
    <3>2. s \in Buffered /\ s.fastack + 1 \in Nat
      BY <3>1 DEF Buffered
    <3>3. AtMost(FastResend, s.fastack + 1) \in Nat
      BY <3>2, AtMostIs, ArqAssumption
    <3>4. b[i] = IF s.sn < sn THEN [s EXCEPT !.fastack = AtMost(FastResend, s.fastack + 1)] ELSE s
      BY DEF Overtaken
    <3> HIDE DEF s, b
    <3>5. b[i] \in Buffered /\ b[i].sn = s.sn /\ b[i].frg = s.frg /\ b[i].data = s.data
      BY <3>2, <3>3, <3>4 DEF Buffered
    <3> QED BY <3>5 DEF s
  <2>4. DOMAIN b = DOMAIN k.snd_buf /\ DOMAIN b = 1 .. Len(k.snd_buf) /\ Len(k.snd_buf) \in Nat
    BY <2>2
  <2>5. b \in Seq(Buffered) /\ Len(b) = Len(k.snd_buf)
    <3>1. b = [i \in 1 .. Len(k.snd_buf) |-> b[i]]
      BY <2>4
    <3> HIDE DEF b
    <3> QED BY <2>3, <2>4, <3>1
  <2> HIDE DEF b
  <2>6. b \in Seq(Buffered) /\ Len(b) = Len(k.snd_buf)
        /\ \A i \in DOMAIN b : /\ b[i].sn = k.snd_buf[i].sn /\ b[i].frg = k.snd_buf[i].frg
                               /\ b[i].data = k.snd_buf[i].data
    BY <2>3, <2>4, <2>5
  <2> DEFINE r == [k EXCEPT !.snd_buf = b]
  <2>7. r \in Kcps /\ SenderFollows(r, k, H) /\ SameReceiver(r, k)
    BY <2>6, CountInSndBuf
  <2> HIDE DEF r
  <2> QED BY <2>1, <2>7 DEF r
<1>2. CASE ~Unacknowledged(k, sn)
  <2>1. ParseFastack(k, sn) = k
    BY <1>2 DEF ParseFastack
  <2>2. SameSender(k, k) /\ SameReceiver(k, k)
    BY DEF SameSender, SameReceiver
  <2> QED BY <2>1, <2>2, SameSenderFollows
<1> QED BY <1>1, <1>2

\* A receiver with another rcv_buf: its sender is untouched.
LEMMA PutBuf ==
  ASSUME NEW k \in Kcps, NEW b \in Seq(Arrivals)
  PROVE  LET r == [k EXCEPT !.rcv_buf = b] IN
         /\ r \in Kcps /\ SameSender(r, k) /\ r.acklist = k.acklist
         /\ r.rcv_queue = k.rcv_queue /\ r.rcv_buf = b /\ r.rcv_nxt = k.rcv_nxt
<1> DEFINE r == [k EXCEPT !.rcv_buf = b]
<1>1. r \in Kcps
  BY DEF Kcps
<1>2. SameSender(r, k) /\ r.acklist = k.acklist /\ r.rcv_queue = k.rcv_queue /\ r.rcv_buf = b
      /\ r.rcv_nxt = k.rcv_nxt
  BY DEF Kcps, SameSender
<1> QED BY <1>1, <1>2

\* One move from rcv_buf to rcv_queue: the next segment in order, and the
\* order of rcv_queue goes on.
LEMMA MoveUpIs ==
  ASSUME NEW k, NEW G, G \subseteq Arrivals, HoldsOf(k, G), NEW s \in G
  PROVE  LET r == MoveUp(k, s) IN
         /\ HoldsOf(r, G) /\ SameSender(r, k) /\ r.acklist = k.acklist
         /\ ReceiverFollows(r, k) /\ HasCome(r, s.sn)
         /\ InQueue(r) + InBuf(r) = InQueue(k) + InBuf(k) + 1
<1> DEFINE q == Append(k.rcv_queue, s)  b == Append(k.rcv_buf, s)
           nxt == k.rcv_nxt + 1
           in == [k EXCEPT !.rcv_queue = q, !.rcv_nxt = nxt]
           out == [k EXCEPT !.rcv_buf = b]
<1>1. /\ k \in Kcps /\ k.rcv_queue \in Seq(G) /\ k.rcv_buf \in Seq(G) /\ k.rcv_nxt \in Nat
      /\ k.rcv_queue \in Seq(Arrivals) /\ k.rcv_buf \in Seq(Arrivals)
  BY DEF HoldsOf, Kcps
<1>2. s \in Arrivals /\ s.sn \in Nat
  BY DEF Arrivals
<1>3. /\ q \in Seq(G) /\ q \in Seq(Arrivals) /\ Len(q) = InQueue(k) + 1
      /\ \A m \in 1 .. InQueue(k) : q[m] = k.rcv_queue[m]
      /\ q[InQueue(k) + 1] = s /\ InQueue(k) \in Nat
  BY <1>1, <1>2 DEF InQueue
<1>4. /\ b \in Seq(G) /\ b \in Seq(Arrivals) /\ Len(b) = InBuf(k) + 1
      /\ \A m \in 1 .. InBuf(k) : b[m] = k.rcv_buf[m]
      /\ b[InBuf(k) + 1] = s /\ InBuf(k) \in Nat
      /\ DOMAIN b = 1 .. InBuf(k) + 1 /\ DOMAIN k.rcv_buf = 1 .. InBuf(k)
  BY <1>1, <1>2 DEF InBuf
<1> HIDE DEF q, b, nxt
<1>5. CASE k.rcv_buf = <<>> /\ s.sn = k.rcv_nxt /\ InQueue(k) < RcvWnd
  <2>1. MoveUp(k, s) = in
    BY <1>5 DEF MoveUp, q, nxt, InQueue
  <2>2. /\ in \in Kcps /\ SameSender(in, k) /\ in.acklist = k.acklist /\ in.rcv_queue = q
        /\ in.rcv_buf = k.rcv_buf /\ in.rcv_nxt = k.rcv_nxt + 1
    <3>1. k \in Kcps /\ q \in Seq(Arrivals) /\ k.rcv_nxt + 1 \in Nat
      BY <1>1, <1>3
    <3>2. nxt \in Nat
      BY <3>1 DEF nxt
    <3>3. in \in Kcps
      BY <3>1, <3>2 DEF Kcps
    <3>4. /\ SameSender(in, k) /\ in.acklist = k.acklist /\ in.rcv_queue = q
          /\ in.rcv_buf = k.rcv_buf /\ in.rcv_nxt = nxt
      BY <3>1 DEF Kcps, SameSender
    <3> HIDE DEF in
    <3> QED BY <3>3, <3>4 DEF nxt
  <2> HIDE DEF in
  <2>3. Base(in) = Base(k)
    <3>1. InQueue(k) \in Nat /\ k.rcv_nxt \in Nat
      BY <1>1, <1>3
    <3>2. InQueue(in) = InQueue(k) + 1
      BY <1>3, <2>2 DEF InQueue
    <3> QED BY <2>2, <3>1, <3>2 DEF Base
  <2>4. ASSUME NEW m \in 1 .. Len(q) PROVE q[m].sn = Base(k) + m - 1
    <3>1. CASE m = InQueue(k) + 1
      <4>1. q[m].sn = k.rcv_nxt
        BY <1>3, <1>5, <3>1
      <4>2. k.rcv_nxt = Base(k) + m - 1
        BY <1>1, <1>3, <3>1 DEF Base
      <4> QED BY <4>1, <4>2
    <3>2. CASE m # InQueue(k) + 1
      <4>1. m \in 1 .. InQueue(k)
        BY <1>3, <3>2
      <4> QED BY <1>3, <4>1 DEF HoldsOf
    <3> QED BY <3>1, <3>2
  <2>5. HoldsOf(in, G)
    BY <1>1, <1>3, <2>2, <2>3, <2>4 DEF HoldsOf, InQueue
  <2>6. ASSUME NEW n \in Nat, HasCome(k, n) PROVE HasCome(in, n)
    <3>1. CASE n < k.rcv_nxt
      <4>1. n < in.rcv_nxt
        BY <1>1, <2>2, <3>1
      <4> QED BY <4>1 DEF HasCome
    <3>2. CASE \E i \in DOMAIN k.rcv_buf : k.rcv_buf[i].sn = n
      BY <2>2, <3>2 DEF HasCome
    <3> QED BY <2>6, <3>1, <3>2 DEF HasCome
  <2>7. HasCome(in, s.sn)
    BY <1>1, <1>2, <1>5, <2>2 DEF HasCome
  <2>8. k.rcv_nxt <= in.rcv_nxt
    BY <1>1, <2>2
  <2>9. ReceiverFollows(in, k)
    BY <2>3, <2>6, <2>8 DEF ReceiverFollows
  <2>10. InQueue(in) + InBuf(in) = InQueue(k) + InBuf(k) + 1
    <3>1. InQueue(k) \in Nat /\ InBuf(k) \in Nat
      BY <1>3, <1>4
    <3>2. InQueue(in) = InQueue(k) + 1 /\ InBuf(in) = InBuf(k)
      BY <1>3, <2>2 DEF InQueue, InBuf
    <3> QED BY <3>1, <3>2
  <2> QED BY <2>1, <2>2, <2>5, <2>7, <2>9, <2>10
<1>6. CASE ~(k.rcv_buf = <<>> /\ s.sn = k.rcv_nxt /\ InQueue(k) < RcvWnd)
  <2>1. MoveUp(k, s) = out
    BY <1>6 DEF MoveUp, b, InQueue
  <2>2. /\ out \in Kcps /\ SameSender(out, k) /\ out.acklist = k.acklist /\ out.rcv_queue = k.rcv_queue
        /\ out.rcv_buf = b /\ out.rcv_nxt = k.rcv_nxt
    BY <1>1, <1>4, PutBuf
  <2> HIDE DEF out
  <2>3. Base(out) = Base(k)
    BY <2>2 DEF Base, InQueue
  <2>4. HoldsOf(out, G)
    BY <1>1, <1>4, <2>2, <2>3 DEF HoldsOf, InQueue
  <2>5. ASSUME NEW n \in Nat, HasCome(k, n) PROVE HasCome(out, n)
    <3>1. CASE n < k.rcv_nxt
      BY <2>2, <3>1 DEF HasCome
    <3>2. CASE \E i \in DOMAIN k.rcv_buf : k.rcv_buf[i].sn = n
      <4>1. PICK i \in DOMAIN k.rcv_buf : k.rcv_buf[i].sn = n
        BY <3>2
      <4>2. i \in DOMAIN b /\ b[i] = k.rcv_buf[i]
        BY <1>4
      <4> QED BY <2>2, <4>1, <4>2 DEF HasCome
    <3> QED BY <2>5, <3>1, <3>2 DEF HasCome
  <2>6. HasCome(out, s.sn)
    <3>1. InBuf(k) + 1 \in DOMAIN b
      BY <1>4
    <3> QED BY <1>4, <2>2, <3>1 DEF HasCome
  <2>7. ReceiverFollows(out, k)
    BY <1>1, <2>2, <2>3, <2>5 DEF ReceiverFollows
  <2>8. InQueue(out) + InBuf(out) = InQueue(k) + InBuf(k) + 1
    <3>1. InQueue(k) \in Nat /\ InBuf(k) \in Nat
      BY <1>3, <1>4
    <3>2. InQueue(out) = InQueue(k) /\ InBuf(out) = InBuf(k) + 1
      BY <1>4, <2>2 DEF InQueue, InBuf
    <3> QED BY <3>1, <3>2
  <2> QED BY <2>1, <2>2, <2>4, <2>6, <2>7, <2>8
<1> QED BY <1>5, <1>6

\* move_rcv_buf_to_queue() is a loop.
LEMMA MoveRuns ==
  ASSUME NEW k, NEW G, G \subseteq Arrivals, HoldsOf(k, G)
  PROVE  \E f : /\ MoveRcvBufToQueue(k) = f[Len(k.rcv_buf)] /\ f[0] = [k EXCEPT !.rcv_buf = <<>>]
                /\ \A i \in 1 .. Len(k.rcv_buf) : f[i] = MoveUp(f[i - 1], k.rcv_buf[i])
<1> DEFINE s == k.rcv_buf  n == Len(s)  none == [k EXCEPT !.rcv_buf = <<>>]
           body(f) == [i \in 0 .. n |-> IF i = 0 THEN none ELSE MoveUp(f[i - 1], s[i])]
           moved == CHOOSE f : f = body(f)
           S == {x \in Kcps : HoldsOf(x, G)}
           step == [i \in 1 .. n |-> [x \in S |-> MoveUp(x, s[i])]]
<1>1. k \in Kcps /\ k.rcv_queue \in Seq(G) /\ s \in Seq(G) /\ k.rcv_nxt \in Nat /\ InQueue(k) \in Nat
  BY DEF HoldsOf, Kcps, InQueue
<1>2. n \in Nat /\ DOMAIN s = 1 .. n /\ \A i \in 1 .. n : s[i] \in G
  BY <1>1
<1>3. MoveRcvBufToQueue(k) = moved[n]
  BY DEF MoveRcvBufToQueue
<1>4. /\ none \in Kcps /\ SameSender(none, k) /\ none.acklist = k.acklist
      /\ none.rcv_queue = k.rcv_queue /\ none.rcv_nxt = k.rcv_nxt /\ none.rcv_buf = <<>>
  <2>1. <<>> \in Seq(Arrivals)
    OBVIOUS
  <2> QED BY <1>1, <2>1, PutBuf
<1> HIDE DEF none
<1>5. Base(none) = Base(k) /\ HoldsOf(none, G)
  <2>1. Base(none) = Base(k)
    BY <1>4 DEF Base, InQueue
  <2>2. <<>> \in Seq(G)
    OBVIOUS
  <2> QED BY <1>1, <1>4, <2>1, <2>2 DEF HoldsOf, InQueue
<1>6. ASSUME NEW i \in 1 .. n, NEW x \in S PROVE step[i][x] = MoveUp(x, s[i]) /\ MoveUp(x, s[i]) \in S
  <2>1. HoldsOf(x, G) /\ s[i] \in G
    BY <1>2
  <2>2. HoldsOf(MoveUp(x, s[i]), G)
    BY <2>1, MoveUpIs
  <2>3. MoveUp(x, s[i]) \in Kcps
    BY <2>2 DEF HoldsOf
  <2> QED BY <2>2, <2>3
<1>7. \E f : f = body(f)
  <2>1. none \in S
    BY <1>4, <1>5
  <2>2. PICK f : IsRun(f, n, S, none, step)
    <3> HIDE DEF step, n, S
    <3>1. \A i \in 1 .. n : \A x \in S : step[i][x] \in S
      BY <1>6
    <3> QED BY <1>2, <2>1, <3>1, Iterates
  <2>3. f \in [0 .. n -> S] /\ f[0] = none
    <3> HIDE DEF S, step
    <3> QED BY <2>2 DEF IsRun
  <2>4. ASSUME NEW i \in 0 .. n PROVE f[i] = body(f)[i]
    <3>1. CASE i = 0
      BY <2>3, <3>1
    <3>2. CASE i # 0
      <4> HIDE DEF S, step
      <4>1. i \in 1 .. n /\ i - 1 \in 0 .. n /\ f[i - 1] \in S
        BY <1>2, <2>3, <3>2
      <4>2. f[i] = step[i][f[i - 1]]
        BY <2>2, <4>1 DEF IsRun
      <4>3. f[i] = MoveUp(f[i - 1], s[i])
        BY <1>6, <4>1, <4>2
      <4> QED BY <3>2, <4>1, <4>3
    <3> QED BY <3>1, <3>2
  <2>5. f = body(f)
    <3> HIDE DEF S
    <3> QED BY <2>3, <2>4
  <2> HIDE DEF body
  <2> QED BY <2>5
<1>8. moved = body(moved)
  <2> HIDE DEF body
  <2> QED BY <1>7
<1> HIDE DEF moved
<1>9. moved[0] = none /\ \A i \in 1 .. n : moved[i] = MoveUp(moved[i - 1], s[i])
  <2>1. moved[0] = body(moved)[0] /\ 0 \in 0 .. n
    BY <1>2, <1>8
  <2>2. ASSUME NEW i \in 1 .. n PROVE moved[i] = MoveUp(moved[i - 1], s[i])
    <3>1. i \in 0 .. n /\ i # 0
      BY <1>2
    <3>2. moved[i] = body(moved)[i]
      BY <1>8
    <3> QED BY <3>1, <3>2
  <2> QED BY <2>1, <2>2
<1> HIDE DEF step, body, S
<1> QED BY <1>3, <1>9 DEF none

\* The moves of ikcp_input() and ikcp_recv(), as many as rcv_buf has segments.
LEMMA MoveIs ==
  ASSUME NEW k, NEW G, G \subseteq Arrivals, HoldsOf(k, G)
  PROVE  LET r == MoveRcvBufToQueue(k) IN
         /\ HoldsOf(r, G) /\ SameSender(r, k) /\ r.acklist = k.acklist /\ ReceiverFollows(r, k)
         /\ InQueue(r) + InBuf(r) = InQueue(k) + InBuf(k)
<1> DEFINE s == k.rcv_buf  n == Len(s)  none == [k EXCEPT !.rcv_buf = <<>>]
<1>1. k \in Kcps /\ k.rcv_queue \in Seq(G) /\ s \in Seq(G) /\ k.rcv_nxt \in Nat /\ InQueue(k) \in Nat
  BY DEF HoldsOf, Kcps, InQueue
<1>2. n \in Nat /\ DOMAIN s = 1 .. n /\ \A i \in 1 .. n : s[i] \in G
  BY <1>1
<1>3. PICK moved : /\ MoveRcvBufToQueue(k) = moved[n] /\ moved[0] = none
                   /\ \A i \in 1 .. n : moved[i] = MoveUp(moved[i - 1], s[i])
  BY MoveRuns
<1>4. /\ none \in Kcps /\ SameSender(none, k) /\ none.acklist = k.acklist
      /\ none.rcv_queue = k.rcv_queue /\ none.rcv_nxt = k.rcv_nxt /\ none.rcv_buf = <<>>
  <2>1. <<>> \in Seq(Arrivals)
    OBVIOUS
  <2> QED BY <1>1, <2>1, PutBuf
<1> HIDE DEF none
<1>5. Base(none) = Base(k) /\ HoldsOf(none, G)
  <2>1. Base(none) = Base(k)
    BY <1>4 DEF Base, InQueue
  <2>2. <<>> \in Seq(G)
    OBVIOUS
  <2> QED BY <1>1, <1>4, <2>1, <2>2 DEF HoldsOf, InQueue
<1>9. moved[0] = none /\ \A i \in 1 .. n : moved[i] = MoveUp(moved[i - 1], s[i])
  BY <1>3
<1> DEFINE Ok(i, x) ==
             /\ HoldsOf(x, G) /\ SameSender(x, k) /\ x.acklist = k.acklist
             /\ Base(x) = Base(k) /\ k.rcv_nxt <= x.rcv_nxt
             /\ InQueue(x) + InBuf(x) = InQueue(k) + i
             /\ \A j \in 1 .. i : HasCome(x, s[j].sn)
           Good == {i \in 0 .. n : Ok(i, moved[i])}
<1>10. 0 \in Good
  <2>1. InQueue(none) = InQueue(k) /\ InBuf(none) = 0
    BY <1>4 DEF InQueue, InBuf
  <2>2. Ok(0, none)
    BY <1>1, <1>4, <1>5, <2>1
  <2> HIDE DEF Ok
  <2> QED BY <1>2, <1>9, <2>2
<1>11. ASSUME NEW i \in 1 .. n, i - 1 \in Good PROVE i \in Good
  <2> DEFINE x == moved[i - 1]  y == moved[i]
  <2>1. Ok(i - 1, x)
    <3> HIDE DEF Ok
    <3> QED BY <1>11
  <2>2. Ok(i - 1, x) /\ y = MoveUp(x, s[i]) /\ i \in Nat /\ s[i] \in G
    <3> HIDE DEF Ok
    <3> QED BY <1>2, <1>9, <2>1
  <2> HIDE DEF x, y
  <2>3. /\ HoldsOf(y, G) /\ SameSender(y, x) /\ y.acklist = x.acklist
        /\ ReceiverFollows(y, x) /\ HasCome(y, s[i].sn)
        /\ InQueue(y) + InBuf(y) = InQueue(x) + InBuf(x) + 1
    BY <2>2, MoveUpIs
  <2>4. SameSender(y, k) /\ y.acklist = k.acklist
    BY <2>2, <2>3 DEF SameSender
  <2>5. Base(y) = Base(k) /\ k.rcv_nxt <= y.rcv_nxt
    <3>1. x.rcv_nxt \in Nat /\ y.rcv_nxt \in Nat
      BY <2>2, <2>3 DEF HoldsOf, Kcps
    <3>2. Base(y) = Base(x) /\ x.rcv_nxt <= y.rcv_nxt
      BY <2>3 DEF ReceiverFollows
    <3> QED BY <1>1, <2>2, <3>1, <3>2
  <2>6. InQueue(y) + InBuf(y) = InQueue(k) + i
    <3>1. /\ InQueue(y) \in Nat /\ InBuf(y) \in Nat
          /\ InQueue(x) \in Nat /\ InBuf(x) \in Nat
      BY <2>2, <2>3 DEF HoldsOf, InQueue, InBuf
    <3>2. /\ InQueue(y) + InBuf(y) = InQueue(x) + InBuf(x) + 1
          /\ InQueue(x) + InBuf(x) = InQueue(k) + (i - 1)
      BY <2>2, <2>3
    <3> QED BY <1>1, <2>2, <3>1, <3>2
  <2>7. ASSUME NEW j \in 1 .. i PROVE HasCome(y, s[j].sn)
    <3>1. CASE j = i
      BY <2>3, <3>1
    <3>2. CASE j # i
      <4>1. j \in 1 .. i - 1 /\ j \in 1 .. n
        BY <1>2, <3>2
      <4>2. s[j] \in Arrivals
        BY <1>2, <4>1
      <4>3. s[j].sn \in Nat /\ HasCome(x, s[j].sn)
        BY <2>2, <4>1, <4>2 DEF Arrivals
      <4> QED BY <2>3, <4>3 DEF ReceiverFollows
    <3> QED BY <3>1, <3>2
  <2>8. Ok(i, y)
    BY <2>3, <2>4, <2>5, <2>6, <2>7
  <2> HIDE DEF Ok
  <2> QED BY <1>2, <2>8 DEF y
<1>12. n \in Good
  <2> HIDE DEF Good, n
  <2>1. \A i \in 0 .. n : i \in Good
    BY <1>2, <1>10, <1>11, UpTo
  <2> QED BY <1>2, <2>1
<1> DEFINE r == moved[n]
<1>13. Ok(n, r)
  <2> HIDE DEF Ok
  <2> QED BY <1>12
<1> HIDE DEF r
<1>14. ASSUME NEW m \in Nat, HasCome(k, m) PROVE HasCome(r, m)
  <2>1. CASE m < k.rcv_nxt
    <3>1. r.rcv_nxt \in Nat
      BY <1>13 DEF HoldsOf, Kcps
    <3>2. m < r.rcv_nxt
      BY <1>1, <1>13, <2>1, <3>1
    <3> QED BY <3>2 DEF HasCome
  <2>2. CASE \E j \in DOMAIN s : s[j].sn = m
    BY <1>2, <1>13, <2>2
  <2> QED BY <1>14, <2>1, <2>2 DEF HasCome
<1>15. ReceiverFollows(r, k)
  BY <1>13, <1>14 DEF ReceiverFollows
<1>16. InQueue(r) + InBuf(r) = InQueue(k) + InBuf(k)
  <2>1. n = InBuf(k)
    BY DEF InBuf
  <2> QED BY <1>13, <2>1
<1> QED BY <1>3, <1>13, <1>15, <1>16 DEF r

\* A receiver whose rcv_buf has gained.
LEMMA BufFollows ==
  ASSUME NEW k, NEW G, G \subseteq Arrivals, HoldsOf(k, G), NEW b \in Seq(G),
         \A i \in DOMAIN k.rcv_buf : \E j \in DOMAIN b : b[j].sn = k.rcv_buf[i].sn
  PROVE  LET r == [k EXCEPT !.rcv_buf = b] IN
         HoldsOf(r, G) /\ SameSender(r, k) /\ r.acklist = k.acklist /\ ReceiverFollows(r, k) /\ r.rcv_buf = b
<1> DEFINE r == [k EXCEPT !.rcv_buf = b]
<1>1. k \in Kcps /\ k.rcv_queue \in Seq(G) /\ k.rcv_nxt \in Nat
  BY DEF HoldsOf, Kcps
<1>2. b \in Seq(Arrivals)
  BY SeqMonotonic
<1>3. /\ r \in Kcps /\ SameSender(r, k) /\ r.acklist = k.acklist
      /\ r.rcv_queue = k.rcv_queue /\ r.rcv_buf = b /\ r.rcv_nxt = k.rcv_nxt
  BY <1>1, <1>2, PutBuf
<1> HIDE DEF r
<1>4. Base(r) = Base(k) /\ InQueue(r) = InQueue(k)
  BY <1>3 DEF Base, InQueue
<1>5. HoldsOf(r, G)
  BY <1>1, <1>3, <1>4 DEF HoldsOf
<1>6. \A n \in Nat : HasCome(k, n) => HasCome(r, n)
  BY <1>3 DEF HasCome
<1>7. ReceiverFollows(r, k)
  BY <1>1, <1>3, <1>4, <1>6 DEF ReceiverFollows
<1> QED BY <1>3, <1>5, <1>7 DEF r

\* ikcp_parse_data(): a new segment of the window joins rcv_buf.
LEMMA ParseDataIs ==
  ASSUME NEW k, NEW G, G \subseteq Arrivals, HoldsOf(k, G), NEW seg \in G
  PROVE  LET r == ParseData(k, seg) IN
         /\ HoldsOf(r, G) /\ SameSender(r, k) /\ r.acklist = k.acklist /\ ReceiverFollows(r, k)
         /\ seg.sn < k.rcv_nxt + RcvWnd => HasCome(r, seg.sn)
<1>1. k \in Kcps /\ k.rcv_buf \in Seq(G) /\ k.rcv_nxt \in Nat /\ seg.sn \in Nat /\ RcvWnd \in Nat
  BY ArqAssumption DEF HoldsOf, Kcps, Arrivals
<1>2. CASE seg.sn \notin k.rcv_nxt .. k.rcv_nxt + RcvWnd - 1
  <2>1. ParseData(k, seg) = k
    BY <1>2 DEF ParseData
  <2>2. SameSender(k, k) /\ ReceiverFollows(k, k)
    BY <1>1 DEF SameSender, ReceiverFollows
  <2>3. seg.sn < k.rcv_nxt + RcvWnd => HasCome(k, seg.sn)
    BY <1>1, <1>2 DEF HasCome
  <2> QED BY <2>1, <2>2, <2>3
<1>3. CASE seg.sn \in k.rcv_nxt .. k.rcv_nxt + RcvWnd - 1
  <2> DEFINE b == k.rcv_buf
             low == Kept(b, {s \in Range(b) : s.sn < seg.sn})
             high == Kept(b, {s \in Range(b) : s.sn > seg.sn})
             more == low \o <<seg>> \o high
             j == IF \E i \in DOMAIN b : b[i].sn = seg.sn THEN k ELSE [k EXCEPT !.rcv_buf = more]
  <2>1. ParseData(k, seg) = MoveRcvBufToQueue(j)
    BY <1>3 DEF ParseData
  <2>2. HoldsOf(j, G) /\ SameSender(j, k) /\ j.acklist = k.acklist /\ ReceiverFollows(j, k) /\ HasCome(j, seg.sn)
    <3>1. CASE \E i \in DOMAIN b : b[i].sn = seg.sn
      <4>1. j = k
        BY <3>1
      <4>2. SameSender(k, k) /\ ReceiverFollows(k, k) /\ HasCome(k, seg.sn)
        BY <1>1, <3>1 DEF SameSender, ReceiverFollows, HasCome
      <4> QED BY <4>1, <4>2
    <3>2. CASE ~\E i \in DOMAIN b : b[i].sn = seg.sn
      <4>1. j = [k EXCEPT !.rcv_buf = more]
        BY <3>2
      <4>2. \A i \in DOMAIN b : b[i] \in G /\ b[i].sn \in Nat
        <5>1. \A i \in DOMAIN b : b[i] \in G
          BY <1>1
        <5> QED BY <5>1 DEF Arrivals
      <4>3. /\ low \in Seq(G)
            /\ \A i \in DOMAIN b : b[i].sn < seg.sn => \E h \in DOMAIN low : low[h] = b[i]
        <5> DEFINE K == {s \in Range(b) : s.sn < seg.sn}
        <5>1. \A i \in DOMAIN b : b[i].sn < seg.sn => b[i] \in K
          BY DEF Range
        <5> HIDE DEF K, b
        <5>2. /\ Kept(b, K) \in Seq(G)
              /\ \A i \in DOMAIN b : b[i] \in K => \E h \in DOMAIN Kept(b, K) : Kept(b, K)[h] = b[i]
          BY <1>1, KeptIs DEF b
        <5> QED BY <5>1, <5>2 DEF K
      <4>4. /\ high \in Seq(G)
            /\ \A i \in DOMAIN b : b[i].sn > seg.sn => \E h \in DOMAIN high : high[h] = b[i]
        <5> DEFINE K == {s \in Range(b) : s.sn > seg.sn}
        <5>1. \A i \in DOMAIN b : b[i].sn > seg.sn => b[i] \in K
          BY DEF Range
        <5> HIDE DEF K, b
        <5>2. /\ Kept(b, K) \in Seq(G)
              /\ \A i \in DOMAIN b : b[i] \in K => \E h \in DOMAIN Kept(b, K) : Kept(b, K)[h] = b[i]
          BY <1>1, KeptIs DEF b
        <5> QED BY <5>1, <5>2 DEF K
      <4> HIDE DEF low, high, j, b
      <4>5. more \in Seq(G) /\ Len(more) = Len(low) + 1 + Len(high) /\ Len(low) \in Nat /\ Len(high) \in Nat
            /\ DOMAIN more = 1 .. Len(low) + 1 + Len(high)
            /\ DOMAIN low = 1 .. Len(low) /\ DOMAIN high = 1 .. Len(high)
        BY <4>3, <4>4
      <4>6. /\ \A h \in 1 .. Len(low) : more[h] = low[h]
            /\ more[Len(low) + 1] = seg
            /\ \A h \in 1 .. Len(high) : more[Len(low) + 1 + h] = high[h]
        BY <4>3, <4>4, <4>5
      <4> HIDE DEF more
      <4>7. ASSUME NEW i \in DOMAIN b PROVE \E h \in DOMAIN more : more[h].sn = b[i].sn
        <5>1. b[i].sn < seg.sn \/ b[i].sn > seg.sn
          BY <1>1, <3>2, <4>2
        <5>2. CASE b[i].sn < seg.sn
          <6>1. PICK h \in DOMAIN low : low[h] = b[i]
            BY <4>3, <5>2
          <6>2. h \in DOMAIN more /\ more[h] = b[i]
            BY <4>5, <4>6, <6>1
          <6> QED BY <6>2
        <5>3. CASE b[i].sn > seg.sn
          <6>1. PICK h \in DOMAIN high : high[h] = b[i]
            BY <4>4, <5>3
          <6>2. Len(low) + 1 + h \in DOMAIN more /\ more[Len(low) + 1 + h] = b[i]
            BY <4>5, <4>6, <6>1
          <6> QED BY <6>2
        <5> QED BY <5>1, <5>2, <5>3
      <4>8. HoldsOf(j, G) /\ SameSender(j, k) /\ j.acklist = k.acklist /\ ReceiverFollows(j, k) /\ j.rcv_buf = more
        BY <4>1, <4>5, <4>7, BufFollows DEF b
      <4>9. Len(low) + 1 \in DOMAIN more
        BY <4>5
      <4>10. HasCome(j, seg.sn)
        BY <4>6, <4>8, <4>9 DEF HasCome
      <4> QED BY <4>8, <4>10
    <3> QED BY <3>1, <3>2
  <2> HIDE DEF j
  <2> DEFINE r == MoveRcvBufToQueue(j)
  <2>3. HoldsOf(r, G) /\ SameSender(r, j) /\ r.acklist = j.acklist /\ ReceiverFollows(r, j)
    BY <2>2, MoveIs
  <2> HIDE DEF r
  <2>4. SameSender(r, k) /\ r.acklist = k.acklist
    BY <2>2, <2>3 DEF SameSender
  <2>5. HasCome(r, seg.sn)
    BY <1>1, <2>2, <2>3 DEF ReceiverFollows
  <2>6. ReceiverFollows(r, k)
    <3>1. r \in Kcps /\ j \in Kcps /\ k \in Kcps
      BY <2>2, <2>3 DEF HoldsOf
    <3> QED BY <2>2, <2>3, <3>1, ReceiverThen
  <2> QED BY <2>1, <2>3, <2>4, <2>5, <2>6 DEF r
<1> QED BY <1>2, <1>3

\* What is owed an acknowledgement has come.
Acked(k) == \A i \in DOMAIN k.acklist : HasCome(k, k.acklist[i])

\* What a receiver of G whose segments H have come may be sent.
Honest(G, H) ==
  {s \in Segments : /\ \A n \in Nat : n < s.una => n \in H
                    /\ s.cmd = "ACK" => s.sn \in H
                    /\ s.cmd = "PUSH" => [sn |-> s.sn, frg |-> s.frg, data |-> s.data] \in G}

\* What is owed an acknowledgement is still there.
LEMMA AckedFollows ==
  ASSUME NEW k \in Kcps, NEW r, Acked(k), r.acklist = k.acklist, ReceiverFollows(r, k)
  PROVE  Acked(r)
<1>1. ASSUME NEW i \in DOMAIN r.acklist PROVE HasCome(r, r.acklist[i])
  <2>1. k.acklist \in Seq(Nat) /\ i \in DOMAIN k.acklist
    BY <1>1 DEF Kcps
  <2>2. k.acklist[i] \in Nat
    BY <2>1
  <2>3. HasCome(k, k.acklist[i])
    BY <2>1 DEF Acked
  <2> QED BY <2>2, <2>3 DEF ReceiverFollows
<1> QED BY <1>1 DEF Acked

\* Neither part of the control block moves but in rmt_wnd and probe.
LEMMA AsideIs ==
  ASSUME NEW k \in Kcps, NEW w \in Int, NEW p \in SUBSET {"SEND", "TELL"}
  PROVE  LET r == [k EXCEPT !.rmt_wnd = w]  q == [k EXCEPT !.probe = p] IN
         /\ r \in Kcps /\ SameSender(r, k) /\ SameReceiver(r, k)
         /\ q \in Kcps /\ SameSender(q, k) /\ SameReceiver(q, k)
<1> DEFINE r == [k EXCEPT !.rmt_wnd = w]  q == [k EXCEPT !.probe = p]
<1>1. r \in Kcps /\ q \in Kcps
  BY DEF Kcps
<1>2. SameSender(r, k) /\ SameReceiver(r, k) /\ SameSender(q, k) /\ SameReceiver(q, k)
  BY DEF Kcps, SameSender, SameReceiver
<1> QED BY <1>1, <1>2

\* What every segment says of its sender: rmt_wnd, una.
LEMMA SegmentStarts ==
  ASSUME NEW k, NEW G, NEW H, HoldsOf(k, G), NEW seg \in Honest(G, H)
  PROVE  LET r == ShrinkBuf(ParseUna([k EXCEPT !.rmt_wnd = seg.wnd], seg.una)) IN
         HoldsOf(r, G) /\ SameReceiver(r, k) /\ SenderFollows(r, k, H)
<1> DEFINE j == [k EXCEPT !.rmt_wnd = seg.wnd]  u == ParseUna(j, seg.una)  r == ShrinkBuf(u)
<1>1. k \in Kcps /\ seg.wnd \in Int /\ seg.una \in Nat /\ \A n \in Nat : n < seg.una => n \in H
  BY DEF HoldsOf, Honest, Segments
<1>2. j \in Kcps /\ SameReceiver(j, k) /\ SameSender(j, k)
  <2>1. {} \in SUBSET {"SEND", "TELL"}
    OBVIOUS
  <2> QED BY <1>1, <2>1, AsideIs
<1>3. SenderFollows(j, k, H)
  <2> HIDE DEF j
  <2> QED BY <1>1, <1>2, SameSenderFollows
<1> HIDE DEF j
<1>4. u \in Kcps /\ SenderFollows(u, j, H) /\ SameReceiver(u, j)
  BY <1>1, <1>2, ParseUnaIs
<1> HIDE DEF u
<1>5. r \in Kcps /\ SenderFollows(r, u, H) /\ SameReceiver(r, u)
  BY <1>4, ShrinkBufIs
<1> HIDE DEF r
<1>6. SenderFollows(u, k, H)
  BY <1>3, <1>4, SenderThen
<1>7. SenderFollows(r, k, H)
  BY <1>5, <1>6, SenderThen
<1>8. SameReceiver(r, k)
  BY <1>2, <1>4, <1>5 DEF SameReceiver
<1>9. HoldsOf(r, G)
  BY <1>1, <1>5, <1>8, SameReceiverFollows
<1> QED BY <1>7, <1>8, <1>9 DEF r, u, j

\* One segment of a datagram.
LEMMA InputSegmentIs ==
  ASSUME NEW k0, NEW G, NEW H, G \subseteq Arrivals, HoldsOf(k0, G), Acked(k0), NEW seg \in Honest(G, H)
  PROVE  LET r == InputSegment(k0, seg) IN
         HoldsOf(r, G) /\ Acked(r) /\ SenderFollows(r, k0, H) /\ ReceiverFollows(r, k0)
<1> DEFINE k == ShrinkBuf(ParseUna([k0 EXCEPT !.rmt_wnd = seg.wnd], seg.una))
           r == InputSegment(k0, seg)
<1>1. HoldsOf(k, G) /\ SameReceiver(k, k0) /\ SenderFollows(k, k0, H)
  BY SegmentStarts
<1>2. /\ r = CASE seg.cmd = "ACK" -> ShrinkBuf(ParseAck(k, seg.sn))
              [] seg.cmd = "PUSH" ->
                    IF seg.sn >= k.rcv_nxt + RcvWnd THEN k
                    ELSE ParseData([k EXCEPT !.acklist = Append(@, seg.sn)],
                                   [sn |-> seg.sn, frg |-> seg.frg, data |-> seg.data])
              [] seg.cmd = "WASK" -> [k EXCEPT !.probe = @ \cup {"TELL"}]
              [] seg.cmd = "WINS" -> k
  BY DEF InputSegment
<1> HIDE DEF k, r
<1>3. k0 \in Kcps /\ k \in Kcps /\ seg.sn \in Nat /\ seg.cmd \in {"ACK", "PUSH", "WASK", "WINS"}
  BY <1>1 DEF HoldsOf, Honest, Segments
<1>4. k.rcv_nxt \in Nat /\ RcvWnd \in Nat
  BY <1>3, ArqAssumption DEF Kcps
<1>5. ReceiverFollows(k, k0)
  BY <1>1, <1>3, SameReceiverFollows
<1>6. Acked(k)
  <2>1. k.acklist = k0.acklist
    BY <1>1 DEF SameReceiver
  <2> QED BY <1>3, <1>5, <2>1, AckedFollows
<1>7. CASE seg.cmd = "ACK"
  <2> DEFINE a == ParseAck(k, seg.sn)
  <2>1. r = ShrinkBuf(a)
    BY <1>2, <1>7
  <2>2. seg.sn \in H
    BY <1>7 DEF Honest
  <2>3. a \in Kcps /\ SenderFollows(a, k, H) /\ SameReceiver(a, k)
    BY <1>3, <2>2, ParseAckIs
  <2> HIDE DEF a
  <2>4. r \in Kcps /\ SenderFollows(r, a, H) /\ SameReceiver(r, a)
    BY <2>1, <2>3, ShrinkBufIs
  <2>5. SenderFollows(r, k, H)
    BY <2>3, <2>4, SenderThen
  <2>6. SenderFollows(r, k0, H)
    BY <1>1, <2>5, SenderThen
  <2>7. SameReceiver(r, k0)
    BY <1>1, <2>3, <2>4 DEF SameReceiver
  <2>8. HoldsOf(r, G) /\ ReceiverFollows(r, k0)
    BY <1>3, <2>4, <2>7, SameReceiverFollows
  <2>9. r.acklist = k0.acklist
    BY <2>7 DEF SameReceiver
  <2>10. Acked(r)
    BY <1>3, <2>8, <2>9, AckedFollows
  <2> QED BY <2>6, <2>8, <2>10 DEF r
<1>8. CASE seg.cmd = "PUSH" /\ seg.sn < k.rcv_nxt + RcvWnd
  <2> DEFINE s == [sn |-> seg.sn, frg |-> seg.frg, data |-> seg.data]
             list == Append(k.acklist, seg.sn)
             a == [k EXCEPT !.acklist = list]
  <2>1. r = ParseData(a, s)
    <3>1. ~(seg.sn >= k.rcv_nxt + RcvWnd)
      BY <1>3, <1>8, <1>4
    <3> QED BY <1>2, <1>8, <3>1
  <2>2. s \in G /\ s.sn = seg.sn
    BY <1>8 DEF Honest
  <2> HIDE DEF s
  <2>3. /\ k.acklist \in Seq(Nat) /\ list \in Seq(Nat) /\ DOMAIN list = 1 .. Len(k.acklist) + 1
        /\ \A i \in 1 .. Len(k.acklist) : list[i] = k.acklist[i]
        /\ list[Len(k.acklist) + 1] = seg.sn
    <3>1. k.acklist \in Seq(Nat)
      BY <1>3 DEF Kcps
    <3> QED BY <1>3, <3>1
  <2> HIDE DEF list
  <2>4. /\ a \in Kcps /\ SameSender(a, k) /\ a.acklist = list /\ a.rcv_queue = k.rcv_queue
        /\ a.rcv_buf = k.rcv_buf /\ a.rcv_nxt = k.rcv_nxt
    <3>1. a \in Kcps
      BY <1>3, <2>3 DEF Kcps
    <3>2. SameSender(a, k) /\ a.acklist = list /\ a.rcv_queue = k.rcv_queue
        /\ a.rcv_buf = k.rcv_buf /\ a.rcv_nxt = k.rcv_nxt
      BY <1>3 DEF Kcps, SameSender
    <3> QED BY <3>1, <3>2
  <2> HIDE DEF a
  <2>5. HoldsOf(a, G) /\ ReceiverFollows(a, k)
    <3>1. Base(a) = Base(k) /\ InQueue(a) = InQueue(k) /\ \A n \in Nat : HasCome(k, n) <=> HasCome(a, n)
      BY <2>4 DEF Base, InQueue, HasCome
    <3>2. HoldsOf(a, G)
      BY <1>1, <2>4, <3>1 DEF HoldsOf
    <3>3. k.rcv_nxt \in Nat
      BY <1>3 DEF Kcps
    <3> QED BY <2>4, <3>1, <3>2, <3>3 DEF ReceiverFollows
  <2>6. /\ HoldsOf(r, G) /\ SameSender(r, a) /\ r.acklist = a.acklist /\ ReceiverFollows(r, a)
        /\ HasCome(r, seg.sn)
    <3>1. s.sn < a.rcv_nxt + RcvWnd
      BY <1>8, <2>2, <2>4
    <3> QED BY <2>1, <2>2, <2>5, <3>1, ParseDataIs
  <2>7. r \in Kcps
    BY <2>6 DEF HoldsOf
  <2>8. ReceiverFollows(r, k) /\ ReceiverFollows(r, k0)
    <3>1. ReceiverFollows(r, k)
      BY <1>3, <2>4, <2>5, <2>6, <2>7, ReceiverThen
    <3> QED BY <1>3, <1>5, <2>7, <3>1, ReceiverThen
  <2>9. SenderFollows(r, k0, H)
    <3>1. SameSender(r, k)
      BY <2>4, <2>6 DEF SameSender
    <3>2. SenderFollows(r, k, H)
      BY <1>3, <2>7, <3>1, SameSenderFollows
    <3> QED BY <1>1, <3>2, SenderThen
  <2>10. ASSUME NEW i \in DOMAIN r.acklist PROVE HasCome(r, r.acklist[i])
    <3>1. r.acklist = list /\ i \in 1 .. Len(k.acklist) + 1 /\ Len(k.acklist) \in Nat
          /\ DOMAIN k.acklist = 1 .. Len(k.acklist)
      BY <2>3, <2>4, <2>6, <2>10
    <3>2. CASE i = Len(k.acklist) + 1
      BY <2>3, <2>6, <3>1, <3>2
    <3>3. CASE i # Len(k.acklist) + 1
      <4>1. i \in DOMAIN k.acklist /\ list[i] = k.acklist[i]
        <5> DEFINE l == Len(k.acklist)
        <5>1. l \in Nat /\ i \in 1 .. l + 1 /\ i # l + 1 /\ DOMAIN k.acklist = 1 .. l
          BY <3>1, <3>3
        <5>2. \A e \in 1 .. l : list[e] = k.acklist[e]
          BY <2>3
        <5> HIDE DEF l
        <5>3. i \in 1 .. l
          BY <5>1
        <5> QED BY <5>1, <5>2, <5>3
      <4>2. k.acklist[i] \in Nat /\ HasCome(k, k.acklist[i])
        BY <1>6, <2>3, <4>1 DEF Acked
      <4> QED BY <2>8, <3>1, <4>1, <4>2 DEF ReceiverFollows
    <3> QED BY <3>2, <3>3
  <2> QED BY <2>6, <2>8, <2>9, <2>10 DEF Acked, r
<1>9. CASE r = k
  BY <1>1, <1>5, <1>6, <1>9 DEF r
<1>10. CASE seg.cmd = "WASK"
  <2> DEFINE p == k.probe \cup {"TELL"}
  <2>1. r = [k EXCEPT !.probe = p]
    BY <1>2, <1>10
  <2>2. p \in SUBSET {"SEND", "TELL"}
    BY <1>3 DEF Kcps
  <2> HIDE DEF p
  <2>3. r \in Kcps /\ SameSender(r, k) /\ SameReceiver(r, k)
    <3>1. 0 \in Int
      OBVIOUS
    <3> QED BY <1>3, <2>1, <2>2, <3>1, AsideIs
  <2>4. SenderFollows(r, k, H)
    BY <1>3, <2>3, SameSenderFollows
  <2>5. SenderFollows(r, k0, H)
    BY <1>1, <2>4, SenderThen
  <2>6. SameReceiver(r, k0)
    BY <1>1, <2>3 DEF SameReceiver
  <2>7. HoldsOf(r, G) /\ ReceiverFollows(r, k0)
    BY <1>3, <2>3, <2>6, SameReceiverFollows
  <2>8. r.acklist = k0.acklist
    BY <2>6 DEF SameReceiver
  <2>9. Acked(r)
    BY <1>3, <2>7, <2>8, AckedFollows
  <2> QED BY <2>5, <2>7, <2>9 DEF r
<1>11. CASE seg.cmd = "PUSH" /\ ~(seg.sn < k.rcv_nxt + RcvWnd)
  <2>1. seg.sn >= k.rcv_nxt + RcvWnd
    BY <1>3, <1>11, <1>4
  <2>2. r = k
    BY <1>2, <1>11, <2>1
  <2> QED BY <1>9, <2>2
<1>12. CASE seg.cmd = "WINS"
  <2>1. r = k
    BY <1>2, <1>12
  <2> QED BY <1>9, <2>1
<1> QED BY <1>3, <1>7, <1>8, <1>10, <1>11, <1>12

\* input() is a loop, and then ikcp_parse_fastack().
Acknowledges(segs) == {segs[i].sn : i \in {j \in DOMAIN segs : segs[j].cmd = "ACK"}}

LEMMA InputRuns ==
  ASSUME NEW k, NEW G, NEW H, G \subseteq Arrivals, HoldsOf(k, G), Acked(k), NEW segs \in Seq(Honest(G, H))
  PROVE  \E f : /\ f[0] = k /\ \A i \in 1 .. Len(segs) : f[i] = InputSegment(f[i - 1], segs[i])
                /\ Input(k, segs) = IF Acknowledges(segs) = {} THEN f[Len(segs)]
                                    ELSE ParseFastack(f[Len(segs)], Max(Acknowledges(segs)))
<1> DEFINE n == Len(segs)
           body(f) == [i \in 0 .. n |-> IF i = 0 THEN k ELSE InputSegment(f[i - 1], segs[i])]
           input == CHOOSE f : f = body(f)
           acked == Acknowledges(segs)
           S == {x \in Kcps : HoldsOf(x, G) /\ Acked(x)}
           step == [i \in 1 .. n |-> [x \in S |-> InputSegment(x, segs[i])]]
<1>1. n \in Nat /\ \A i \in 1 .. n : segs[i] \in Honest(G, H)
  OBVIOUS
<1>2. Input(k, segs) = IF acked = {} THEN input[n] ELSE ParseFastack(input[n], Max(acked))
  BY DEF Input, Acknowledges
<1> HIDE DEF acked
<1>3. k \in Kcps /\ k.rcv_nxt \in Nat
  BY DEF HoldsOf, Kcps
<1>4. ASSUME NEW i \in 1 .. n, NEW x \in S
      PROVE  step[i][x] = InputSegment(x, segs[i]) /\ InputSegment(x, segs[i]) \in S
  <2>1. HoldsOf(x, G) /\ Acked(x) /\ segs[i] \in Honest(G, H)
    BY <1>1
  <2>2. HoldsOf(InputSegment(x, segs[i]), G) /\ Acked(InputSegment(x, segs[i]))
    BY <2>1, InputSegmentIs
  <2>3. InputSegment(x, segs[i]) \in Kcps
    BY <2>2 DEF HoldsOf
  <2> QED BY <2>2, <2>3
<1>5. \E f : f = body(f)
  <2>1. k \in S
    BY <1>3
  <2>2. PICK f : IsRun(f, n, S, k, step)
    <3> HIDE DEF step, n, S
    <3>1. \A i \in 1 .. n : \A x \in S : step[i][x] \in S
      BY <1>4
    <3> QED BY <1>1, <2>1, <3>1, Iterates
  <2>3. f \in [0 .. n -> S] /\ f[0] = k
    <3> HIDE DEF S, step
    <3> QED BY <2>2 DEF IsRun
  <2>4. ASSUME NEW i \in 0 .. n PROVE f[i] = body(f)[i]
    <3>1. CASE i = 0
      BY <2>3, <3>1
    <3>2. CASE i # 0
      <4> HIDE DEF S, step
      <4>1. i \in 1 .. n /\ i - 1 \in 0 .. n /\ f[i - 1] \in S
        BY <1>1, <2>3, <3>2
      <4>2. f[i] = step[i][f[i - 1]]
        BY <2>2, <4>1 DEF IsRun
      <4>3. f[i] = InputSegment(f[i - 1], segs[i])
        BY <1>4, <4>1, <4>2
      <4> QED BY <3>2, <4>1, <4>3
    <3> QED BY <3>1, <3>2
  <2>5. f = body(f)
    <3> HIDE DEF S
    <3> QED BY <2>3, <2>4
  <2> HIDE DEF body
  <2> QED BY <2>5
<1>6. input = body(input)
  <2> HIDE DEF body
  <2> QED BY <1>5
<1> HIDE DEF input
<1>7. input[0] = k /\ \A i \in 1 .. n : input[i] = InputSegment(input[i - 1], segs[i])
  <2>1. input[0] = body(input)[0] /\ 0 \in 0 .. n
    BY <1>1, <1>6
  <2>2. ASSUME NEW i \in 1 .. n PROVE input[i] = InputSegment(input[i - 1], segs[i])
    <3>1. i \in 0 .. n /\ i # 0
      BY <1>1
    <3>2. input[i] = body(input)[i]
      BY <1>6
    <3> QED BY <3>1, <3>2
  <2> QED BY <2>1, <2>2
<1> HIDE DEF step, body, S
<1> QED BY <1>2, <1>7 DEF acked

\* ikcp_input(): a datagram is its segments one after another.
LEMMA InputIs ==
  ASSUME NEW k, NEW G, NEW H, G \subseteq Arrivals, HoldsOf(k, G), Acked(k), NEW segs \in Seq(Honest(G, H))
  PROVE  LET r == Input(k, segs) IN
         HoldsOf(r, G) /\ Acked(r) /\ SenderFollows(r, k, H) /\ ReceiverFollows(r, k)
<1> DEFINE n == Len(segs)  acked == Acknowledges(segs)
<1>1. n \in Nat /\ \A i \in 1 .. n : segs[i] \in Honest(G, H)
  OBVIOUS
<1> HIDE DEF acked
<1>2. PICK input : /\ input[0] = k /\ \A i \in 1 .. n : input[i] = InputSegment(input[i - 1], segs[i])
                   /\ Input(k, segs) = IF acked = {} THEN input[n] ELSE ParseFastack(input[n], Max(acked))
  BY InputRuns DEF acked
<1>3. k \in Kcps /\ k.rcv_nxt \in Nat
  BY DEF HoldsOf, Kcps
<1>7. input[0] = k /\ \A i \in 1 .. n : input[i] = InputSegment(input[i - 1], segs[i])
  BY <1>2
<1> DEFINE Ok(x) == HoldsOf(x, G) /\ Acked(x) /\ SenderFollows(x, k, H) /\ ReceiverFollows(x, k)
           Good == {i \in 0 .. n : Ok(input[i])}
<1>8. 0 \in Good
  <2>1. SameSender(k, k) /\ ReceiverFollows(k, k)
    BY <1>3 DEF SameSender, ReceiverFollows
  <2>2. Ok(k)
    BY <1>3, <2>1, SameSenderFollows
  <2> QED BY <1>1, <1>7, <2>2
<1>9. ASSUME NEW i \in 1 .. n, i - 1 \in Good PROVE i \in Good
  <2> DEFINE x == input[i - 1]  y == input[i]
  <2>1. Ok(x) /\ y = InputSegment(x, segs[i]) /\ segs[i] \in Honest(G, H)
    <3> HIDE DEF Ok
    <3> QED BY <1>1, <1>7, <1>9
  <2> HIDE DEF x, y
  <2>2. HoldsOf(y, G) /\ Acked(y) /\ SenderFollows(y, x, H) /\ ReceiverFollows(y, x)
    BY <2>1, InputSegmentIs
  <2>3. x \in Kcps /\ y \in Kcps
    BY <2>1, <2>2 DEF HoldsOf
  <2>4. SenderFollows(y, k, H)
    BY <2>1, <2>2, SenderThen
  <2>5. ReceiverFollows(y, k)
    BY <1>3, <2>1, <2>2, <2>3, ReceiverThen
  <2>6. Ok(y)
    BY <2>2, <2>4, <2>5
  <2> HIDE DEF Ok
  <2> QED BY <1>1, <2>6 DEF y
<1>10. n \in Good
  <2> HIDE DEF Good, n
  <2>1. \A i \in 0 .. n : i \in Good
    BY <1>1, <1>8, <1>9, UpTo
  <2> QED BY <1>1, <2>1
<1> DEFINE after == input[n]  r == Input(k, segs)
<1>11. Ok(after)
  <2> HIDE DEF Ok
  <2> QED BY <1>10
<1> HIDE DEF after
<1>12. CASE acked = {}
  BY <1>2, <1>11, <1>12 DEF after
<1>13. CASE acked # {}
  <2>1. r = ParseFastack(after, Max(acked))
    BY <1>2, <1>13 DEF after
  <2> HIDE DEF r
  <2>2. after \in Kcps
    BY <1>11 DEF HoldsOf
  <2>3. r \in Kcps /\ SenderFollows(r, after, H) /\ SameReceiver(r, after)
    BY <2>1, <2>2, ParseFastackIs
  <2>4. SenderFollows(r, k, H)
    BY <1>11, <2>3, SenderThen
  <2>5. HoldsOf(r, G) /\ ReceiverFollows(r, after)
    BY <1>11, <2>2, <2>3, SameReceiverFollows
  <2>6. ReceiverFollows(r, k)
    BY <1>3, <1>11, <2>2, <2>3, <2>5, ReceiverThen
  <2>7. r.acklist = after.acklist
    BY <2>3 DEF SameReceiver
  <2>8. Acked(r)
    BY <1>11, <2>2, <2>5, <2>7, AckedFollows
  <2> QED BY <2>4, <2>5, <2>6, <2>8 DEF r
<1> QED BY <1>12, <1>13

\* Nothing that has come is lost.
Gains(r, k) == k.rcv_nxt <= r.rcv_nxt /\ \A n \in Nat : HasCome(k, n) => HasCome(r, n)

\* The queues of a receiver have lengths.
LEMMA CountsAre == ASSUME NEW k, NEW G, HoldsOf(k, G) PROVE InQueue(k) \in Nat /\ InBuf(k) \in Nat
BY DEF HoldsOf, InQueue, InBuf

\* recv() takes the front message.
LEMMA TakeFrontIs ==
  ASSUME NEW k, NEW G, G \subseteq Arrivals, HoldsOf(k, G), MessageReady(k)
  PROVE  LET n == k.rcv_queue[1].frg + 1
             h == [k EXCEPT !.rcv_queue = SubSeq(k.rcv_queue, n + 1, Len(k.rcv_queue))]
             j == MoveRcvBufToQueue(h) IN
         /\ n \in Nat /\ n >= 1 /\ n <= InQueue(k)
         /\ HoldsOf(h, G) /\ SameSender(h, k) /\ h.acklist = k.acklist /\ h.rcv_nxt = k.rcv_nxt
         /\ h.rcv_buf = k.rcv_buf /\ h.rmt_wnd = k.rmt_wnd
         /\ Base(h) = Base(k) + n /\ InQueue(h) = InQueue(k) - n /\ InBuf(h) = InBuf(k)
         /\ RecvMessage(k) = j \/ RecvMessage(k) = [j EXCEPT !.probe = j.probe \cup {"TELL"}]
<1> DEFINE q == k.rcv_queue  n == q[1].frg + 1  rest == SubSeq(q, n + 1, Len(q))
           h == [k EXCEPT !.rcv_queue = rest]  j == MoveRcvBufToQueue(h)  r == RecvMessage(k)
<1>1. /\ k \in Kcps /\ q \in Seq(G) /\ k.rcv_buf \in Seq(G) /\ k.rcv_nxt \in Nat
      /\ InQueue(k) \in Nat /\ InBuf(k) \in Nat /\ Len(q) = InQueue(k)
  <2>1. k \in Kcps /\ q \in Seq(G) /\ k.rcv_buf \in Seq(G)
    BY DEF HoldsOf
  <2> QED BY <2>1 DEF Kcps, InQueue, InBuf
<1>2. n \in Nat /\ n >= 1 /\ n <= Len(q)
  <2>1. q # <<>> /\ Len(q) > q[1].frg
    BY DEF MessageReady
  <2>2. q[1] \in Arrivals
    BY <1>1, <2>1
  <2>3. q[1].frg \in Nat
    BY <2>2 DEF Arrivals
  <2>4. Len(q) \in Nat
    BY <1>1
  <2> QED BY <2>1, <2>3, <2>4
<1>3. FrontMessage(k) = SubSeq(q, 1, n) /\ Len(FrontMessage(k)) = n
  <2> HIDE DEF n
  <2>1. Len(SubSeq(q, 1, n)) = n
    BY <1>1, <1>2
  <2> QED BY <2>1 DEF FrontMessage, n
<1>4. r = IF Len(k.rcv_queue) >= RcvWnd /\ Len(j.rcv_queue) < RcvWnd
          THEN [j EXCEPT !.probe = @ \cup {"TELL"}] ELSE j
  <2> HIDE DEF n
  <2> QED BY <1>3 DEF RecvMessage
<1> HIDE DEF n
<1>5. /\ rest \in Seq(G) /\ Len(rest) = Len(q) - n
      /\ \A m \in 1 .. Len(q) - n : rest[m] = q[m + n]
  <2> HIDE DEF q
  <2>1. Len(q) \in Nat /\ n + 1 \in Nat /\ n + 1 \in 1 .. Len(q) + 1
    BY <1>1, <1>2
  <2>2. \A m \in n + 1 .. Len(q) : q[m] \in G
    BY <1>1, <1>2
  <2>3. Len(rest) = Len(q) - n
    BY <1>1, <2>1, <1>2
  <2>4. rest = [m \in 1 .. Len(q) - n |-> q[m + n]]
    BY <1>1, <2>1, <1>2
  <2>5. ASSUME NEW m \in 1 .. Len(q) - n PROVE rest[m] = q[m + n] /\ rest[m] \in G
    <3>1. m + n \in n + 1 .. Len(q)
      BY <1>2, <2>1
    <3> QED BY <2>2, <2>4, <3>1
  <2>6. Len(q) - n \in Nat
    BY <1>2, <2>1
  <2> DEFINE d == Len(q) - n
  <2>7. rest \in [1 .. d -> G]
    <3> HIDE DEF d
    <3>1. \A m \in 1 .. d : q[m + n] \in G
      BY <2>4, <2>5 DEF d
    <3> QED BY <2>4, <3>1 DEF d
  <2> HIDE DEF rest, d
  <2>8. rest \in Seq(G)
    BY <2>6, <2>7 DEF d
  <2> QED BY <2>3, <2>5, <2>8
<1> HIDE DEF rest
<1>6. HoldsOf(h, G) /\ SameSender(h, k) /\ h.acklist = k.acklist /\ h.rcv_nxt = k.rcv_nxt /\ h.rcv_buf = k.rcv_buf
      /\ h.rmt_wnd = k.rmt_wnd /\ Base(h) = Base(k) + n /\ InQueue(h) = InQueue(k) - n /\ InBuf(h) = InBuf(k)
  <2>1. rest \in Seq(Arrivals)
    BY <1>5, SeqMonotonic
  <2>2. h \in Kcps
    BY <1>1, <2>1 DEF Kcps
  <2>3. SameSender(h, k) /\ h.acklist = k.acklist /\ h.rcv_nxt = k.rcv_nxt /\ h.rcv_buf = k.rcv_buf
        /\ h.rcv_queue = rest /\ h.rmt_wnd = k.rmt_wnd
    BY <1>1 DEF Kcps, SameSender
  <2> HIDE DEF h
  <2>4. InQueue(h) = InQueue(k) - n /\ InBuf(h) = InBuf(k)
    BY <1>1, <1>5, <2>3 DEF InQueue, InBuf
  <2>5. Base(h) = Base(k) + n
    BY <1>1, <1>2, <2>3, <2>4 DEF Base
  <2>6. ASSUME NEW m \in 1 .. InQueue(h) PROVE h.rcv_queue[m].sn = Base(h) + m - 1
    <3>1. m + n \in 1 .. InQueue(k) /\ m \in 1 .. Len(q) - n
      BY <1>1, <1>2, <2>4
    <3>2. h.rcv_queue[m] = q[m + n]
      BY <1>5, <2>3, <3>1
    <3>3. q[m + n].sn = Base(k) + (m + n) - 1
      BY <3>1 DEF HoldsOf
    <3>4. Base(k) \in Int
      BY <1>1 DEF Base
    <3>5. Base(k) + (m + n) - 1 = Base(h) + m - 1
      BY <1>2, <2>5, <3>4
    <3> QED BY <3>2, <3>3, <3>5
  <2>7. HoldsOf(h, G)
    BY <1>1, <1>5, <2>2, <2>3, <2>6 DEF HoldsOf
  <2> QED BY <2>3, <2>4, <2>5, <2>7
<1> HIDE DEF h
<1>7. RecvMessage(k) = j \/ RecvMessage(k) = [j EXCEPT !.probe = j.probe \cup {"TELL"}]
  <2> HIDE DEF j
  <2> QED BY <1>4
<1>8. n <= InQueue(k)
  BY <1>1, <1>2
<1> HIDE DEF j, r
<1> QED BY <1>2, <1>6, <1>7, <1>8 DEF j, h, rest, q, n

\* recv() takes the front message, and what follows keeps its numbers.
LEMMA RecvIs ==
  ASSUME NEW k, NEW G, G \subseteq Arrivals, HoldsOf(k, G), MessageReady(k)
  PROVE  LET r == RecvMessage(k)  n == k.rcv_queue[1].frg + 1 IN
         /\ HoldsOf(r, G) /\ SameSender(r, k) /\ r.acklist = k.acklist /\ Gains(r, k)
         /\ n \in Nat /\ n >= 1 /\ n <= InQueue(k)
         /\ Base(r) = Base(k) + n
         /\ InQueue(r) + InBuf(r) = InQueue(k) + InBuf(k) - n
<1> DEFINE n == k.rcv_queue[1].frg + 1
           h == [k EXCEPT !.rcv_queue = SubSeq(k.rcv_queue, n + 1, Len(k.rcv_queue))]
           j == MoveRcvBufToQueue(h)  r == RecvMessage(k)
<1>1. k \in Kcps /\ InQueue(k) \in Nat /\ InBuf(k) \in Nat
  BY CountsAre DEF HoldsOf
<1>2. n \in Nat /\ n >= 1 /\ n <= InQueue(k)
  BY TakeFrontIs
<1>4. r = j \/ r = [j EXCEPT !.probe = j.probe \cup {"TELL"}]
  BY TakeFrontIs
<1>6. HoldsOf(h, G) /\ SameSender(h, k) /\ h.acklist = k.acklist /\ h.rcv_nxt = k.rcv_nxt /\ h.rcv_buf = k.rcv_buf
      /\ Base(h) = Base(k) + n /\ InQueue(h) = InQueue(k) - n /\ InBuf(h) = InBuf(k)
  BY TakeFrontIs
<1> HIDE DEF n, h
<1>7. /\ HoldsOf(j, G) /\ SameSender(j, h) /\ j.acklist = h.acklist /\ ReceiverFollows(j, h)
      /\ InQueue(j) + InBuf(j) = InQueue(h) + InBuf(h)
  BY <1>6, MoveIs
<1>8. Gains(j, k)
  <2>1. \A m \in Nat : HasCome(k, m) => HasCome(h, m)
    BY <1>6 DEF HasCome
  <2> QED BY <1>6, <1>7, <2>1 DEF Gains, ReceiverFollows
<1> HIDE DEF j
<1>9. SameSender(j, k) /\ j.acklist = k.acklist /\ Base(j) = Base(k) + n
  BY <1>6, <1>7 DEF SameSender, ReceiverFollows
<1>10. InQueue(j) + InBuf(j) = InQueue(k) + InBuf(k) - n
  BY <1>1, <1>2, <1>6, <1>7
<1>11. CASE r = j
  BY <1>2, <1>1, <1>7, <1>8, <1>9, <1>10, <1>11 DEF r, n
<1>12. CASE r # j
  <2> DEFINE p == j.probe \cup {"TELL"}
  <2>1. r = [j EXCEPT !.probe = p]
    BY <1>4, <1>12
  <2>2. j \in Kcps
    BY <1>7 DEF HoldsOf
  <2>3. p \in SUBSET {"SEND", "TELL"} /\ 0 \in Int
    BY <2>2 DEF Kcps
  <2> HIDE DEF r, p
  <2>4. r \in Kcps /\ SameSender(r, j) /\ SameReceiver(r, j)
    BY <2>1, <2>2, <2>3, AsideIs
  <2>5. HoldsOf(r, G) /\ ReceiverFollows(r, j)
    BY <1>7, <2>2, <2>4, SameReceiverFollows
  <2>6. SameSender(r, k) /\ r.acklist = k.acklist /\ InQueue(r) = InQueue(j) /\ InBuf(r) = InBuf(j)
        /\ Base(r) = Base(k) + n
    BY <1>9, <2>4, <2>5 DEF SameSender, SameReceiver, ReceiverFollows, InQueue, InBuf
  <2>7. Gains(r, k)
    <3>1. r.rcv_nxt = j.rcv_nxt
      BY <2>4 DEF SameReceiver
    <3> QED BY <1>8, <2>5, <3>1 DEF Gains, ReceiverFollows
  <2>8. InQueue(r) + InBuf(r) = InQueue(k) + InBuf(k) - n
    BY <1>10, <2>6
  <2> QED BY <1>1, <1>2, <2>5, <2>6, <2>7, <2>8 DEF r, n
<1> QED BY <1>11, <1>12

-----------------------------------------------------------------------------
(* The messages that the sender took, acc, and the numbers they occupy.    *)

Accounts == [id : Nat, frags : Nat, first : Nat]

\* Each begins where the one before it ends.
InARow(acc) ==
  /\ acc \in Seq(Accounts)
  /\ \A i \in 1 .. Len(acc) : /\ acc[i].frags >= 1 /\ acc[i].frags <= MaxFragments
                              /\ acc[i].first = EndOf(acc, i - 1)
  /\ \A i, j \in 1 .. Len(acc) : i < j => acc[i].first + acc[i].frags <= acc[j].first

\* f is the fragment with number sn.
FragmentOf(m, sn, f) ==
  /\ m.first <= sn /\ sn < m.first + m.frags
  /\ f.data = <<m.id, sn - m.first + 1>> /\ f.frg = m.first + m.frags - 1 - sn
IsFragment(acc, sn, f) == \E i \in 1 .. Len(acc) : FragmentOf(acc[i], sn, f)

\* The segments a receiver may be sent.
SegmentsOf(acc) == {s \in Arrivals : IsFragment(acc, s.sn, s)}

\* Each message taken adds its fragments.
LEMMA EndOfIs ==
  ASSUME NEW acc, InARow(acc), NEW n \in 0 .. Len(acc)
  PROVE  EndOf(acc, n) \in Nat
<1>1. CASE n = 0
  BY <1>1 DEF EndOf
<1>2. CASE n # 0
  <2>1. acc \in Seq(Accounts) /\ n \in 1 .. Len(acc)
    BY <1>2 DEF InARow
  <2>2. acc[n] \in Accounts
    BY <2>1
  <2> QED BY <1>2, <2>2 DEF EndOf, Accounts
<1> QED BY <1>1, <1>2

\* Where n messages end, if a segment has that number, the next one begins.
LEMMA NextIs ==
  ASSUME NEW acc, InARow(acc), NEW n \in 0 .. Len(acc), NEW i \in 1 .. Len(acc),
         acc[i].first <= EndOf(acc, n), EndOf(acc, n) < acc[i].first + acc[i].frags
  PROVE  i = n + 1
<1>1. acc \in Seq(Accounts) /\ Len(acc) \in Nat
  BY DEF InARow
<1>2. \A h \in 1 .. Len(acc) : acc[h].first \in Nat /\ acc[h].frags \in Nat
  <2>1. \A h \in 1 .. Len(acc) : acc[h] \in Accounts
    BY <1>1
  <2> QED BY <2>1 DEF Accounts
<1>3. EndOf(acc, n) \in Nat
  BY EndOfIs
<1>4. CASE i <= n
  <2>1. n \in 1 .. Len(acc) /\ n # 0
    BY <1>1, <1>4
  <2>2. EndOf(acc, n) = acc[n].first + acc[n].frags
    BY <2>1 DEF EndOf
  <2>3. CASE i = n
    BY <1>2, <2>1, <2>2, <2>3
  <2>4. CASE i # n
    <3>1. i < n
      BY <1>4, <2>1, <2>4
    <3>2. acc[i].first + acc[i].frags <= acc[n].first
      BY <2>1, <3>1 DEF InARow
    <3> QED BY <1>2, <2>1, <2>2, <3>2
  <2> QED BY <2>3, <2>4
<1>5. CASE i > n + 1
  <2>1. n + 1 \in 1 .. Len(acc) /\ n + 1 < i /\ n + 1 - 1 = n
    BY <1>1, <1>5
  <2>2. acc[n + 1].first = EndOf(acc, n) /\ acc[n + 1].frags >= 1
    BY <2>1 DEF InARow
  <2>3. acc[n + 1].first + acc[n + 1].frags <= acc[i].first
    BY <2>1 DEF InARow
  <2> QED BY <1>2, <1>3, <2>1, <2>2, <2>3
<1> QED BY <1>4, <1>5

\* A number is in one message.
LEMMA OneMessage ==
  ASSUME NEW acc, InARow(acc), NEW i \in 1 .. Len(acc), NEW j \in 1 .. Len(acc), NEW sn \in Int,
         acc[i].first <= sn, sn < acc[i].first + acc[i].frags,
         acc[j].first <= sn, sn < acc[j].first + acc[j].frags
  PROVE  i = j
<1>1. acc[i] \in Accounts /\ acc[j] \in Accounts
  BY DEF InARow
<1>2. /\ acc[i].first \in Nat /\ acc[i].frags \in Nat
      /\ acc[j].first \in Nat /\ acc[j].frags \in Nat
  BY <1>1 DEF Accounts
<1>3. CASE i < j
  <2>1. acc[i].first + acc[i].frags <= acc[j].first
    BY <1>3 DEF InARow
  <2> QED BY <1>2, <2>1
<1>4. CASE j < i
  <2>1. acc[j].first + acc[j].frags <= acc[i].first
    BY <1>4 DEF InARow
  <2> QED BY <1>2, <2>1
<1> QED BY <1>3, <1>4

\* The data of a message's fragments.
Datas(m) == [j \in DOMAIN m |-> m[j].data]

\* The front message is the next one that was taken, whole.
LEMMA FrontIs ==
  ASSUME NEW acc, InARow(acc), NEW k, HoldsOf(k, SegmentsOf(acc)), MessageReady(k),
         NEW n \in 0 .. Len(acc), Base(k) = EndOf(acc, n)
  PROVE  /\ n + 1 \in 1 .. Len(acc)
         /\ k.rcv_queue[1].frg + 1 = acc[n + 1].frags
         /\ Base(k) + (k.rcv_queue[1].frg + 1) = EndOf(acc, n + 1)
         /\ FrontMessage(k) \in Seq(Arrivals) /\ Datas(FrontMessage(k)) = Whole(acc[n + 1])
<1> DEFINE q == k.rcv_queue  m == acc[n + 1]
<1>1. acc \in Seq(Accounts) /\ Len(acc) \in Nat /\ n \in Nat
  BY DEF InARow
<1>2. q \in Seq(SegmentsOf(acc)) /\ q # <<>> /\ Len(q) > q[1].frg /\ Len(q) = InQueue(k) /\ Len(q) \in Nat
  BY DEF HoldsOf, MessageReady, InQueue
<1>3. \A j \in 1 .. Len(q) : q[j] \in Arrivals /\ IsFragment(acc, q[j].sn, q[j]) /\ q[j].sn = Base(k) + j - 1
  <2>1. \A j \in 1 .. Len(q) : q[j] \in SegmentsOf(acc)
    BY <1>2
  <2>2. \A j \in 1 .. Len(q) : q[j].sn = Base(k) + j - 1
    BY <1>2 DEF HoldsOf
  <2> QED BY <2>1, <2>2 DEF SegmentsOf
<1>4. EndOf(acc, n) \in Nat /\ Base(k) \in Nat /\ 1 \in 1 .. Len(q)
  BY <1>2, EndOfIs
<1>5. q[1].sn = EndOf(acc, n)
  BY <1>3, <1>4
<1>6. PICK i \in 1 .. Len(acc) : FragmentOf(acc[i], q[1].sn, q[1])
  BY <1>3, <1>4 DEF IsFragment
<1>7. i = n + 1
  BY <1>5, <1>6, NextIs DEF FragmentOf
<1>8. m \in Accounts /\ m.first \in Nat /\ m.frags \in Nat
  <2>1. m \in Accounts
    BY <1>1, <1>6, <1>7
  <2> QED BY <2>1 DEF Accounts
<1>9. m.first = EndOf(acc, n)
  <2>1. n + 1 - 1 = n
    BY <1>1
  <2> QED BY <1>6, <1>7, <2>1 DEF InARow
<1>10. q[1].frg + 1 = m.frags
  <2>1. q[1].frg = m.first + m.frags - 1 - q[1].sn
    BY <1>6, <1>7 DEF FragmentOf
  <2> QED BY <1>4, <1>5, <1>8, <1>9, <2>1
<1>11. Base(k) + (q[1].frg + 1) = EndOf(acc, n + 1)
  <2>1. n + 1 # 0
    BY <1>1
  <2>2. EndOf(acc, n + 1) = m.first + m.frags
    BY <2>1 DEF EndOf
  <2> QED BY <1>9, <1>10, <2>2
<1>12. m.frags >= 1 /\ m.frags <= Len(q)
  <2>1. q[1].frg \in Nat
    BY <1>3, <1>4 DEF Arrivals
  <2>2. m.frags \in Nat /\ m.frags = q[1].frg + 1
    BY <1>8, <1>10
  <2>3. Len(q) \in Nat /\ Len(q) > q[1].frg
    BY <1>2
  <2> HIDE DEF q, m
  <2> QED BY <2>1, <2>2, <2>3
<1> DEFINE N == m.frags  front == SubSeq(q, 1, N)
<1>13. FrontMessage(k) = front
  BY <1>10 DEF FrontMessage
<1>14. front \in Seq(Arrivals) /\ DOMAIN front = 1 .. N /\ \A j \in 1 .. N : front[j] = q[j]
  <2> HIDE DEF q, m
  <2>1. q \in Seq(Arrivals)
    BY <1>2, <1>3
  <2>2. N \in Nat /\ N <= Len(q) /\ N >= 1
    BY <1>8, <1>12
  <2> HIDE DEF N
  <2>3. front = [j \in 1 .. N |-> q[j]]
    BY <1>2, <2>1, <2>2
  <2>4. \A j \in 1 .. N : q[j] \in Arrivals
    BY <1>2, <1>3, <2>2
  <2>5. front \in Seq(Arrivals)
    BY <2>2, <2>3, <2>4
  <2> QED BY <2>3, <2>5
<1>15. ASSUME NEW j \in 1 .. N PROVE q[j].data = <<m.id, j>>
  <2>1. j \in 1 .. Len(q) /\ j \in Nat /\ j >= 1 /\ j <= N
    BY <1>2, <1>8, <1>12
  <2>2. q[j].sn = m.first + j - 1
    BY <1>3, <1>9, <2>1
  <2>3. PICK h \in 1 .. Len(acc) : FragmentOf(acc[h], q[j].sn, q[j])
    BY <1>3, <2>1 DEF IsFragment
  <2>4. m.first <= q[j].sn /\ q[j].sn < m.first + m.frags /\ q[j].sn \in Int /\ q[j].sn - m.first + 1 = j
    <3>1. m.first \in Nat /\ m.frags \in Nat /\ j <= m.frags
      BY <1>8, <2>1
    <3> HIDE DEF q, m
    <3> QED BY <2>1, <2>2, <3>1
  <2>5. h = n + 1
    BY <1>6, <1>7, <2>3, <2>4, OneMessage DEF FragmentOf
  <2> QED BY <2>3, <2>4, <2>5 DEF FragmentOf
<1> HIDE DEF q, m, N, front
<1>16. Datas(front) = Whole(m)
  BY <1>14, <1>15 DEF Datas, Whole, N
<1> QED BY <1>6, <1>7, <1>10, <1>11, <1>13, <1>14, <1>16 DEF q, m

\* deliver_received() after i turns from k, where n messages had been heard.
HasDelivered(d, k, acc, n) ==
  /\ HoldsOf(d.kcp, SegmentsOf(acc)) /\ SameSender(d.kcp, k) /\ d.kcp.acklist = k.acklist /\ Gains(d.kcp, k)
  /\ d.msgs \in Seq(Seq(Arrivals)) /\ n + Len(d.msgs) <= Len(acc)
  /\ Base(d.kcp) = EndOf(acc, n + Len(d.msgs))
  /\ \A m \in 1 .. Len(d.msgs) : Datas(d.msgs[m]) = Whole(acc[n + m])

\* One message is delivered: the next one that was taken.
LEMMA DeliverNextIs ==
  ASSUME NEW acc, InARow(acc), NEW k \in Kcps, NEW n \in 0 .. Len(acc), NEW d, HasDelivered(d, k, acc, n)
  PROVE  LET e == DeliverNext(d) IN
         /\ HasDelivered(e, k, acc, n)
         /\ ~MessageReady(d.kcp) => e = d
         /\ MessageReady(d.kcp) =>
              /\ e = [kcp |-> RecvMessage(d.kcp), msgs |-> Append(d.msgs, FrontMessage(d.kcp))]
              /\ InQueue(e.kcp) + InBuf(e.kcp) < InQueue(d.kcp) + InBuf(d.kcp)
<1> DEFINE G == SegmentsOf(acc)  j == d.kcp  r == RecvMessage(j)  f == FrontMessage(j)
           msgs == Append(d.msgs, f)  l == Len(d.msgs)
           e == [kcp |-> r, msgs |-> msgs]
<1>1. CASE ~MessageReady(j)
  BY <1>1 DEF DeliverNext
<1>2. CASE MessageReady(j)
  <2>1. DeliverNext(d) = e
    BY <1>2 DEF DeliverNext
  <2>2. /\ HoldsOf(j, G) /\ SameSender(j, k) /\ j.acklist = k.acklist /\ Gains(j, k)
        /\ d.msgs \in Seq(Seq(Arrivals)) /\ n + l <= Len(acc) /\ Base(j) = EndOf(acc, n + l)
        /\ \A m \in 1 .. l : Datas(d.msgs[m]) = Whole(acc[n + m])
        /\ l \in Nat /\ n \in Nat /\ Len(acc) \in Nat
    BY DEF HasDelivered, InARow
  <2>3. n + l \in 0 .. Len(acc) /\ G \subseteq Arrivals
    BY <2>2 DEF SegmentsOf
  <2> DEFINE x == j.rcv_queue[1].frg + 1
  <2> HIDE DEF j, r, f, G, l, x, msgs, e
  <2>4. /\ n + l + 1 \in 1 .. Len(acc)
        /\ Base(j) + x = EndOf(acc, n + l + 1)
        /\ f \in Seq(Arrivals) /\ Datas(f) = Whole(acc[n + l + 1])
    BY <1>2, <2>2, <2>3, FrontIs DEF G, f, x
  <2>5. /\ HoldsOf(r, G) /\ SameSender(r, j) /\ r.acklist = j.acklist /\ Gains(r, j)
        /\ x \in Nat /\ x >= 1 /\ Base(r) = Base(j) + x
        /\ InQueue(r) + InBuf(r) = InQueue(j) + InBuf(j) - x
    BY <1>2, <2>2, <2>3, RecvIs DEF r, x
  <2>6. /\ msgs \in Seq(Seq(Arrivals)) /\ Len(msgs) = l + 1 /\ msgs[l + 1] = f
        /\ \A m \in 1 .. l : msgs[m] = d.msgs[m]
    BY <2>2, <2>4 DEF msgs, l
  <2>7. e.kcp = r /\ e.msgs = msgs
    BY DEF e
  <2>8. SameSender(r, k) /\ r.acklist = k.acklist
    BY <2>2, <2>5 DEF SameSender
  <2>9. Gains(r, k)
    <3>1. r.rcv_nxt \in Nat /\ j.rcv_nxt \in Nat /\ k.rcv_nxt \in Nat
      BY <2>2, <2>5 DEF HoldsOf, Kcps
    <3>2. k.rcv_nxt <= j.rcv_nxt /\ j.rcv_nxt <= r.rcv_nxt
      BY <2>2, <2>5 DEF Gains
    <3>3. k.rcv_nxt <= r.rcv_nxt
      BY <3>1, <3>2
    <3> QED BY <2>2, <2>5, <3>3 DEF Gains
  <2>10. n + Len(msgs) = n + l + 1 /\ n + l + 1 <= Len(acc)
    BY <2>2, <2>4, <2>6
  <2>11. Base(r) = EndOf(acc, n + Len(msgs))
    BY <2>4, <2>5, <2>10
  <2>12. ASSUME NEW m \in 1 .. Len(msgs) PROVE Datas(msgs[m]) = Whole(acc[n + m])
    <3>1. CASE m = l + 1
      <4>1. n + m = n + l + 1
        BY <2>2, <3>1
      <4> QED BY <2>4, <2>6, <3>1, <4>1
    <3>2. CASE m # l + 1
      <4>1. m \in 1 .. l
        BY <2>2, <2>6, <3>2
      <4> QED BY <2>2, <2>6, <4>1
    <3> QED BY <3>1, <3>2
  <2>13. HasDelivered(e, k, acc, n)
    BY <2>5, <2>6, <2>7, <2>8, <2>9, <2>10, <2>11, <2>12 DEF HasDelivered, G
  <2>14. InQueue(e.kcp) + InBuf(e.kcp) < InQueue(j) + InBuf(j)
    <3>1. j.rcv_queue \in Seq(G) /\ j.rcv_buf \in Seq(G)
      BY <2>2 DEF HoldsOf
    <3>2. InQueue(j) \in Nat /\ InBuf(j) \in Nat
      BY <3>1 DEF InQueue, InBuf
    <3> QED BY <2>5, <2>7, <3>2
  <2> QED BY <1>2, <2>1, <2>13, <2>14 DEF e, j, r, msgs, f
<1> QED BY <1>1, <1>2

\* deliver_received() is a loop.
LEMMA DeliverRuns ==
  ASSUME NEW acc, InARow(acc), NEW k, HoldsOf(k, SegmentsOf(acc)),
         NEW n \in 0 .. Len(acc), Base(k) = EndOf(acc, n)
  PROVE  \E f : /\ f[0] = [kcp |-> k, msgs |-> <<>>]
                /\ \A i \in 1 .. InQueue(k) + InBuf(k) : f[i] = DeliverNext(f[i - 1])
                /\ DeliverReceived(k) = f[InQueue(k) + InBuf(k)]
<1> DEFINE most == Len(k.rcv_queue) + Len(k.rcv_buf)  first == [kcp |-> k, msgs |-> <<>>]
           body(f) == [i \in 0 .. most |-> IF i = 0 THEN first ELSE DeliverNext(f[i - 1])]
           delivered == CHOOSE f : f = body(f)
           S == {d \in [kcp : Kcps, msgs : Seq(Seq(Arrivals))] : HasDelivered(d, k, acc, n)}
           step == [i \in 1 .. most |-> [d \in S |-> DeliverNext(d)]]
<1>1. /\ k \in Kcps /\ k.rcv_nxt \in Nat /\ InQueue(k) \in Nat /\ InBuf(k) \in Nat
      /\ most = InQueue(k) + InBuf(k) /\ n \in Nat /\ Len(acc) \in Nat
  <2>1. k \in Kcps /\ k.rcv_queue \in Seq(SegmentsOf(acc)) /\ k.rcv_buf \in Seq(SegmentsOf(acc))
    BY DEF HoldsOf
  <2>2. acc \in Seq(Accounts)
    BY DEF InARow
  <2> QED BY <2>1, <2>2 DEF InQueue, InBuf, Kcps
<1>2. most \in Nat
  <2> HIDE DEF most
  <2> QED BY <1>1
<1>3. DeliverReceived(k) = delivered[most]
  BY DEF DeliverReceived
<1> HIDE DEF most
<1>4. first.kcp = k /\ first.msgs = <<>> /\ first \in S
  <2>1. first.kcp = k /\ first.msgs = <<>>
    OBVIOUS
  <2>2. <<>> \in Seq(Seq(Arrivals)) /\ Len(<<>>) = 0
    OBVIOUS
  <2>3. SameSender(k, k) /\ Gains(k, k)
    BY <1>1 DEF SameSender, Gains
  <2>4. first \in [kcp : Kcps, msgs : Seq(Seq(Arrivals))]
    BY <1>1, <2>2
  <2> HIDE DEF first
  <2>5. HasDelivered(first, k, acc, n)
    <3>1. n + Len(first.msgs) = n /\ n <= Len(acc) /\ 1 .. Len(first.msgs) = {}
      BY <1>1, <2>1, <2>2
    <3> QED BY <2>1, <2>2, <2>3, <3>1 DEF HasDelivered
  <2> QED BY <2>1, <2>4, <2>5
<1> HIDE DEF first
<1>5. ASSUME NEW d \in S PROVE DeliverNext(d) \in S
  <2> DEFINE e == DeliverNext(d)
  <2>1. HasDelivered(d, k, acc, n)
    OBVIOUS
  <2>2. /\ HasDelivered(e, k, acc, n)
        /\ ~MessageReady(d.kcp) => e = d
        /\ MessageReady(d.kcp) =>
              e = [kcp |-> RecvMessage(d.kcp), msgs |-> Append(d.msgs, FrontMessage(d.kcp))]
    BY <1>1, <2>1, DeliverNextIs
  <2> HIDE DEF e
  <2>3. CASE ~MessageReady(d.kcp)
    BY <2>2, <2>3 DEF e
  <2>4. CASE MessageReady(d.kcp)
    <3> DEFINE r == RecvMessage(d.kcp)  m == Append(d.msgs, FrontMessage(d.kcp))
    <3>1. e = [kcp |-> r, msgs |-> m]
      BY <2>2, <2>4
    <3> HIDE DEF r, m
    <3>2. e.kcp \in Kcps /\ e.msgs \in Seq(Seq(Arrivals))
      BY <2>2 DEF HasDelivered, HoldsOf
    <3>3. e \in [kcp : Kcps, msgs : Seq(Seq(Arrivals))]
      BY <3>1, <3>2
    <3> QED BY <2>2, <3>3 DEF e
  <2> QED BY <2>3, <2>4
<1>6. \E f : f = body(f)
  <2>1. \A i \in 1 .. most : \A d \in S : step[i][d] = DeliverNext(d)
    <3> HIDE DEF S
    <3> QED OBVIOUS
  <2>2. PICK f : IsRun(f, most, S, first, step)
    <3> HIDE DEF step, S
    <3>1. \A i \in 1 .. most : \A d \in S : step[i][d] \in S
      BY <1>5, <2>1
    <3> QED BY <1>2, <1>4, <3>1, Iterates
  <2>3. f \in [0 .. most -> S] /\ f[0] = first
    <3> HIDE DEF S, step
    <3> QED BY <2>2 DEF IsRun
  <2>4. ASSUME NEW i \in 0 .. most PROVE f[i] = body(f)[i]
    <3>1. CASE i = 0
      BY <2>3, <3>1
    <3>2. CASE i # 0
      <4> HIDE DEF S, step
      <4>1. i \in 1 .. most /\ i - 1 \in 0 .. most /\ f[i - 1] \in S
        BY <1>2, <2>3, <3>2
      <4>2. f[i] = step[i][f[i - 1]]
        BY <2>2, <4>1 DEF IsRun
      <4>3. f[i] = DeliverNext(f[i - 1])
        BY <2>1, <4>1, <4>2
      <4> QED BY <3>2, <4>1, <4>3
    <3> QED BY <3>1, <3>2
  <2>5. f = body(f)
    <3> HIDE DEF S
    <3> QED BY <2>3, <2>4
  <2> HIDE DEF body
  <2> QED BY <2>5
<1>7. delivered = body(delivered)
  <2> HIDE DEF body
  <2> QED BY <1>6
<1> HIDE DEF delivered
<1>8. delivered[0] = first /\ \A i \in 1 .. most : delivered[i] = DeliverNext(delivered[i - 1])
  <2>1. delivered[0] = body(delivered)[0] /\ 0 \in 0 .. most
    BY <1>2, <1>7
  <2>2. ASSUME NEW i \in 1 .. most PROVE delivered[i] = DeliverNext(delivered[i - 1])
    <3>1. i \in 0 .. most /\ i # 0
      BY <1>2
    <3>2. delivered[i] = body(delivered)[i]
      BY <1>7
    <3> QED BY <3>1, <3>2
  <2> QED BY <2>1, <2>2
<1> HIDE DEF step, body, S
<1> QED BY <1>1, <1>3, <1>8 DEF first

\* deliver_received() leaves no message that is whole.
LEMMA DeliverReceivedIs ==
  ASSUME NEW acc, InARow(acc), NEW k, HoldsOf(k, SegmentsOf(acc)),
         NEW n \in 0 .. Len(acc), Base(k) = EndOf(acc, n)
  PROVE  LET r == DeliverReceived(k) IN HasDelivered(r, k, acc, n) /\ ~MessageReady(r.kcp)
<1> DEFINE most == Len(k.rcv_queue) + Len(k.rcv_buf)  first == [kcp |-> k, msgs |-> <<>>]
<1>1. /\ k \in Kcps /\ k.rcv_nxt \in Nat /\ InQueue(k) \in Nat /\ InBuf(k) \in Nat
      /\ most = InQueue(k) + InBuf(k) /\ n \in Nat /\ Len(acc) \in Nat
  <2>1. k \in Kcps /\ k.rcv_queue \in Seq(SegmentsOf(acc)) /\ k.rcv_buf \in Seq(SegmentsOf(acc))
    BY DEF HoldsOf
  <2>2. acc \in Seq(Accounts)
    BY DEF InARow
  <2> QED BY <2>1, <2>2 DEF InQueue, InBuf, Kcps
<1>2. most \in Nat
  <2> HIDE DEF most
  <2> QED BY <1>1
<1> HIDE DEF most
<1>3. PICK delivered : /\ delivered[0] = first
                       /\ \A i \in 1 .. most : delivered[i] = DeliverNext(delivered[i - 1])
                       /\ DeliverReceived(k) = delivered[most]
  BY <1>1, DeliverRuns
<1>4. first.kcp = k /\ first.msgs = <<>> /\ HasDelivered(first, k, acc, n)
  <2>1. first.kcp = k /\ first.msgs = <<>>
    OBVIOUS
  <2>2. <<>> \in Seq(Seq(Arrivals)) /\ Len(<<>>) = 0
    OBVIOUS
  <2>3. SameSender(k, k) /\ Gains(k, k)
    BY <1>1 DEF SameSender, Gains
  <2> HIDE DEF first
  <2>5. HasDelivered(first, k, acc, n)
    <3>1. n + Len(first.msgs) = n /\ n <= Len(acc) /\ 1 .. Len(first.msgs) = {}
      BY <1>1, <2>1, <2>2
    <3> QED BY <2>1, <2>2, <2>3, <3>1 DEF HasDelivered
  <2> QED BY <2>1, <2>5
<1> HIDE DEF first
<1> HIDE DEF first
<1>8. delivered[0] = first /\ \A i \in 1 .. most : delivered[i] = DeliverNext(delivered[i - 1])
  BY <1>3
<1> DEFINE Ok(i, d) == /\ HasDelivered(d, k, acc, n)
                       /\ MessageReady(d.kcp) => InQueue(d.kcp) + InBuf(d.kcp) <= most - i
           Good == {i \in 0 .. most : Ok(i, delivered[i])}
<1>9. 0 \in Good
  <2>1. HasDelivered(first, k, acc, n)
    BY <1>4
  <2>2. Ok(0, first)
    BY <1>1, <1>2, <1>4, <2>1
  <2> HIDE DEF Ok
  <2> QED BY <1>2, <1>8, <2>2
<1>10. ASSUME NEW i \in 1 .. most, i - 1 \in Good PROVE i \in Good
  <2> DEFINE x == delivered[i - 1]  y == delivered[i]
  <2>1. Ok(i - 1, x) /\ y = DeliverNext(x)
    <3> HIDE DEF Ok
    <3> QED BY <1>8, <1>10
  <2> HIDE DEF x, y
  <2>2. /\ HasDelivered(y, k, acc, n)
        /\ ~MessageReady(x.kcp) => y = x
        /\ MessageReady(x.kcp) => InQueue(y.kcp) + InBuf(y.kcp) < InQueue(x.kcp) + InBuf(x.kcp)
    BY <1>1, <2>1, DeliverNextIs
  <2>3. MessageReady(y.kcp) => InQueue(y.kcp) + InBuf(y.kcp) <= most - i
    <3>1. SUFFICES ASSUME MessageReady(y.kcp) PROVE InQueue(y.kcp) + InBuf(y.kcp) <= most - i
      OBVIOUS
    <3>2. MessageReady(x.kcp)
      BY <2>2, <3>1
    <3>3. /\ InQueue(y.kcp) \in Nat /\ InBuf(y.kcp) \in Nat
          /\ InQueue(x.kcp) \in Nat /\ InBuf(x.kcp) \in Nat
      BY <2>1, <2>2, CountsAre DEF HasDelivered
    <3>4. InQueue(y.kcp) + InBuf(y.kcp) < InQueue(x.kcp) + InBuf(x.kcp)
          /\ InQueue(x.kcp) + InBuf(x.kcp) <= most - (i - 1)
      BY <2>1, <2>2, <3>2
    <3> QED BY <1>2, <3>3, <3>4
  <2>4. Ok(i, y)
    BY <2>2, <2>3
  <2> HIDE DEF Ok
  <2> QED BY <1>2, <2>4 DEF y
<1>11. most \in Good
  <2> HIDE DEF Good
  <2>1. \A i \in 0 .. most : i \in Good
    BY <1>2, <1>9, <1>10, UpTo
  <2> QED BY <1>2, <2>1
<1> DEFINE r == delivered[most]
<1>12. Ok(most, r)
  <2> HIDE DEF Ok
  <2> QED BY <1>11
<1> HIDE DEF r
<1>13. ~MessageReady(r.kcp)
  <2>1. SUFFICES ASSUME MessageReady(r.kcp) PROVE FALSE
    OBVIOUS
  <2>2. r.kcp.rcv_queue \in Seq(SegmentsOf(acc)) /\ r.kcp.rcv_buf \in Seq(SegmentsOf(acc)) /\ r.kcp.rcv_queue # <<>>
    BY <1>12, <2>1 DEF HasDelivered, HoldsOf, MessageReady
  <2>3. InQueue(r.kcp) \in Nat /\ InQueue(r.kcp) >= 1 /\ InBuf(r.kcp) \in Nat
    BY <2>2 DEF InQueue, InBuf
  <2>4. InQueue(r.kcp) + InBuf(r.kcp) <= most - most
    BY <1>12, <2>1
  <2> QED BY <1>2, <2>3, <2>4
<1> QED BY <1>3, <1>12, <1>13 DEF r

-----------------------------------------------------------------------------
(* The sender of the messages of acc: what it has numbered, what it will.  *)
SenderOf(k, acc) ==
  /\ k.snd_nxt + Len(k.snd_queue) = EndOf(acc, Len(acc))
  /\ \A i \in 1 .. Len(k.snd_queue) : IsFragment(acc, k.snd_nxt + i - 1, k.snd_queue[i])
  /\ \A i \in DOMAIN k.snd_buf : IsFragment(acc, k.snd_buf[i].sn, k.snd_buf[i])

\* A number given out is in snd_buf, or in H.
NoneForgotten(k, H) ==
  \A sn \in 0 .. k.snd_nxt - 1 : sn \in H \/ \E i \in DOMAIN k.snd_buf : k.snd_buf[i].sn = sn

\* A sender that answers have reached.
LEMMA AnsweredIs ==
  ASSUME NEW k, NEW r, NEW acc, NEW H, SenderFollows(r, k, H), SenderOf(k, acc), NoneForgotten(k, H)
  PROVE  SenderOf(r, acc) /\ NoneForgotten(r, H)
<1>1. r.snd_nxt = k.snd_nxt /\ r.snd_queue = k.snd_queue
  BY DEF SenderFollows
<1>2. ASSUME NEW i \in DOMAIN r.snd_buf PROVE IsFragment(acc, r.snd_buf[i].sn, r.snd_buf[i])
  <2>1. PICK j \in DOMAIN k.snd_buf :
          /\ r.snd_buf[i].sn = k.snd_buf[j].sn /\ r.snd_buf[i].frg = k.snd_buf[j].frg
          /\ r.snd_buf[i].data = k.snd_buf[j].data
    BY DEF SenderFollows
  <2>2. IsFragment(acc, k.snd_buf[j].sn, k.snd_buf[j])
    BY DEF SenderOf
  <2> QED BY <2>1, <2>2 DEF IsFragment, FragmentOf
<1>3. ASSUME NEW sn \in 0 .. r.snd_nxt - 1, sn \notin H
      PROVE  \E i \in DOMAIN r.snd_buf : r.snd_buf[i].sn = sn
  <2>1. PICK j \in DOMAIN k.snd_buf : k.snd_buf[j].sn = sn
    BY <1>1, <1>3 DEF NoneForgotten
  <2> QED BY <1>3, <2>1 DEF SenderFollows
<1>4. SenderOf(r, acc)
  BY <1>1, <1>2 DEF SenderOf
<1> QED BY <1>3, <1>4 DEF NoneForgotten

\* ikcp_flush() numbers segments of snd_queue as the window allows.
LEMMA FillWindowIs ==
  ASSUME NEW k \in Kcps, NEW acc, NEW H, SenderOf(k, acc), NoneForgotten(k, H)
  PROVE  LET r == FillWindow(k) IN
         r \in Kcps /\ SameReceiver(r, k) /\ SenderOf(r, acc) /\ NoneForgotten(r, H)
<1> DEFINE q == k.snd_queue  b == k.snd_buf
           room == k.snd_una + AtMost(SndWnd, k.rmt_wnd) - k.snd_nxt
           n == IF room <= 0 THEN 0 ELSE AtMost(Len(q), room)
           new == [i \in 1..n |-> [sn |-> k.snd_nxt + i - 1, frg |-> q[i].frg,
                                   data |-> q[i].data, xmit |-> 0, fastack |-> 0]]
           more == b \o new  rest == SubSeq(q, n + 1, Len(q))  nxt == k.snd_nxt + n
           r == [k EXCEPT !.snd_buf = more, !.snd_queue = rest, !.snd_nxt = nxt]
<1>1. FillWindow(k) = r
  BY DEF FillWindow
<1>2. /\ q \in Seq(Queued) /\ b \in Seq(Buffered) /\ k.snd_nxt \in Nat /\ k.snd_una \in Nat /\ k.rmt_wnd \in Int
      /\ SndWnd \in Nat
  BY ArqAssumption DEF Kcps
<1>3. Len(q) \in Nat /\ Len(b) \in Nat /\ DOMAIN b = 1 .. Len(b)
  BY <1>2
<1>4. n \in 0 .. Len(q)
  <2>1. AtMost(SndWnd, k.rmt_wnd) \in Int
    BY <1>2 DEF AtMost
  <2>2. room \in Int
    BY <1>2, <2>1
  <2> HIDE DEF room, q
  <2> QED BY <1>3, <2>2 DEF AtMost
<1> HIDE DEF n
<1>5. ASSUME NEW i \in 1 .. n
      PROVE  new[i] \in Buffered /\ new[i].sn = k.snd_nxt + i - 1 /\ new[i].frg = q[i].frg /\ new[i].data = q[i].data
  <2>1. q[i] \in Queued
    BY <1>2, <1>3, <1>4
  <2>2. q[i].frg \in Nat /\ q[i].data \in Data
    BY <2>1 DEF Queued
  <2>3. k.snd_nxt + i - 1 \in Nat
    BY <1>2, <1>4
  <2> QED BY <2>2, <2>3 DEF Buffered
<1>6. new \in Seq(Buffered) /\ Len(new) = n
  <2>1. new \in [1 .. n -> Buffered]
    <3>1. new = [i \in 1 .. n |-> new[i]]
      OBVIOUS
    <3> HIDE DEF new
    <3> QED BY <1>5, <3>1
  <2>2. n \in Nat
    BY <1>3, <1>4
  <2> HIDE DEF new
  <2> QED BY <2>1, <2>2
<1> HIDE DEF new
<1>7. /\ more \in Seq(Buffered) /\ DOMAIN more = 1 .. Len(b) + n
      /\ \A i \in 1 .. Len(b) : more[i] = b[i]
      /\ \A i \in 1 .. n : more[Len(b) + i] = new[i]
  <2> HIDE DEF b
  <2>1. more \in Seq(Buffered) /\ Len(more) = Len(b) + Len(new)
    BY <1>2, <1>6, ConcatProperties
  <2>2. n \in Nat /\ Len(b) \in Nat
    BY <1>3, <1>4
  <2>3. \A i \in 1 .. Len(b) : more[i] = b[i]
    BY <1>2, <1>6, <2>2
  <2>4. \A i \in 1 .. n : more[Len(b) + i] = new[i]
    BY <1>2, <1>6, <2>2
  <2> HIDE DEF more
  <2> QED BY <1>6, <2>1, <2>2, <2>3, <2>4
<1> HIDE DEF more
<1>8. /\ rest \in Seq(Queued) /\ Len(rest) = Len(q) - n
      /\ \A i \in 1 .. Len(q) - n : rest[i] = q[i + n]
  <2> HIDE DEF q
  <2> DEFINE d == Len(q) - n
  <2>1. n \in Nat /\ n <= Len(q) /\ d \in Nat /\ n + 1 \in 1 .. Len(q) + 1
    BY <1>3, <1>4
  <2>2. Len(rest) = d /\ rest = [i \in 1 .. d |-> q[i + n]]
    BY <1>2, <1>3, <2>1
  <2>3. ASSUME NEW i \in 1 .. d PROVE q[i + n] \in Queued
    <3>1. i + n \in 1 .. Len(q)
      BY <1>3, <2>1
    <3> QED BY <1>2, <3>1
  <2>4. rest \in [1 .. d -> Queued]
    <3> HIDE DEF d, rest
    <3> QED BY <2>2, <2>3
  <2> HIDE DEF rest, d
  <2>5. rest \in Seq(Queued)
    BY <2>1, <2>4
  <2> QED BY <2>2, <2>5 DEF d
<1> HIDE DEF rest
<1>9. nxt \in Nat
  BY <1>2, <1>3, <1>4
<1> HIDE DEF nxt
<1>10. r \in Kcps
  BY <1>7, <1>8, <1>9 DEF Kcps
<1>11. SameReceiver(r, k) /\ r.snd_buf = more /\ r.snd_queue = rest /\ r.snd_nxt = nxt
  BY DEF Kcps, SameReceiver
<1> HIDE DEF r
<1>12. nxt + Len(rest) = EndOf(acc, Len(acc))
  <2>1. k.snd_nxt + Len(q) = EndOf(acc, Len(acc))
    BY DEF SenderOf
  <2> HIDE DEF q
  <2>2. nxt = k.snd_nxt + n /\ Len(rest) = Len(q) - n
    BY <1>8 DEF nxt
  <2> QED BY <1>2, <1>3, <1>4, <2>1, <2>2
<1>13. ASSUME NEW i \in 1 .. Len(rest) PROVE IsFragment(acc, nxt + i - 1, rest[i])
  <2>1. i + n \in 1 .. Len(q) /\ rest[i] = q[i + n] /\ k.snd_nxt + (i + n) - 1 = nxt + i - 1
    <3> DEFINE l == Len(q)  x == k.snd_nxt
    <3>1. l \in Nat /\ n \in Nat /\ x \in Nat /\ i \in Nat /\ 1 <= i /\ i <= l - n /\ nxt = x + n
      BY <1>2, <1>3, <1>4, <1>8 DEF nxt
    <3>2. rest[i] = q[i + n]
      BY <1>8
    <3> HIDE DEF l, x, q
    <3>3. i + n \in 1 .. l /\ x + (i + n) - 1 = nxt + i - 1
      BY <3>1
    <3> QED BY <3>2, <3>3 DEF l, x
  <2>2. IsFragment(acc, k.snd_nxt + (i + n) - 1, q[i + n])
    BY <2>1 DEF SenderOf
  <2> QED BY <2>1, <2>2
<1>14. ASSUME NEW i \in DOMAIN more PROVE IsFragment(acc, more[i].sn, more[i])
  <2>1. CASE i \in 1 .. Len(b)
    <3>1. more[i] = b[i] /\ i \in DOMAIN b
      BY <1>3, <1>7, <2>1
    <3> QED BY <3>1 DEF SenderOf
  <2>2. CASE i \notin 1 .. Len(b)
    <3> DEFINE j == i - Len(b)
    <3>1. j \in 1 .. n /\ i = Len(b) + j /\ j \in 1 .. Len(q)
      <4> HIDE DEF q, b
      <4>1. i \in 1 .. Len(b) + n
        BY <1>7, <1>14
      <4> QED BY <1>3, <1>4, <2>2, <4>1
    <3> HIDE DEF j
    <3>2. more[i] = new[j]
      BY <1>7, <3>1
    <3>3. IsFragment(acc, k.snd_nxt + j - 1, q[j])
      BY <3>1 DEF SenderOf
    <3>4. new[j].sn = k.snd_nxt + j - 1 /\ new[j].frg = q[j].frg /\ new[j].data = q[j].data
      BY <1>5, <3>1
    <3> QED BY <3>2, <3>3, <3>4 DEF IsFragment, FragmentOf
  <2> QED BY <2>1, <2>2
<1>15. SenderOf(r, acc)
  BY <1>11, <1>12, <1>13, <1>14 DEF SenderOf
<1>16. ASSUME NEW sn \in 0 .. nxt - 1, sn \notin H PROVE \E i \in DOMAIN more : more[i].sn = sn
  <2>1. CASE sn < k.snd_nxt
    <3>1. sn \in 0 .. k.snd_nxt - 1
      BY <1>2, <1>9, <2>1
    <3>2. PICK i \in DOMAIN b : b[i].sn = sn
      BY <1>16, <3>1 DEF NoneForgotten
    <3>3. i \in DOMAIN more /\ more[i] = b[i]
      BY <1>3, <1>4, <1>7
    <3> QED BY <3>2, <3>3
  <2>2. CASE ~(sn < k.snd_nxt)
    <3> DEFINE j == sn - k.snd_nxt + 1
    <3>1. j \in 1 .. n /\ k.snd_nxt + j - 1 = sn
      BY <1>2, <1>3, <1>4, <2>2 DEF nxt
    <3> HIDE DEF j
    <3>2. Len(b) + j \in DOMAIN more /\ more[Len(b) + j] = new[j]
      BY <1>3, <1>4, <1>7, <3>1
    <3>3. new[j].sn = sn
      BY <1>5, <3>1
    <3> QED BY <3>2, <3>3
  <2> QED BY <2>1, <2>2
<1>17. NoneForgotten(r, H)
  BY <1>11, <1>16 DEF NoneForgotten
<1> QED BY <1>1, <1>10, <1>11, <1>15, <1>17

\* The window probes are the sender's own.
LEMMA ProbeWindowIs ==
  ASSUME NEW k \in Kcps, NEW due \in BOOLEAN
  PROVE  LET r == ProbeWindow(k, due) IN r \in Kcps /\ SameSender(r, k) /\ SameReceiver(r, k)
<1> DEFINE p == IF k.probe_wait /\ due THEN k.probe \cup {"SEND"} ELSE k.probe
           a == [k EXCEPT !.probe_wait = FALSE]
           b == [k EXCEPT !.probe_wait = TRUE, !.probe = p]
<1>1. ProbeWindow(k, due) = IF k.rmt_wnd # 0 THEN a ELSE b
  BY DEF ProbeWindow
<1>2. p \in SUBSET {"SEND", "TELL"}
  <2>1. k.probe \in SUBSET {"SEND", "TELL"}
    BY DEF Kcps
  <2> QED BY <2>1
<1> HIDE DEF p
<1>3. a \in Kcps /\ SameSender(a, k) /\ SameReceiver(a, k)
  BY DEF Kcps, SameSender, SameReceiver
<1>4. b \in Kcps /\ SameSender(b, k) /\ SameReceiver(b, k)
  BY <1>2 DEF Kcps, SameSender, SameReceiver
<1> QED BY <1>1, <1>3, <1>4

\* Transmitting changes xmit and fastack only.
LEMMA TransmitIs ==
  ASSUME NEW k \in Kcps, NEW late, NEW H
  PROVE  LET r == Transmit(k, late) IN r \in Kcps /\ SenderFollows(r, k, H) /\ SameReceiver(r, k)
<1> DEFINE buf == [i \in DOMAIN k.snd_buf |->
                     IF NeedSend(k.snd_buf[i], late) THEN Transmitted(k.snd_buf[i]) ELSE k.snd_buf[i]]
           j == [k EXCEPT !.snd_buf = buf]
           s == IF \E i \in DOMAIN buf : buf[i].xmit >= DeadLink THEN -1 ELSE k.state
           r == [k EXCEPT !.snd_buf = buf, !.state = s]
<1>1. Transmit(k, late) = r
  BY DEF Transmit
<1>2. k.snd_buf \in Seq(Buffered) /\ DeadLink \in Nat
  BY ArqAssumption DEF Kcps
<1>3. ASSUME NEW i \in DOMAIN k.snd_buf
      PROVE  /\ buf[i] \in Buffered /\ buf[i].sn = k.snd_buf[i].sn /\ buf[i].frg = k.snd_buf[i].frg
             /\ buf[i].data = k.snd_buf[i].data
  <2> DEFINE x == k.snd_buf[i]
  <2>1. x \in Buffered
    BY <1>2
  <2>2. buf[i] = IF NeedSend(x, late) THEN Transmitted(x) ELSE x
    OBVIOUS
  <2>3. x.xmit + 1 \in Nat
    BY <2>1 DEF Buffered
  <2>4. AtMost(DeadLink, x.xmit + 1) \in Nat
    BY <1>2, <2>3, AtMostIs
  <2> HIDE DEF x, buf
  <2>5. /\ Transmitted(x) \in Buffered /\ Transmitted(x).sn = x.sn /\ Transmitted(x).frg = x.frg
        /\ Transmitted(x).data = x.data
    BY <2>1, <2>4 DEF Transmitted, Buffered
  <2> QED BY <2>1, <2>2, <2>5 DEF x
<1>4. DOMAIN buf = DOMAIN k.snd_buf /\ DOMAIN buf = 1 .. Len(k.snd_buf) /\ Len(k.snd_buf) \in Nat
  BY <1>2
<1>5. buf \in Seq(Buffered) /\ Len(buf) = Len(k.snd_buf)
  <2>1. buf = [i \in 1 .. Len(k.snd_buf) |-> buf[i]]
    BY <1>4
  <2> HIDE DEF buf
  <2> QED BY <1>3, <1>4, <2>1
<1> HIDE DEF buf
<1>6. j \in Kcps /\ SenderFollows(j, k, H) /\ SameReceiver(j, k)
  BY <1>3, <1>4, <1>5, CountInSndBuf
<1>7. s \in Int
  BY DEF Kcps
<1> HIDE DEF s
<1>8. r \in Kcps
  BY <1>5, <1>7 DEF Kcps
<1>9. SameSender(r, j) /\ SameReceiver(r, j)
  BY <1>5, <1>7 DEF Kcps, SameSender, SameReceiver
<1> HIDE DEF r, j
<1>10. SenderFollows(r, j, H)
  BY <1>6, <1>8, <1>9, SameSenderFollows
<1>11. SenderFollows(r, k, H)
  BY <1>6, <1>10, SenderThen
<1>12. SameReceiver(r, k)
  BY <1>6, <1>9 DEF SameReceiver
<1> QED BY <1>1, <1>8, <1>11, <1>12

\* The headers say only what has come.
LEMMA HeaderIs ==
  ASSUME NEW k, NEW G, NEW F, HoldsOf(k, G), NEW cmd \in {"ACK", "WASK", "WINS", "PUSH"},
         NEW sn \in Nat, cmd = "ACK" => sn \in Had(k), cmd # "PUSH"
  PROVE  [Header(k, cmd) EXCEPT !.sn = sn] \in Honest(F, Had(k))
<1> DEFINE h == [Header(k, cmd) EXCEPT !.sn = sn]
<1>1. k \in Kcps /\ Wnd(k) \in Int /\ k.rcv_nxt \in Nat
  <2>1. k \in Kcps /\ InQueue(k) \in Nat
    BY CountsAre DEF HoldsOf
  <2>2. RcvWnd \in Nat /\ k.rcv_nxt \in Nat
    BY <2>1, ArqAssumption DEF Kcps
  <2> QED BY <2>1, <2>2 DEF Wnd, InQueue
<1>2. h = [cmd |-> cmd, sn |-> sn, frg |-> 0, data |-> <<>>, wnd |-> Wnd(k), una |-> k.rcv_nxt]
  BY DEF Header
<1> HIDE DEF h
<1>3. h \in Segments
  BY <1>1, <1>2 DEF Segments
<1>4. \A n \in Nat : n < k.rcv_nxt => n \in Had(k)
  BY <1>1 DEF Had, HasCome
<1> QED BY <1>2, <1>3, <1>4 DEF Honest, h

\* A segment of snd_buf goes out as it was taken.
LEMMA PushIs ==
  ASSUME NEW k, NEW G, NEW acc, HoldsOf(k, G), NEW s \in Buffered, IsFragment(acc, s.sn, s)
  PROVE  [Header(k, "PUSH") EXCEPT !.sn = s.sn, !.frg = s.frg, !.data = s.data] \in Honest(SegmentsOf(acc), Had(k))
<1> DEFINE h == [Header(k, "PUSH") EXCEPT !.sn = s.sn, !.frg = s.frg, !.data = s.data]
           g == [sn |-> s.sn, frg |-> s.frg, data |-> s.data]
<1>1. k \in Kcps /\ Wnd(k) \in Int /\ k.rcv_nxt \in Nat
  <2>1. k \in Kcps /\ InQueue(k) \in Nat
    BY CountsAre DEF HoldsOf
  <2>2. RcvWnd \in Nat /\ k.rcv_nxt \in Nat
    BY <2>1, ArqAssumption DEF Kcps
  <2> QED BY <2>1, <2>2 DEF Wnd, InQueue
<1>2. h = [cmd |-> "PUSH", sn |-> s.sn, frg |-> s.frg, data |-> s.data, wnd |-> Wnd(k), una |-> k.rcv_nxt]
  <2> DEFINE w == Wnd(k)  u == k.rcv_nxt  n == s.sn  f == s.frg  d == s.data
             a == [Header(k, "PUSH") EXCEPT !.sn = n]  b == [a EXCEPT !.frg = f]
             c == [b EXCEPT !.data = d]
  <2>1. Header(k, "PUSH") = [cmd |-> "PUSH", sn |-> 0, frg |-> 0, data |-> <<>>, wnd |-> w, una |-> u]
    BY DEF Header
  <2>2. h = c
    OBVIOUS
  <2> HIDE DEF w, u, n, f, d
  <2>3. a = [cmd |-> "PUSH", sn |-> n, frg |-> 0, data |-> <<>>, wnd |-> w, una |-> u]
    BY <2>1
  <2> HIDE DEF a
  <2>4. b = [cmd |-> "PUSH", sn |-> n, frg |-> f, data |-> <<>>, wnd |-> w, una |-> u]
    BY <2>3
  <2> HIDE DEF b
  <2>5. c = [cmd |-> "PUSH", sn |-> n, frg |-> f, data |-> d, wnd |-> w, una |-> u]
    BY <2>4
  <2> HIDE DEF c, h
  <2> QED BY <2>2, <2>5 DEF w, u, n, f, d
<1>3. g \in Arrivals /\ g.sn = s.sn
  BY DEF Buffered, Arrivals
<1>4. IsFragment(acc, g.sn, g)
  BY DEF IsFragment, FragmentOf
<1>5. g \in SegmentsOf(acc)
  BY <1>3, <1>4 DEF SegmentsOf
<1>6. s.sn \in Nat /\ s.frg \in Nat /\ s.data \in Data
  BY DEF Buffered
<1> HIDE DEF h
<1>7. h \in Segments
  BY <1>1, <1>2, <1>6 DEF Segments
<1>8. \A n \in Nat : n < k.rcv_nxt => n \in Had(k)
  BY <1>1 DEF Had, HasCome
<1>9. [sn |-> h.sn, frg |-> h.frg, data |-> h.data] = g /\ h.cmd = "PUSH" /\ h.una = k.rcv_nxt
  BY <1>2
<1> QED BY <1>5, <1>7, <1>8, <1>9 DEF Honest, h

\* flush(): what it sends is so, and what it changes is the sender's.
LEMMA FlushedIs ==
  ASSUME NEW k, NEW G, NEW acc, NEW H, HoldsOf(k, G), Acked(k), SenderOf(k, acc), NoneForgotten(k, H),
         NEW late, NEW due \in BOOLEAN
  PROVE  LET f == Flushed(k, late, due) IN
         /\ HoldsOf(f.next, G) /\ Acked(f.next) /\ SenderOf(f.next, acc) /\ NoneForgotten(f.next, H)
         /\ ReceiverFollows(f.next, k) /\ f.next.rcv_queue = k.rcv_queue
         /\ f.out \in Seq(Honest(SegmentsOf(acc), Had(k)))
<1> DEFINE f == Flushed(k, late, due)  p == ProbeWindow(k, due)  w == FillWindow(p)
           t == Transmit(w, late)  r == [t EXCEPT !.acklist = <<>>, !.probe = {}]
           P == Honest(SegmentsOf(acc), Had(k))
<1>1. f = [next |-> r, out |-> Acks(k) \o Probes(w) \o Pushes(w, late)]
  BY DEF Flushed
<1>2. k \in Kcps /\ k.acklist \in Seq(Nat) /\ k.rcv_nxt \in Nat
  BY DEF HoldsOf, Kcps
<1>3. p \in Kcps /\ SameSender(p, k) /\ SameReceiver(p, k)
  BY <1>2, ProbeWindowIs
<1> HIDE DEF p
<1>4. SenderOf(p, acc) /\ NoneForgotten(p, H)
  BY <1>3 DEF SameSender, SenderOf, NoneForgotten
<1>5. w \in Kcps /\ SameReceiver(w, p) /\ SenderOf(w, acc) /\ NoneForgotten(w, H)
  BY <1>3, <1>4, FillWindowIs
<1> HIDE DEF w
<1>6. t \in Kcps /\ SenderFollows(t, w, H) /\ SameReceiver(t, w)
  BY <1>5, TransmitIs
<1> HIDE DEF t
<1>7. SenderOf(t, acc) /\ NoneForgotten(t, H)
  BY <1>5, <1>6, AnsweredIs
<1>8. SameReceiver(w, k) /\ SameReceiver(t, k)
  BY <1>3, <1>5, <1>6 DEF SameReceiver
<1>9. HoldsOf(w, G) /\ HoldsOf(t, G) /\ ReceiverFollows(t, k)
  BY <1>2, <1>5, <1>6, <1>8, SameReceiverFollows
<1>10. /\ r \in Kcps /\ SameSender(r, t) /\ r.acklist = <<>> /\ r.rcv_queue = t.rcv_queue
       /\ r.rcv_buf = t.rcv_buf /\ r.rcv_nxt = t.rcv_nxt
  <2>1. <<>> \in Seq(Nat) /\ {} \in SUBSET {"SEND", "TELL"}
    OBVIOUS
  <2>2. r \in Kcps
    BY <1>6, <2>1 DEF Kcps
  <2>3. SameSender(r, t) /\ r.acklist = <<>> /\ r.rcv_queue = t.rcv_queue
       /\ r.rcv_buf = t.rcv_buf /\ r.rcv_nxt = t.rcv_nxt
    BY <1>6 DEF Kcps, SameSender
  <2> QED BY <2>2, <2>3
<1> HIDE DEF r
<1>11. SenderOf(r, acc) /\ NoneForgotten(r, H)
  BY <1>7, <1>10 DEF SameSender, SenderOf, NoneForgotten
<1>12. Base(r) = Base(t) /\ InQueue(r) = InQueue(t) /\ \A n \in Nat : HasCome(t, n) <=> HasCome(r, n)
  BY <1>10 DEF Base, InQueue, HasCome
<1>13. HoldsOf(r, G)
  BY <1>9, <1>10, <1>12 DEF HoldsOf
<1>14. ReceiverFollows(r, k) /\ r.rcv_queue = k.rcv_queue
  BY <1>8, <1>9, <1>10, <1>12 DEF ReceiverFollows, SameReceiver
<1>15. Acked(r)
  BY <1>10 DEF Acked
<1>16. Acks(k) \in Seq(P)
  <2> DEFINE a == Acks(k)
  <2>1. a = [i \in DOMAIN k.acklist |-> [Header(k, "ACK") EXCEPT !.sn = k.acklist[i]]]
    BY DEF Acks
  <2>2. DOMAIN k.acklist = 1 .. Len(k.acklist) /\ Len(k.acklist) \in Nat
    BY <1>2
  <2>3. ASSUME NEW i \in DOMAIN k.acklist PROVE [Header(k, "ACK") EXCEPT !.sn = k.acklist[i]] \in P
    <3>1. k.acklist[i] \in Nat
      BY <1>2
    <3>2. k.acklist[i] \in Had(k)
      BY <3>1 DEF Acked, Had
    <3> HIDE DEF P
    <3> QED BY <3>1, <3>2, HeaderIs DEF P
  <2> HIDE DEF P
  <2>4. a \in [1 .. Len(k.acklist) -> P]
    BY <2>1, <2>2, <2>3
  <2> HIDE DEF a
  <2>5. a \in Seq(P)
    BY <2>2, <2>4
  <2> QED BY <2>5 DEF a
<1>17. Had(w) = Had(k)
  BY <1>8 DEF Had, HasCome, SameReceiver
<1>18. Probes(w) \in Seq(P)
  <2>1. ASSUME NEW cmd \in {"WASK", "WINS"} PROVE Header(w, cmd) \in P
    <3>1. [Header(w, cmd) EXCEPT !.sn = 0] = Header(w, cmd)
      BY DEF Header
    <3>2. [Header(w, cmd) EXCEPT !.sn = 0] \in Honest(SegmentsOf(acc), Had(w))
      BY <1>9, HeaderIs
    <3> QED BY <1>17, <3>1, <3>2
  <2> HIDE DEF P
  <2> DEFINE x == IF "SEND" \in w.probe THEN <<Header(w, "WASK")>> ELSE <<>>
             y == IF "TELL" \in w.probe THEN <<Header(w, "WINS")>> ELSE <<>>
  <2>2. x \in Seq(P) /\ y \in Seq(P)
    BY <2>1
  <2>3. Probes(w) = x \o y
    BY DEF Probes
  <2> HIDE DEF x, y
  <2> QED BY <2>2, <2>3
<1>19. Pushes(w, late) \in Seq(P)
  <2> DEFINE b == w.snd_buf  K == {s \in Range(b) : NeedSend(s, late)}  d == Kept(b, K)
             a == [i \in DOMAIN d |-> [Header(w, "PUSH") EXCEPT !.sn = d[i].sn, !.frg = d[i].frg,
                                                               !.data = d[i].data]]
  <2>1. Pushes(w, late) = a
    BY DEF Pushes
  <2>2. b \in Seq(Buffered)
    BY <1>5 DEF Kcps
  <2>3. d \in Seq(Buffered) /\ \A i \in DOMAIN d : \E j \in DOMAIN b : b[j] = d[i]
    <3> HIDE DEF b, K
    <3> QED BY <2>2, KeptIs
  <2> HIDE DEF d
  <2>4. DOMAIN d = 1 .. Len(d) /\ Len(d) \in Nat
    BY <2>3
  <2>5. ASSUME NEW i \in DOMAIN d
        PROVE  [Header(w, "PUSH") EXCEPT !.sn = d[i].sn, !.frg = d[i].frg, !.data = d[i].data] \in P
    <3> DEFINE s == d[i]
    <3>1. s \in Buffered
      BY <2>3
    <3>2. PICK j \in DOMAIN b : b[j] = s
      BY <2>3
    <3>3. IsFragment(acc, s.sn, s)
      BY <1>5, <3>2 DEF SenderOf
    <3> HIDE DEF s
    <3>4. [Header(w, "PUSH") EXCEPT !.sn = s.sn, !.frg = s.frg, !.data = s.data] \in Honest(SegmentsOf(acc), Had(w))
      BY <1>9, <3>1, <3>3, PushIs
    <3> QED BY <1>17, <3>4 DEF s
  <2> HIDE DEF P
  <2>6. a \in [1 .. Len(d) -> P]
    BY <2>4, <2>5
  <2> HIDE DEF a
  <2>7. a \in Seq(P)
    BY <2>4, <2>6
  <2> QED BY <2>1, <2>7
<1>20. f.next = r /\ f.out \in Seq(P)
  <2> HIDE DEF f, P
  <2>1. Acks(k) \o Probes(w) \o Pushes(w, late) \in Seq(P)
    BY <1>16, <1>18, <1>19
  <2> QED BY <1>1, <2>1
<1> QED BY <1>11, <1>13, <1>14, <1>15, <1>20

-----------------------------------------------------------------------------
(* The invariant.                                                          *)
\* The sender of an end: its messages in a row, the segments they were cut
\* into, and no segment forgotten that the other end has not had.
SenderOK(e) ==
  /\ InARow(taken[e]) /\ SenderOf(kcp[e], taken[e])
  /\ NoneForgotten(kcp[e], Had(kcp[Other(e)]))

\* The messages h were heard: the first ones of acc, and rcv_queue goes on
\* where they end.
HasHeard(h, k, acc) ==
  /\ Len(h) <= Len(acc) /\ Base(k) = EndOf(acc, Len(h))
  /\ \A i \in 1 .. Len(h) : h[i] = Whole(acc[i])

\* The receiver of an end.
ReceiverOK(e) ==
  LET acc == taken[Other(e)]  k == kcp[e] IN
  HoldsOf(k, SegmentsOf(acc)) /\ Acked(k) /\ ~MessageReady(k) /\ HasHeard(heard[e], k, acc)

\* A datagram says what its sender may say.
WireOK ==
  \A d \in datagrams :
     LET o == Other(d.to) IN d.to \in Ends /\ d.segs \in Seq(Honest(SegmentsOf(taken[o]), Had(kcp[o])))

\* What is true of both ends and of the wire.
ArqInv ==
  /\ kcp \in [Ends -> Kcps] /\ said \in [Ends -> Nat]
  /\ taken \in [Ends -> Seq(Accounts)] /\ heard \in [Ends -> Seq(Seq(Data))]
  /\ \A e \in Ends : SenderOK(e) /\ ReceiverOK(e)
  /\ WireOK

\* There are two ends, each the other's other.
LEMMA EndsAre ==
  ASSUME NEW e \in Ends
  PROVE  /\ Other(e) \in Ends /\ Other(e) # e /\ Other(Other(e)) = e
         /\ \A x \in Ends : x = e \/ x = Other(e)
<1>1. PICK a, b \in Ends : a # b /\ Ends = {a, b}
  BY ArqAssumption DEF Ends
<1> HIDE DEF Ends
<1>2. ASSUME NEW x \in Ends PROVE Other(x) \in Ends /\ Other(x) # x
  <2>1. \E o \in Ends : o # x
    BY <1>1
  <2> QED BY <2>1 DEF Other
<1>3. Other(Other(e)) \in Ends /\ Other(Other(e)) # Other(e)
  BY <1>2
<1> QED BY <1>1, <1>2, <1>3

\* What may be said stays so as more has been sent and received.
LEMMA HonestGrows ==
  ASSUME NEW G, NEW F, NEW H, NEW J, G \subseteq F, H \subseteq J, NEW s \in Seq(Honest(G, H))
  PROVE  s \in Seq(Honest(F, J))
<1>1. Honest(G, H) \subseteq Honest(F, J)
  BY DEF Honest
<1> QED BY <1>1, SeqMonotonic

\* A receiver's segments are those of any larger set.
LEMMA HoldsMore ==
  ASSUME NEW k, NEW G, NEW F, G \subseteq F, HoldsOf(k, G)
  PROVE  HoldsOf(k, F)
<1>1. k.rcv_queue \in Seq(F) /\ k.rcv_buf \in Seq(F)
  <2>1. k.rcv_queue \in Seq(G) /\ k.rcv_buf \in Seq(G)
    BY DEF HoldsOf
  <2> QED BY <2>1, SeqMonotonic
<1> QED BY <1>1 DEF HoldsOf

\* A receiver that loses nothing has had all it had.
LEMMA HadGrows == ASSUME NEW k, NEW r, Gains(r, k) PROVE Had(k) \subseteq Had(r)
BY DEF Gains, Had

\* What a sender may forget grows with what the other end has had.
LEMMA ForgetsLess ==
  ASSUME NEW k, NEW H, NEW J, H \subseteq J, NoneForgotten(k, H)
  PROVE  NoneForgotten(k, J)
BY DEF NoneForgotten

\* One more message is taken.
LEMMA TakeOne ==
  ASSUME NEW acc, InARow(acc), NEW id \in Nat, NEW n \in Nat, n >= 1, n <= MaxFragments
  PROVE  LET m == [id |-> id, frags |-> n, first |-> EndOf(acc, Len(acc))]  more == Append(acc, m) IN
         /\ InARow(more) /\ Len(more) = Len(acc) + 1 /\ more[Len(acc) + 1] = m
         /\ EndOf(acc, Len(acc)) \in Nat /\ EndOf(more, Len(more)) = EndOf(acc, Len(acc)) + n
         /\ \A i \in 1 .. Len(acc) : more[i] = acc[i]
         /\ \A i \in 0 .. Len(acc) : EndOf(more, i) = EndOf(acc, i)
         /\ \A sn, f : IsFragment(acc, sn, f) => IsFragment(more, sn, f)
         /\ SegmentsOf(acc) \subseteq SegmentsOf(more)
<1> DEFINE x == EndOf(acc, Len(acc))  m == [id |-> id, frags |-> n, first |-> x]
           l == Len(acc)  more == Append(acc, m)
<1>1. acc \in Seq(Accounts) /\ l \in Nat
  BY DEF InARow
<1>2. x \in Nat
  BY <1>1, EndOfIs
<1> HIDE DEF x
<1>3. m \in Accounts /\ m.frags = n /\ m.first = x
  BY <1>2 DEF Accounts
<1> HIDE DEF m
<1>4. /\ more \in Seq(Accounts) /\ Len(more) = l + 1 /\ more[l + 1] = m
      /\ \A i \in 1 .. l : more[i] = acc[i]
  BY <1>1, <1>3
<1> HIDE DEF more, l
<1>5. ASSUME NEW i \in 0 .. l PROVE EndOf(more, i) = EndOf(acc, i)
  <2>1. CASE i = 0
    BY <2>1 DEF EndOf
  <2>2. CASE i # 0
    <3>1. i \in 1 .. l
      BY <1>1, <2>2
    <3> QED BY <1>4, <2>2, <3>1 DEF EndOf
  <2> QED BY <2>1, <2>2
<1>6. EndOf(more, l + 1) = x + n
  <2>1. l + 1 # 0
    BY <1>1
  <2> QED BY <1>3, <1>4, <2>1 DEF EndOf
<1>7. \A i \in 1 .. l : /\ acc[i].frags >= 1 /\ acc[i].frags <= MaxFragments
                        /\ acc[i].first = EndOf(acc, i - 1)
                        /\ acc[i].first \in Nat /\ acc[i].frags \in Nat
  <2>1. \A i \in 1 .. l : acc[i] \in Accounts
    BY <1>1 DEF l
  <2> QED BY <2>1 DEF InARow, Accounts, l
<1>8. ASSUME NEW i \in 1 .. l + 1
      PROVE  /\ more[i].frags >= 1 /\ more[i].frags <= MaxFragments
             /\ more[i].first = EndOf(more, i - 1)
  <2>1. CASE i = l + 1
    <3>1. i - 1 = l /\ l \in 0 .. l
      BY <1>1, <2>1
    <3>2. EndOf(more, i - 1) = x
      BY <1>5, <3>1 DEF x, l
    <3> QED BY <1>3, <1>4, <2>1, <3>2
  <2>2. CASE i # l + 1
    <3>1. i \in 1 .. l /\ i - 1 \in 0 .. l
      BY <1>1, <2>2
    <3> QED BY <1>4, <1>5, <1>7, <3>1
  <2> QED BY <2>1, <2>2
<1>9. ASSUME NEW i \in 1 .. l PROVE acc[i].first + acc[i].frags <= x
  <2>1. l # 0 /\ l \in 1 .. l
    BY <1>1
  <2>2. x = acc[l].first + acc[l].frags
    BY <2>1 DEF x, l, EndOf
  <2>3. CASE i = l
    BY <1>7, <2>2, <2>3
  <2>4. CASE i # l
    <3>1. i < l
      BY <1>1, <2>4
    <3>2. acc[i].first + acc[i].frags <= acc[l].first
      BY <2>1, <3>1 DEF InARow, l
    <3> QED BY <1>7, <2>1, <2>2, <3>2
  <2> QED BY <2>3, <2>4
<1>10. ASSUME NEW i \in 1 .. l + 1, NEW j \in 1 .. l + 1, i < j
       PROVE  more[i].first + more[i].frags <= more[j].first
  <2>1. i \in 1 .. l
    BY <1>1, <1>10
  <2>2. CASE j = l + 1
    BY <1>3, <1>4, <1>9, <2>1, <2>2
  <2>3. CASE j # l + 1
    <3>1. j \in 1 .. l
      BY <1>1, <2>3
    <3>2. acc[i].first + acc[i].frags <= acc[j].first
      BY <1>10, <2>1, <3>1 DEF InARow, l
    <3> QED BY <1>4, <2>1, <3>1, <3>2
  <2> QED BY <2>2, <2>3
<1>11. InARow(more)
  BY <1>4, <1>8, <1>10 DEF InARow
<1>12. ASSUME NEW sn, NEW f, IsFragment(acc, sn, f) PROVE IsFragment(more, sn, f)
  <2>1. PICK i \in 1 .. l : FragmentOf(acc[i], sn, f)
    BY <1>12 DEF IsFragment, l
  <2>2. i \in 1 .. Len(more) /\ more[i] = acc[i]
    BY <1>1, <1>4
  <2> QED BY <2>1, <2>2 DEF IsFragment
<1>13. SegmentsOf(acc) \subseteq SegmentsOf(more)
  BY <1>12 DEF SegmentsOf
<1> QED BY <1>2, <1>4, <1>5, <1>6, <1>11, <1>12, <1>13 DEF more, m, l, x

\* One end has received or flushed.
LEMMA ArqMoves ==
  ASSUME ArqInv, NEW e \in Ends, NEW r, NEW h, said' = said, taken' = taken,
         kcp' = [kcp EXCEPT ![e] = r], heard' = [heard EXCEPT ![e] = h],
         HoldsOf(r, SegmentsOf(taken[Other(e)])), Acked(r), ~MessageReady(r), Gains(r, kcp[e]),
         SenderOf(r, taken[e]), NoneForgotten(r, Had(kcp[Other(e)])),
         h \in Seq(Seq(Data)), HasHeard(h, r, taken[Other(e)]),
         \A d \in datagrams' : \/ d \in datagrams
                               \/ d.to = Other(e) /\ d.segs \in Seq(Honest(SegmentsOf(taken[e]), Had(kcp[e])))
  PROVE  ArqInv'
<1> DEFINE o == Other(e)
<1>1. o \in Ends /\ o # e /\ Other(o) = e /\ \A x \in Ends : x = e \/ x = o
  BY EndsAre
<1> HIDE DEF o
<1>2. /\ kcp' \in [Ends -> Kcps] /\ said' \in [Ends -> Nat]
      /\ taken' \in [Ends -> Seq(Accounts)] /\ heard' \in [Ends -> Seq(Seq(Data))]
  <2>1. r \in Kcps
    BY DEF HoldsOf
  <2> QED BY <2>1 DEF ArqInv
<1>3. kcp'[e] = r /\ kcp'[o] = kcp[o] /\ heard'[e] = h /\ heard'[o] = heard[o] /\ o = Other(e)
  BY <1>1 DEF ArqInv, o
<1>4. Had(kcp[e]) \subseteq Had(r)
  BY HadGrows
<1>5. SenderOK(e)'
  <2>1. InARow(taken[e])
    BY DEF ArqInv, SenderOK
  <2>2. NoneForgotten(r, Had(kcp[o]))
    BY DEF o
  <2> QED BY <1>3, <2>1, <2>2 DEF SenderOK
<1>6. SenderOK(o)'
  <2>1. InARow(taken[o]) /\ SenderOf(kcp[o], taken[o]) /\ NoneForgotten(kcp[o], Had(kcp[e]))
    BY <1>1 DEF ArqInv, SenderOK
  <2>2. NoneForgotten(kcp[o], Had(r))
    BY <1>4, <2>1, ForgetsLess
  <2> QED BY <1>1, <1>3, <2>1, <2>2 DEF SenderOK
<1>7. ReceiverOK(e)'
  <2>1. HoldsOf(r, SegmentsOf(taken[o])) /\ HasHeard(h, r, taken[o])
    BY DEF o
  <2> QED BY <1>3, <2>1 DEF ReceiverOK
<1>8. ReceiverOK(o)'
  <2>1. ReceiverOK(o)
    BY <1>1 DEF ArqInv
  <2> QED BY <1>1, <1>3, <2>1 DEF ReceiverOK
<1>9. WireOK'
  <2>1. ASSUME NEW d \in datagrams'
        PROVE  d.to \in Ends /\ d.segs \in Seq(Honest(SegmentsOf(taken[Other(d.to)]), Had(kcp'[Other(d.to)])))
    <3>1. CASE d \in datagrams
      <4> DEFINE s == Other(d.to)
      <4>1. d.to \in Ends /\ d.segs \in Seq(Honest(SegmentsOf(taken[s]), Had(kcp[s])))
        BY <3>1 DEF ArqInv, WireOK
      <4>2. s \in Ends
        BY <4>1, EndsAre
      <4> HIDE DEF s
      <4>3. Had(kcp[s]) \subseteq Had(kcp'[s])
        <5>1. CASE s = e
          BY <1>3, <1>4, <5>1
        <5>2. CASE s = o
          BY <1>3, <5>2
        <5> QED BY <1>1, <4>2, <5>1, <5>2
      <4>4. d.segs \in Seq(Honest(SegmentsOf(taken[s]), Had(kcp'[s])))
        BY <4>1, <4>3, HonestGrows
      <4> QED BY <4>1, <4>4 DEF s
    <3>2. CASE d.to = o /\ d.segs \in Seq(Honest(SegmentsOf(taken[e]), Had(kcp[e])))
      <4>1. d.segs \in Seq(Honest(SegmentsOf(taken[e]), Had(r)))
        BY <1>4, <3>2, HonestGrows
      <4> QED BY <1>1, <1>3, <3>2, <4>1
    <3> QED BY <3>1, <3>2 DEF o
  <2> QED BY <2>1 DEF WireOK
<1>10. \A x \in Ends : SenderOK(x)' /\ ReceiverOK(x)'
  <2> QED BY <1>1, <1>5, <1>6, <1>7, <1>8
<1> QED BY <1>2, <1>9, <1>10 DEF ArqInv

\* drain_send_q(): a message is taken and cut into fragments.
LEMMA DrainSendQKeeps ==
  ASSUME ArqInv, NEW e \in Ends, DrainSendQ(e)
  PROVE  ArqInv'
<1> DEFINE o == Other(e)  id == said[e] + 1  n == Messages[e][id]  k == kcp[e]  acc == taken[e]
           m == [id |-> id, frags |-> n, first |-> EndOf(acc, Len(acc))]  more == Append(acc, m)
           r == SendMessage(k, id, n)
<1>1. o \in Ends /\ o # e /\ Other(o) = e /\ \A x \in Ends : x = e \/ x = o
  BY EndsAre
<1>2. /\ said \in [Ends -> Nat] /\ kcp \in [Ends -> Kcps] /\ k \in Kcps
      /\ taken \in [Ends -> Seq(Accounts)] /\ heard \in [Ends -> Seq(Seq(Data))]
      /\ said[e] < Len(Messages[e]) /\ said' = [said EXCEPT ![e] = id]
      /\ datagrams' = datagrams /\ heard' = heard
      /\ IF n > MaxFragments THEN kcp' = kcp /\ taken' = taken
         ELSE kcp' = [kcp EXCEPT ![e] = r] /\ taken' = [taken EXCEPT ![e] = more]
  BY DEF ArqInv, DrainSendQ
<1>3. id \in Nat /\ n \in Nat /\ n >= 1 /\ MaxFragments \in Nat
  <2>1. Messages[e] \in Seq(Nat \ {0}) /\ MaxFragments \in Nat
    BY ArqAssumption DEF Ends
  <2>2. said[e] \in Nat
    BY <1>2
  <2>3. id \in 1 .. Len(Messages[e])
    BY <1>2, <2>1, <2>2
  <2> QED BY <2>1, <2>3
<1>4. said' \in [Ends -> Nat]
  BY <1>2, <1>3
<1>5. CASE n > MaxFragments
  <2>1. kcp' = kcp /\ taken' = taken /\ heard' = heard /\ datagrams' = datagrams
    BY <1>2, <1>5
  <2>2. \A x \in Ends : SenderOK(x)' /\ ReceiverOK(x)'
    BY <2>1 DEF ArqInv, SenderOK, ReceiverOK
  <2>3. WireOK'
    BY <2>1 DEF ArqInv, WireOK
  <2> QED BY <1>4, <2>1, <2>2, <2>3 DEF ArqInv
<1>6. CASE ~(n > MaxFragments)
  <2>1. kcp' = [kcp EXCEPT ![e] = r] /\ taken' = [taken EXCEPT ![e] = more] /\ n <= MaxFragments
    BY <1>2, <1>3, <1>6
  <2>2. InARow(acc) /\ SenderOf(k, acc) /\ NoneForgotten(k, Had(kcp[o]))
    BY DEF ArqInv, SenderOK
  <2> DEFINE x == EndOf(acc, Len(acc))
  <2> HIDE DEF n, id, k, acc, r, o
  <2>3. /\ InARow(more) /\ Len(more) = Len(acc) + 1 /\ more[Len(acc) + 1] = m
        /\ x \in Nat /\ EndOf(more, Len(more)) = x + n
        /\ \A i \in 1 .. Len(acc) : more[i] = acc[i]
        /\ \A i \in 0 .. Len(acc) : EndOf(more, i) = EndOf(acc, i)
        /\ \A sn, f : IsFragment(acc, sn, f) => IsFragment(more, sn, f)
        /\ SegmentsOf(acc) \subseteq SegmentsOf(more)
    BY <1>3, <2>1, <2>2, TakeOne
  <2>4. m.id = id /\ m.frags = n /\ m.first = x
    OBVIOUS
  <2> HIDE DEF m, more, x
  <2> DEFINE q == k.snd_queue  new == Fragments(id, n)  all == q \o new
  <2>5. q \in Seq(Queued) /\ k.snd_nxt \in Nat /\ Len(q) \in Nat /\ Len(acc) \in Nat
        /\ k.snd_nxt + Len(q) = x
    <3>1. q \in Seq(Queued) /\ k.snd_nxt \in Nat
      BY <1>2 DEF Kcps
    <3>2. acc \in Seq(Accounts)
      BY <2>2 DEF InARow
    <3>3. k.snd_nxt + Len(q) = x
      BY <2>2 DEF SenderOf, x
    <3> QED BY <3>1, <3>2, <3>3
  <2>6. \A i \in 1 .. n : new[i] = [frg |-> n - i, data |-> <<id, i>>]
    BY DEF Fragments
  <2>7. new \in Seq(Queued) /\ Len(new) = n
    <3>1. ASSUME NEW i \in 1 .. n PROVE new[i] \in Queued
      <4>1. n - i \in Nat /\ i \in Nat
        BY <1>3
      <4>2. <<id, i>> \in Data
        BY <1>3, <4>1 DEF Data
      <4>3. new[i] = [frg |-> n - i, data |-> <<id, i>>]
        BY <2>6
      <4> HIDE DEF new
      <4> QED BY <4>1, <4>2, <4>3 DEF Queued
    <3>2. new = [i \in 1 .. n |-> new[i]]
      BY DEF Fragments
    <3> HIDE DEF new
    <3> QED BY <1>3, <3>1, <3>2
  <2> HIDE DEF new, q
  <2>8. /\ all \in Seq(Queued) /\ Len(all) = Len(q) + n
        /\ \A i \in 1 .. Len(q) : all[i] = q[i]
        /\ \A i \in 1 .. n : all[Len(q) + i] = new[i]
    BY <1>3, <2>5, <2>7
  <2> HIDE DEF all
  <2>9. r = [k EXCEPT !.snd_queue = all]
    BY DEF r, SendMessage, all, new, q
  <2>10. /\ r \in Kcps /\ SameReceiver(r, k) /\ r.snd_queue = all /\ r.snd_nxt = k.snd_nxt
         /\ r.snd_buf = k.snd_buf
    BY <1>2, <2>8, <2>9 DEF Kcps, SameReceiver
  <2>11. SenderOf(r, more)
    <3>1. r.snd_nxt + Len(r.snd_queue) = EndOf(more, Len(more))
      <4>1. k.snd_nxt + (Len(q) + n) = x + n
        BY <1>3, <2>5
      <4> QED BY <2>3, <2>8, <2>10, <4>1
    <3>2. ASSUME NEW i \in 1 .. Len(all) PROVE IsFragment(more, k.snd_nxt + i - 1, all[i])
      <4>1. CASE i \in 1 .. Len(q)
        <5>1. IsFragment(acc, k.snd_nxt + i - 1, q[i])
          BY <2>2, <4>1 DEF SenderOf, q
        <5> QED BY <2>3, <2>8, <4>1, <5>1
      <4>2. CASE i \notin 1 .. Len(q)
        <5> DEFINE j == i - Len(q)  sn == k.snd_nxt + i - 1
        <5>1. j \in 1 .. n /\ i = Len(q) + j
          BY <1>3, <2>5, <2>8, <4>2
        <5>2. sn = x + j - 1
          BY <1>3, <2>5, <5>1
        <5> HIDE DEF j, sn
        <5>3. all[i].frg = n - j /\ all[i].data = <<id, j>>
          <6>1. all[i] = new[j]
            BY <2>8, <5>1
          <6>2. new[j] = [frg |-> n - j, data |-> <<id, j>>]
            BY <2>6, <5>1
          <6> QED BY <6>1, <6>2
        <5>4. /\ x <= sn /\ sn < x + n /\ sn - x + 1 = j /\ x + n - 1 - sn = n - j
          BY <1>3, <2>3, <5>1, <5>2
        <5>5. FragmentOf(m, sn, all[i])
          BY <2>4, <5>3, <5>4 DEF FragmentOf
        <5>6. Len(acc) + 1 \in 1 .. Len(more)
          BY <2>3, <2>5
        <5> QED BY <2>3, <5>5, <5>6 DEF IsFragment, sn
      <4> QED BY <4>1, <4>2
    <3>3. \A i \in DOMAIN r.snd_buf : IsFragment(more, r.snd_buf[i].sn, r.snd_buf[i])
      BY <2>2, <2>3, <2>10 DEF SenderOf
    <3> QED BY <2>10, <3>1, <3>2, <3>3 DEF SenderOf
  <2>12. Had(r) = Had(k)
    BY <2>10 DEF Had, HasCome, SameReceiver
  <2>13. /\ kcp'[e] = r /\ kcp'[o] = kcp[o] /\ taken'[e] = more /\ taken'[o] = taken[o]
         /\ kcp[e] = k /\ taken[e] = acc /\ Other(e) = o /\ Other(o) = e
    BY <1>1, <1>2, <2>1 DEF k, acc, o
  <2>14. SenderOK(e)'
    <3>1. NoneForgotten(r, Had(kcp[o]))
      BY <2>2, <2>10 DEF NoneForgotten
    <3> QED BY <2>3, <2>11, <2>13, <3>1 DEF SenderOK
  <2>15. SenderOK(o)'
    <3>1. SenderOK(o)
      BY <1>1 DEF ArqInv
    <3> QED BY <2>12, <2>13, <3>1 DEF SenderOK
  <2>16. ReceiverOK(e)'
    <3>1. HoldsOf(k, SegmentsOf(taken[o])) /\ Acked(k) /\ ~MessageReady(k) /\ HasHeard(heard[e], k, taken[o])
      BY <2>13 DEF ArqInv, ReceiverOK
    <3>2. HoldsOf(r, SegmentsOf(taken[o]))
      BY <1>2, <2>10, <3>1, SameReceiverFollows
    <3>3. Acked(r) /\ ~MessageReady(r) /\ Base(r) = Base(k)
      BY <2>10, <3>1 DEF SameReceiver, Acked, HasCome, MessageReady, Base, InQueue
    <3>4. HasHeard(heard[e], r, taken[o])
      BY <3>1, <3>3 DEF HasHeard
    <3> QED BY <1>2, <2>13, <3>2, <3>3, <3>4 DEF ReceiverOK
  <2>17. ReceiverOK(o)'
    <3>1. HoldsOf(kcp[o], SegmentsOf(acc)) /\ Acked(kcp[o]) /\ ~MessageReady(kcp[o]) /\ HasHeard(heard[o], kcp[o], acc)
      BY <1>1, <2>13 DEF ArqInv, ReceiverOK
    <3>2. HoldsOf(kcp[o], SegmentsOf(more))
      BY <2>3, <3>1, HoldsMore
    <3>3. HasHeard(heard[o], kcp[o], more)
      <4>1. heard[o] \in Seq(Seq(Data))
        BY <1>1, <1>2
      <4>2. Len(heard[o]) \in Nat /\ Len(heard[o]) <= Len(acc)
        BY <3>1, <4>1 DEF HasHeard
      <4>3. Len(heard[o]) <= Len(more) /\ Len(heard[o]) \in 0 .. Len(acc)
        BY <2>3, <2>5, <4>2
      <4>4. ASSUME NEW i \in 1 .. Len(heard[o]) PROVE heard[o][i] = Whole(more[i])
        <5>1. i \in 1 .. Len(acc)
          BY <2>5, <4>2
        <5> QED BY <2>3, <3>1, <5>1 DEF HasHeard
      <4> QED BY <2>3, <3>1, <4>3, <4>4 DEF HasHeard
    <3> QED BY <1>2, <2>13, <3>1, <3>2, <3>3 DEF ReceiverOK
  <2>18. WireOK'
    <3>1. ASSUME NEW d \in datagrams
          PROVE  d.to \in Ends /\ d.segs \in Seq(Honest(SegmentsOf(taken'[Other(d.to)]), Had(kcp'[Other(d.to)])))
      <4> DEFINE s == Other(d.to)
      <4>1. d.to \in Ends /\ d.segs \in Seq(Honest(SegmentsOf(taken[s]), Had(kcp[s])))
        BY DEF ArqInv, WireOK
      <4>2. s \in Ends
        BY <4>1, EndsAre
      <4> HIDE DEF s
      <4>3. Had(kcp[s]) \subseteq Had(kcp'[s]) /\ SegmentsOf(taken[s]) \subseteq SegmentsOf(taken'[s])
        <5>1. CASE s = e
          BY <2>3, <2>12, <2>13, <5>1
        <5>2. CASE s = o
          BY <2>13, <5>2
        <5> QED BY <1>1, <4>2, <5>1, <5>2 DEF o
      <4>4. d.segs \in Seq(Honest(SegmentsOf(taken'[s]), Had(kcp'[s])))
        BY <4>1, <4>3, HonestGrows
      <4> QED BY <4>1, <4>4 DEF s
    <3> QED BY <1>2, <3>1 DEF WireOK
  <2>19. \A y \in Ends : SenderOK(y)' /\ ReceiverOK(y)'
    BY <1>1, <2>14, <2>15, <2>16, <2>17 DEF o
  <2>20. kcp' \in [Ends -> Kcps] /\ taken' \in [Ends -> Seq(Accounts)] /\ heard' \in [Ends -> Seq(Seq(Data))]
    <3>1. more \in Seq(Accounts)
      BY <2>3 DEF InARow
    <3> QED BY <1>2, <2>1, <2>10, <3>1
  <2> QED BY <1>4, <2>18, <2>19, <2>20 DEF ArqInv
<1> QED BY <1>5, <1>6

\* A datagram comes: input, then the messages that are whole are heard.
LEMMA OnDatagramKeeps ==
  ASSUME ArqInv, NEW e \in Ends, OnDatagram(e)
  PROVE  ArqInv'
<1> DEFINE o == Other(e)  k == kcp[e]  acc == taken[o]  H == Had(kcp[o])
<1>1. PICK d \in datagrams :
        /\ d.to = e
        /\ LET r == DeliverReceived(Input(kcp[e], d.segs)) IN
           /\ kcp' = [kcp EXCEPT ![e] = r.kcp]
           /\ heard' = [heard EXCEPT ![e] = @ \o
                           [i \in DOMAIN r.msgs |->
                              [j \in DOMAIN r.msgs[i] |-> r.msgs[i][j].data]]]
        /\ datagrams' = datagrams /\ said' = said /\ taken' = taken
  BY DEF OnDatagram
<1> DEFINE p == Input(k, d.segs)  r == DeliverReceived(p)  msgs == r.msgs
           new == [i \in DOMAIN msgs |-> Datas(msgs[i])]  h == heard[e] \o new  n == Len(heard[e])
<1>2. /\ kcp' = [kcp EXCEPT ![e] = r.kcp] /\ heard' = [heard EXCEPT ![e] = h]
      /\ datagrams' = datagrams /\ said' = said /\ taken' = taken
  BY <1>1 DEF Datas, ArqInv
<1>3. o \in Ends /\ InARow(acc) /\ heard[e] \in Seq(Seq(Data)) /\ k \in Kcps /\ n \in Nat
  BY EndsAre DEF ArqInv, SenderOK
<1>4. /\ HoldsOf(k, SegmentsOf(acc)) /\ Acked(k) /\ HasHeard(heard[e], k, acc)
      /\ InARow(taken[e]) /\ SenderOf(k, taken[e]) /\ NoneForgotten(k, H)
  BY DEF ArqInv, ReceiverOK, SenderOK
<1>5. d.segs \in Seq(Honest(SegmentsOf(acc), H))
  BY <1>1 DEF ArqInv, WireOK
<1>6. SegmentsOf(acc) \subseteq Arrivals
  BY DEF SegmentsOf
<1> DEFINE G == SegmentsOf(acc)
<1> HIDE DEF H, k, acc, o, G, p, r
<1>7. HoldsOf(p, G) /\ Acked(p) /\ SenderFollows(p, k, H) /\ ReceiverFollows(p, k)
  BY <1>4, <1>5, <1>6, InputIs DEF p, G
<1>8. SenderOf(p, taken[e]) /\ NoneForgotten(p, H)
  BY <1>4, <1>7, AnsweredIs
<1>9. n \in 0 .. Len(acc) /\ Base(p) = EndOf(acc, n)
  <2>1. n <= Len(acc) /\ Base(k) = EndOf(acc, n)
    BY <1>4 DEF HasHeard
  <2>2. acc \in Seq(Accounts)
    BY <1>3 DEF InARow
  <2> QED BY <1>3, <1>7, <2>1, <2>2 DEF ReceiverFollows
<1>10. HasDelivered(r, p, acc, n) /\ ~MessageReady(r.kcp)
  <2> HIDE DEF n
  <2> QED BY <1>3, <1>7, <1>9, DeliverReceivedIs DEF r, G
<1>11. /\ HoldsOf(r.kcp, G) /\ SameSender(r.kcp, p) /\ r.kcp.acklist = p.acklist /\ Gains(r.kcp, p)
       /\ msgs \in Seq(Seq(Arrivals)) /\ n + Len(msgs) <= Len(acc)
       /\ Base(r.kcp) = EndOf(acc, n + Len(msgs))
       /\ \A m \in 1 .. Len(msgs) : Datas(msgs[m]) = Whole(acc[n + m])
  BY <1>10 DEF HasDelivered, G
<1>12. SenderOf(r.kcp, taken[e]) /\ NoneForgotten(r.kcp, H)
  BY <1>8, <1>11 DEF SameSender, SenderOf, NoneForgotten
<1>13. Acked(r.kcp)
  <2>1. ASSUME NEW i \in DOMAIN r.kcp.acklist PROVE HasCome(r.kcp, r.kcp.acklist[i])
    <3>1. p.acklist \in Seq(Nat) /\ i \in DOMAIN p.acklist /\ r.kcp.acklist[i] = p.acklist[i]
      BY <1>7, <1>11 DEF HoldsOf, Kcps
    <3>2. p.acklist[i] \in Nat /\ HasCome(p, p.acklist[i])
      BY <1>7, <3>1 DEF Acked
    <3> QED BY <1>11, <3>1, <3>2 DEF Gains
  <2> QED BY <2>1 DEF Acked
<1>14. Gains(r.kcp, k)
  <2>1. r.kcp.rcv_nxt \in Nat /\ p.rcv_nxt \in Nat /\ k.rcv_nxt \in Nat
    BY <1>3, <1>7, <1>11 DEF HoldsOf, Kcps
  <2>2. k.rcv_nxt <= p.rcv_nxt /\ p.rcv_nxt <= r.kcp.rcv_nxt
    BY <1>7, <1>11 DEF Gains, ReceiverFollows
  <2>3. k.rcv_nxt <= r.kcp.rcv_nxt
    BY <2>1, <2>2
  <2> QED BY <1>7, <1>11, <2>3 DEF Gains, ReceiverFollows
<1> HIDE DEF msgs
<1>15. new \in Seq(Seq(Data)) /\ Len(new) = Len(msgs) /\ \A i \in 1 .. Len(msgs) : new[i] = Datas(msgs[i])
  <2>1. DOMAIN msgs = 1 .. Len(msgs) /\ Len(msgs) \in Nat
    BY <1>11
  <2>2. ASSUME NEW i \in 1 .. Len(msgs) PROVE Datas(msgs[i]) \in Seq(Data)
    <3> DEFINE m == msgs[i]
    <3>1. m \in Seq(Arrivals)
      BY <1>11
    <3> HIDE DEF m
    <3>2. DOMAIN m = 1 .. Len(m) /\ Len(m) \in Nat
      BY <3>1
    <3>3. \A j \in DOMAIN m : m[j].data \in Data
      <4>1. \A j \in DOMAIN m : m[j] \in Arrivals
        BY <3>1
      <4> QED BY <4>1 DEF Arrivals
    <3>4. Datas(m) \in [1 .. Len(m) -> Data]
      BY <3>2, <3>3 DEF Datas
    <3>5. Datas(m) \in Seq(Data)
      BY <3>2, <3>4
    <3> QED BY <3>5 DEF m
  <2>3. new \in [1 .. Len(msgs) -> Seq(Data)] /\ \A i \in 1 .. Len(msgs) : new[i] = Datas(msgs[i])
    BY <2>1, <2>2
  <2> HIDE DEF new
  <2> QED BY <2>1, <2>3
<1> HIDE DEF new
<1>16. /\ h \in Seq(Seq(Data)) /\ Len(h) = n + Len(msgs)
       /\ \A i \in 1 .. n : h[i] = heard[e][i]
       /\ \A i \in 1 .. Len(msgs) : h[n + i] = new[i]
       /\ Len(msgs) \in Nat
  <2>1. h \in Seq(Seq(Data)) /\ Len(h) = n + Len(new) /\ Len(new) \in Nat
    <3> DEFINE S == Seq(Data)  s1 == heard[e]
    <3>1. s1 \in Seq(S) /\ new \in Seq(S)
      BY <1>3, <1>15
    <3> HIDE DEF S, s1
    <3>2. s1 \o new \in Seq(S) /\ Len(s1 \o new) = Len(s1) + Len(new)
      BY <3>1, ConcatProperties
    <3>3. Len(new) \in Nat
      BY <3>1
    <3> QED BY <3>2, <3>3 DEF S, s1
  <2>2. \A i \in 1 .. n : h[i] = heard[e][i]
    BY <1>3, <1>15
  <2>3. \A i \in 1 .. Len(new) : h[n + i] = new[i]
    BY <1>3, <1>15
  <2> QED BY <1>15, <2>1, <2>2, <2>3
<1>17. HasHeard(h, r.kcp, acc)
  <2>1. ASSUME NEW i \in 1 .. Len(h) PROVE h[i] = Whole(acc[i])
    <3>1. CASE i \in 1 .. n
      BY <1>4, <1>16, <3>1 DEF HasHeard
    <3>2. CASE i \notin 1 .. n
      <4> DEFINE j == i - n
      <4>1. j \in 1 .. Len(msgs) /\ i = n + j
        <5> HIDE DEF h, n
        <5> QED BY <1>3, <1>16, <3>2
      <4> HIDE DEF j
      <4> QED BY <1>11, <1>15, <1>16, <4>1
    <3> QED BY <3>1, <3>2
  <2> QED BY <1>11, <1>16, <2>1 DEF HasHeard
<1> HIDE DEF h
<1> QED BY <1>2, <1>3, <1>10, <1>11, <1>12, <1>13, <1>14, <1>16, <1>17, ArqMoves DEF k, H, acc, o, G

\* ikcp_update() flushes, and what it sends may be said.
LEMMA UpdateKeeps ==
  ASSUME ArqInv, NEW e \in Ends, Update(e)
  PROVE  ArqInv'
<1> DEFINE o == Other(e)  k == kcp[e]  acc == taken[o]
<1>1. PICK late \in SUBSET {k.snd_buf[i].sn : i \in DOMAIN k.snd_buf}, due \in BOOLEAN :
        LET f == Flushed(k, late, due)
            sent == datagrams \cup {[to |-> o, segs |-> f.out]} IN
        /\ kcp' = [kcp EXCEPT ![e] = f.next]
        /\ datagrams' = IF f.out = <<>> \/ Cardinality(sent) > ArqWireRoom THEN datagrams ELSE sent
        /\ said' = said /\ taken' = taken /\ heard' = heard
  BY DEF Update
<1> DEFINE f == Flushed(k, late, due)  r == f.next
<1>2. /\ kcp' = [kcp EXCEPT ![e] = r] /\ said' = said /\ taken' = taken /\ heard' = heard
      /\ \A d \in datagrams' : d \in datagrams \/ d = [to |-> o, segs |-> f.out]
  BY <1>1
<1>3. o \in Ends /\ heard \in [Ends -> Seq(Seq(Data))] /\ k \in Kcps
  BY EndsAre DEF ArqInv
<1>4. /\ HoldsOf(k, SegmentsOf(acc)) /\ Acked(k) /\ ~MessageReady(k) /\ HasHeard(heard[e], k, acc)
      /\ SenderOf(k, taken[e]) /\ NoneForgotten(k, Had(kcp[o]))
  BY DEF ArqInv, ReceiverOK, SenderOK
<1> HIDE DEF k, o, acc
<1>5. /\ HoldsOf(r, SegmentsOf(acc)) /\ Acked(r) /\ SenderOf(r, taken[e]) /\ NoneForgotten(r, Had(kcp[o]))
      /\ ReceiverFollows(r, k) /\ r.rcv_queue = k.rcv_queue
      /\ f.out \in Seq(Honest(SegmentsOf(taken[e]), Had(k)))
  BY <1>1, <1>4, FlushedIs
<1> HIDE DEF f, r
<1>6. ~MessageReady(r) /\ Gains(r, k) /\ HasHeard(heard[e], r, acc)
  BY <1>4, <1>5 DEF MessageReady, ReceiverFollows, Gains, HasHeard
<1>7. heard' = [heard EXCEPT ![e] = heard[e]] /\ heard[e] \in Seq(Seq(Data))
  BY <1>2, <1>3
<1>8. ASSUME NEW d \in datagrams'
      PROVE  d \in datagrams \/ (d.to = o /\ d.segs \in Seq(Honest(SegmentsOf(taken[e]), Had(k))))
  BY <1>2, <1>5
<1> QED BY <1>2, <1>5, <1>6, <1>7, <1>8, ArqMoves DEF k, o, acc

\* Every step keeps the invariant.
LEMMA ArqStep == ASSUME ArqInv, [ArqNext]_arqvars PROVE ArqInv'
<1>1. ASSUME NEW e \in Ends, DrainSendQ(e) \/ OnDatagram(e) \/ Update(e) PROVE ArqInv'
  BY <1>1, DrainSendQKeeps, OnDatagramKeeps, UpdateKeeps
<1>2. CASE LoseDatagram
  <2>1. kcp' = kcp /\ said' = said /\ taken' = taken /\ heard' = heard /\ datagrams' \subseteq datagrams
    BY <1>2 DEF LoseDatagram
  <2>2. \A e \in Ends : SenderOK(e)' /\ ReceiverOK(e)'
    BY <2>1 DEF ArqInv, SenderOK, ReceiverOK
  <2>3. WireOK'
    BY <2>1 DEF ArqInv, WireOK
  <2> QED BY <2>1, <2>2, <2>3 DEF ArqInv
<1>3. CASE UNCHANGED arqvars
  <2>1. kcp' = kcp /\ said' = said /\ taken' = taken /\ heard' = heard /\ datagrams' = datagrams
    BY <1>3 DEF arqvars
  <2>2. \A e \in Ends : SenderOK(e)' /\ ReceiverOK(e)'
    BY <2>1 DEF ArqInv, SenderOK, ReceiverOK
  <2>3. WireOK'
    BY <2>1 DEF ArqInv, WireOK
  <2> QED BY <2>1, <2>2, <2>3 DEF ArqInv
<1> QED BY <1>1, <1>2, <1>3 DEF ArqNext

\* The new control blocks satisfy it.
LEMMA ArqStarts == ASSUME ArqInit PROVE ArqInv
<1>1. NewKcp \in Kcps
  <2>1. RcvWnd \in Nat
    BY ArqAssumption
  <2>2. <<>> \in Seq(Queued) /\ <<>> \in Seq(Buffered) /\ <<>> \in Seq(Arrivals) /\ <<>> \in Seq(Nat)
    OBVIOUS
  <2> QED BY <2>1, <2>2 DEF NewKcp, Kcps
<1>2. /\ NewKcp.rcv_queue = <<>> /\ NewKcp.rcv_buf = <<>> /\ NewKcp.acklist = <<>> /\ NewKcp.rcv_nxt = 0
      /\ NewKcp.snd_nxt = 0 /\ NewKcp.snd_queue = <<>> /\ NewKcp.snd_buf = <<>>
  BY DEF NewKcp
<1>3. InARow(<<>>) /\ EndOf(<<>>, Len(<<>>)) = 0
  <2>1. <<>> \in Seq(Accounts) /\ Len(<<>>) = 0
    OBVIOUS
  <2> QED BY <2>1 DEF InARow, EndOf
<1>4. InQueue(NewKcp) = 0 /\ Base(NewKcp) = 0
  <2>1. Len(NewKcp.rcv_queue) = 0
    BY <1>2
  <2>2. InQueue(NewKcp) = 0
    BY <2>1 DEF InQueue
  <2> QED BY <1>2, <2>2 DEF Base
<1>5. HoldsOf(NewKcp, SegmentsOf(<<>>)) /\ Acked(NewKcp) /\ ~MessageReady(NewKcp) /\ HasHeard(<<>>, NewKcp, <<>>)
  <2>1. HoldsOf(NewKcp, SegmentsOf(<<>>))
    <3>1. <<>> \in Seq(SegmentsOf(<<>>))
      OBVIOUS
    <3> QED BY <1>1, <1>2, <1>4, <3>1 DEF HoldsOf
  <2>2. HasHeard(<<>>, NewKcp, <<>>)
    BY <1>3, <1>4 DEF HasHeard
  <2> QED BY <1>2, <2>1, <2>2 DEF Acked, MessageReady
<1>6. SenderOf(NewKcp, <<>>) /\ NoneForgotten(NewKcp, Had(NewKcp))
  BY <1>2, <1>3 DEF SenderOf, NoneForgotten
<1>7. /\ \A e \in Ends : kcp[e] = NewKcp /\ said[e] = 0 /\ taken[e] = <<>> /\ heard[e] = <<>>
      /\ datagrams = {}
  BY DEF ArqInit
<1>8. \A e \in Ends : SenderOK(e) /\ ReceiverOK(e)
  BY <1>3, <1>5, <1>6, <1>7, EndsAre DEF SenderOK, ReceiverOK
<1>9. /\ kcp \in [Ends -> Kcps] /\ said \in [Ends -> Nat]
      /\ taken \in [Ends -> Seq(Accounts)] /\ heard \in [Ends -> Seq(Seq(Data))]
  <2>1. <<>> \in Seq(Accounts) /\ <<>> \in Seq(Seq(Data))
    OBVIOUS
  <2> HIDE DEF Kcps
  <2> QED BY <1>1, <2>1 DEF ArqInit
<1> QED BY <1>7, <1>8, <1>9 DEF ArqInv, WireOK

\* Both ends and the wire, in every state.
THEOREM ArqInvariant == ArqSpec => []ArqInv
BY ArqStarts, ArqStep, PTL DEF ArqSpec

(* What an application hears are the messages the other one sent, whole,   *)
(* once each and in the order they were sent, although datagrams are lost, *)
(* duplicated and reordered.                                               *)
THEOREM MessagesHeardInOrder == ArqSpec => []HeardInOrder
<1>1. ASSUME ArqInv PROVE HeardInOrder
  <2>1. ASSUME NEW e \in Ends
        PROVE  /\ Len(heard[e]) <= Len(taken[Other(e)])
               /\ \A i \in DOMAIN heard[e] : heard[e][i] = Whole(taken[Other(e)][i])
    <3>1. HasHeard(heard[e], kcp[e], taken[Other(e)]) /\ heard[e] \in Seq(Seq(Data))
      BY <1>1 DEF ArqInv, ReceiverOK
    <3> DEFINE s == heard[e]
    <3>2. DOMAIN s = 1 .. Len(s)
      BY <3>1
    <3> QED BY <3>1, <3>2 DEF HasHeard
  <2> QED BY <2>1 DEF HeardInOrder
<1> QED BY <1>1, ArqInvariant, PTL

(* A segment is forgotten by its sender only when the other end has it.    *)
THEOREM ForgottenHasArrived == ArqSpec => []NothingForgotten
<1>1. ASSUME ArqInv PROVE NothingForgotten
  <2>1. \A e \in Ends : NoneForgotten(kcp[e], Had(kcp[Other(e)]))
    BY <1>1 DEF ArqInv, SenderOK
  <2> QED BY <2>1 DEF NoneForgotten, NothingForgotten, Had, HasCome
<1> QED BY <1>1, ArqInvariant, PTL

\* A window that holds the largest message.
RoomForOne == RcvWnd > 0 /\ MaxFragments <= RcvWnd

\* With room for the largest message the window is open between two steps.
LEMMA WindowIsOpen == ASSUME RoomForOne, ArqInv PROVE ReceiverOpen
<1>1. ASSUME NEW e \in Ends PROVE ~MessageReady(kcp[e]) /\ Wnd(kcp[e]) > 0
  <2> DEFINE k == kcp[e]  acc == taken[Other(e)]  q == k.rcv_queue  n == Len(heard[e])
  <2>1. HoldsOf(k, SegmentsOf(acc)) /\ ~MessageReady(k) /\ HasHeard(heard[e], k, acc)
    BY DEF ArqInv, ReceiverOK
  <2>2. InARow(acc) /\ heard[e] \in Seq(Seq(Data)) /\ RcvWnd \in Nat /\ MaxFragments \in Nat
    BY EndsAre, ArqAssumption DEF ArqInv, SenderOK
  <2>3. n \in 0 .. Len(acc) /\ Base(k) = EndOf(acc, n)
    <3>1. acc \in Seq(Accounts)
      BY <2>2 DEF InARow
    <3> QED BY <2>1, <2>2, <3>1 DEF HasHeard
  <2> HIDE DEF k, acc, n, q
  <2>4. q \in Seq(SegmentsOf(acc)) /\ Len(q) \in Nat /\ Len(q) = InQueue(k)
    BY <2>1 DEF HoldsOf, q, InQueue
  <2>5. CASE q = <<>>
    <3>1. Len(k.rcv_queue) = 0
      BY <2>5 DEF q
    <3>2. Wnd(k) = RcvWnd - 0
      BY <3>1 DEF Wnd
    <3>3. RcvWnd - 0 > 0
      BY <2>2 DEF RoomForOne
    <3> QED BY <2>1, <3>2, <3>3 DEF k
  <2>6. CASE q # <<>>
    <3>1. 1 \in 1 .. Len(q) /\ q[1] \in SegmentsOf(acc)
      BY <2>4, <2>6
    <3>2. q[1] \in Arrivals /\ IsFragment(acc, q[1].sn, q[1]) /\ q[1].sn \in Nat /\ q[1].frg \in Nat
      BY <3>1 DEF SegmentsOf, Arrivals
    <3>3. PICK i \in 1 .. Len(acc) : FragmentOf(acc[i], q[1].sn, q[1])
      BY <3>2 DEF IsFragment
    <3>4. acc[i] \in Accounts /\ acc[i].frags <= MaxFragments
      BY <2>2 DEF InARow
    <3>5. acc[i].frags \in Nat /\ acc[i].first \in Nat
      BY <3>4 DEF Accounts
    <3>6. acc[i].first <= q[1].sn /\ q[1].frg = acc[i].first + acc[i].frags - 1 - q[1].sn
      BY <3>3 DEF FragmentOf
    <3>7. q[1].frg < MaxFragments
      <4> DEFINE x == q[1].sn  y == q[1].frg  a == acc[i].first  c == acc[i].frags
      <4>1. /\ x \in Nat /\ y \in Nat /\ a \in Nat /\ c \in Nat /\ MaxFragments \in Nat
            /\ a <= x /\ y = a + c - 1 - x /\ c <= MaxFragments
        BY <2>2, <3>2, <3>4, <3>5, <3>6
      <4> HIDE DEF x, y, a, c
      <4> QED BY <4>1 DEF y
    <3>8. ~(Len(q) > q[1].frg)
      BY <2>1, <2>6 DEF MessageReady, q
    <3>9. RcvWnd - Len(q) > 0
      BY <2>2, <2>4, <3>2, <3>7, <3>8 DEF RoomForOne
    <3>10. Wnd(k) = RcvWnd - Len(q)
      BY DEF Wnd, q
    <3> QED BY <2>1, <3>9, <3>10 DEF k
  <2> QED BY <2>5, <2>6
<1> QED BY <1>1 DEF ReceiverOpen

(* With a receive window for the largest message nothing whole is left in  *)
(* rcv_queue and the window is never closed for good: the rest of a        *)
(* message always finds room.                                              *)
THEOREM WindowStaysOpen == RoomForOne => (ArqSpec => []ReceiverOpen)
<1> SUFFICES ASSUME RoomForOne PROVE ArqSpec => []ReceiverOpen
  OBVIOUS
<1> QED BY WindowIsOpen, ArqInvariant, PTL

-----------------------------------------------------------------------------
(* What an end that stays silent has done.                                 *)

\* The segments of a list are in the order of their numbers.
Ascends(s) == \A i, j \in DOMAIN s : i < j => s[i].sn < s[j].sn

\* rcv_buf is in order, nothing in it has been passed by, and it waits for the
\* segment before it or for room.
InOrderFrom(s, a) == Ascends(s) /\ \A i \in DOMAIN s : s[i].sn >= a
MustWait(k) == k.rcv_buf = <<>> \/ k.rcv_buf[1].sn # k.rcv_nxt \/ InQueue(k) >= RcvWnd
Neat(k) == InOrderFrom(k.rcv_buf, k.rcv_nxt) /\ MustWait(k)

\* Kept() keeps the order.
LEMMA KeptAscends ==
  ASSUME NEW S, NEW s \in Seq(S), NEW K, Ascends(s), \A i \in DOMAIN s : s[i].sn \in Nat
  PROVE  Ascends(Kept(s, K))
<1> DEFINE n == Len(s)  one(x, y) == IF y \in K THEN Append(x, y) ELSE x
<1>1. n \in Nat /\ DOMAIN s = 1 .. n /\ \A i \in 1 .. n : s[i] \in S
  OBVIOUS
<1>2. PICK kept : /\ Kept(s, K) = kept[n] /\ kept[0] = <<>>
                  /\ \A i \in 1 .. n : kept[i] = one(kept[i - 1], s[i])
  BY KeptRuns
<1> DEFINE Ok(i, x) == /\ x \in Seq(S) /\ Ascends(x)
                       /\ \A h \in DOMAIN x : \E j \in 1 .. i : x[h] = s[j]
           Good == {i \in 0 .. n : Ok(i, kept[i])}
<1>3. 0 \in Good
  <2> DEFINE x == kept[0]
  <2>1. x \in Seq(S) /\ DOMAIN x = {}
    BY <1>2
  <2> HIDE DEF x
  <2>2. Ok(0, x)
    BY <2>1 DEF Ascends
  <2> QED BY <1>1, <2>2 DEF x
<1>4. ASSUME NEW i \in 1 .. n, i - 1 \in Good PROVE i \in Good
  <2> DEFINE x == kept[i - 1]  y == kept[i]  l == Len(x)
  <2>1. Ok(i - 1, x) /\ i \in Nat /\ i - 1 \in Nat /\ s[i] \in S /\ y = one(x, s[i])
    BY <1>1, <1>2, <1>4
  <2> HIDE DEF x, y
  <2>2. ASSUME NEW h \in DOMAIN x PROVE (\E j \in 1 .. i : x[h] = s[j]) /\ x[h].sn < s[i].sn
    <3>1. PICK j \in 1 .. i - 1 : x[h] = s[j]
      BY <2>1
    <3>2. j \in DOMAIN s /\ i \in DOMAIN s /\ j < i /\ j \in 1 .. i
      BY <1>1, <2>1
    <3> QED BY <3>1, <3>2 DEF Ascends
  <2>3. CASE s[i] \in K
    <3>1. /\ y \in Seq(S) /\ DOMAIN x = 1 .. l /\ DOMAIN y = 1 .. l + 1 /\ l \in Nat
          /\ y[l + 1] = s[i] /\ \A h \in 1 .. l : y[h] = x[h]
      BY <2>1, <2>3
    <3>2. ASSUME NEW g \in DOMAIN y, NEW h \in DOMAIN y, g < h PROVE y[g].sn < y[h].sn
      <4>1. g \in DOMAIN x /\ y[g] = x[g]
        BY <3>1, <3>2
      <4>2. CASE h = l + 1
        BY <2>2, <3>1, <4>1, <4>2
      <4>3. CASE h # l + 1
        <5>1. h \in DOMAIN x /\ y[h] = x[h]
          BY <3>1, <4>3
        <5> QED BY <2>1, <3>2, <4>1, <5>1 DEF Ascends
      <4> QED BY <4>2, <4>3
    <3>3. ASSUME NEW h \in DOMAIN y PROVE \E j \in 1 .. i : y[h] = s[j]
      <4>1. CASE h = l + 1
        BY <3>1, <4>1
      <4>2. CASE h # l + 1
        <5>1. h \in DOMAIN x /\ y[h] = x[h]
          BY <3>1, <4>2
        <5> QED BY <2>2, <5>1
      <4> QED BY <4>1, <4>2
    <3>4. Ok(i, y)
      BY <3>1, <3>2, <3>3 DEF Ascends
    <3> QED BY <3>4 DEF y
  <2>4. CASE s[i] \notin K
    <3>1. y = x /\ Ok(i, x)
      BY <2>1, <2>2, <2>4
    <3> QED BY <3>1 DEF y
  <2> QED BY <2>3, <2>4
<1>5. n \in Good
  <2> HIDE DEF Good, n
  <2>1. \A i \in 0 .. n : i \in Good
    BY <1>1, <1>3, <1>4, UpTo
  <2> QED BY <1>1, <2>1
<1> QED BY <1>2, <1>5

\* The moves leave in rcv_buf the segments behind those that moved.
LEMMA MoveNeat ==
  ASSUME NEW k, NEW G, G \subseteq Arrivals, HoldsOf(k, G), InOrderFrom(k.rcv_buf, k.rcv_nxt)
  PROVE  LET r == MoveRcvBufToQueue(k) IN Neat(r) /\ r.rmt_wnd = k.rmt_wnd
<1> DEFINE s == k.rcv_buf  n == Len(s)  none == [k EXCEPT !.rcv_buf = <<>>]
<1>1. k \in Kcps /\ s \in Seq(G) /\ s \in Seq(Arrivals) /\ k.rcv_nxt \in Nat
  BY DEF HoldsOf, Kcps
<1>2. n \in Nat /\ DOMAIN s = 1 .. n /\ \A i \in 1 .. n : s[i] \in Arrivals /\ s[i].sn \in Nat
  <2>1. n \in Nat /\ DOMAIN s = 1 .. n /\ \A i \in 1 .. n : s[i] \in Arrivals
    BY <1>1
  <2> QED BY <2>1 DEF Arrivals
<1>3. PICK moved : /\ MoveRcvBufToQueue(k) = moved[n] /\ moved[0] = none
                   /\ \A i \in 1 .. n : moved[i] = MoveUp(moved[i - 1], s[i])
  BY MoveRuns
<1>4. /\ \A i \in 1 .. n : s[i].sn >= k.rcv_nxt
      /\ \A i, j \in 1 .. n : i < j => s[i].sn < s[j].sn
  BY <1>2 DEF InOrderFrom, Ascends
<1> DEFINE Ok(i, x) ==
             LET l == Len(x.rcv_buf) IN
             /\ x \in Kcps /\ x.rmt_wnd = k.rmt_wnd /\ l <= i /\ MustWait(x)
             /\ \A h \in 1 .. l : x.rcv_buf[h] = s[i - l + h]
             /\ \A j \in i - l + 1 .. n : s[j].sn >= x.rcv_nxt
           Good == {i \in 0 .. n : Ok(i, moved[i])}
<1> HIDE DEF s
<1>5. 0 \in Good
  <2>1. none \in Kcps /\ none.rmt_wnd = k.rmt_wnd /\ none.rcv_buf = <<>> /\ none.rcv_nxt = k.rcv_nxt
    <3>1. <<>> \in Seq(Arrivals)
      OBVIOUS
    <3> QED BY <1>1, <3>1 DEF Kcps
  <2> HIDE DEF none
  <2>2. Len(none.rcv_buf) = 0
    BY <2>1
  <2>3. Ok(0, none)
    BY <1>4, <2>1, <2>2 DEF MustWait
  <2> HIDE DEF Ok
  <2> QED BY <1>2, <1>3, <2>3
<1>6. ASSUME NEW i \in 1 .. n, i - 1 \in Good PROVE i \in Good
  <2> DEFINE x == moved[i - 1]  y == moved[i]  l == Len(x.rcv_buf)
  <2>1. Ok(i - 1, x) /\ y = MoveUp(x, s[i])
    <3> HIDE DEF Ok
    <3> QED BY <1>3, <1>6
  <2>2. /\ x \in Kcps /\ x.rmt_wnd = k.rmt_wnd /\ l <= i - 1 /\ MustWait(x)
        /\ \A h \in 1 .. l : x.rcv_buf[h] = s[i - 1 - l + h]
        /\ \A j \in i - l .. n : s[j].sn >= x.rcv_nxt
        /\ y = MoveUp(x, s[i]) /\ i \in Nat
    <3>1. l \in Nat /\ i \in Nat
      <4>1. x.rcv_buf \in Seq(Arrivals)
        BY <2>1 DEF Kcps
      <4> QED BY <1>2, <4>1
    <3>2. i - 1 - l + 1 = i - l
      BY <3>1
    <3> QED BY <2>1, <3>1, <3>2
  <2> HIDE DEF x, y
  <2>3. /\ x.rcv_buf \in Seq(Arrivals) /\ x.rcv_queue \in Seq(Arrivals) /\ x.rcv_nxt \in Nat /\ l \in Nat
        /\ s[i] \in Arrivals /\ s[i].sn \in Nat
    BY <1>2, <2>2 DEF Kcps
  <2>4. CASE x.rcv_buf = <<>> /\ s[i].sn = x.rcv_nxt /\ Len(x.rcv_queue) < RcvWnd
    <3> DEFINE q == Append(x.rcv_queue, s[i])  nxt == x.rcv_nxt + 1
    <3>1. y = [x EXCEPT !.rcv_queue = q, !.rcv_nxt = nxt]
      BY <2>2, <2>4 DEF MoveUp
    <3>2. q \in Seq(Arrivals) /\ nxt \in Nat
      BY <2>3
    <3> HIDE DEF q, nxt
    <3>3. y \in Kcps /\ y.rmt_wnd = k.rmt_wnd /\ y.rcv_buf = <<>> /\ y.rcv_nxt = nxt
      BY <2>2, <2>4, <3>1, <3>2 DEF Kcps
    <3>4. Len(y.rcv_buf) = 0 /\ MustWait(y)
      BY <3>3 DEF MustWait
    <3>5. ASSUME NEW j \in i + 1 .. n PROVE s[j].sn >= nxt
      <4>1. s[i].sn < s[j].sn /\ s[j].sn \in Nat
        BY <1>2, <1>4
      <4> QED BY <2>3, <2>4, <4>1 DEF nxt
    <3>6. Ok(i, y)
      BY <3>3, <3>4, <3>5
    <3> HIDE DEF Ok
    <3> QED BY <1>2, <3>6 DEF y
  <2>5. CASE ~(x.rcv_buf = <<>> /\ s[i].sn = x.rcv_nxt /\ Len(x.rcv_queue) < RcvWnd)
    <3> DEFINE b == Append(x.rcv_buf, s[i])
    <3>1. y = [x EXCEPT !.rcv_buf = b]
      BY <2>2, <2>5 DEF MoveUp
    <3>2. /\ b \in Seq(Arrivals) /\ Len(b) = l + 1 /\ b[l + 1] = s[i]
          /\ \A h \in 1 .. l : b[h] = x.rcv_buf[h]
      BY <2>3
    <3> HIDE DEF b
    <3>3. /\ y \in Kcps /\ y.rmt_wnd = k.rmt_wnd /\ y.rcv_buf = b /\ y.rcv_nxt = x.rcv_nxt
          /\ y.rcv_queue = x.rcv_queue
      BY <2>2, <3>1, <3>2 DEF Kcps
    <3>4. MustWait(y)
      <4>1. CASE l = 0
        <5>1. x.rcv_buf = <<>> /\ b[1] = s[i]
          BY <2>3, <3>2, <4>1
        <5>2. InQueue(y) = Len(x.rcv_queue) /\ Len(x.rcv_queue) \in Nat /\ RcvWnd \in Nat
          BY <2>3, <3>3, ArqAssumption DEF InQueue
        <5> QED BY <2>5, <3>3, <5>1, <5>2 DEF MustWait
      <4>2. CASE l # 0
        <5>1. x.rcv_buf # <<>> /\ b[1] = x.rcv_buf[1]
          BY <2>3, <3>2, <4>2
        <5> QED BY <2>2, <3>3, <5>1 DEF MustWait, InQueue
      <4> QED BY <4>1, <4>2
    <3>5. ASSUME NEW h \in 1 .. l + 1 PROVE b[h] = s[i - (l + 1) + h]
      <4>0. l \in Nat /\ i \in Nat
        BY <2>2, <2>3
      <4> HIDE DEF l
      <4>1. CASE h = l + 1
        <5>1. i - (l + 1) + h = i
          BY <4>0, <4>1
        <5> QED BY <3>2, <4>1, <5>1
      <4>2. CASE h # l + 1
        <5>1. h \in 1 .. l /\ i - (l + 1) + h = i - 1 - l + h
          BY <4>0, <4>2
        <5> QED BY <2>2, <3>2, <5>1 DEF l
      <4> QED BY <4>1, <4>2
    <3>6. Len(y.rcv_buf) = l + 1 /\ l + 1 <= i /\ i - (l + 1) + 1 = i - l
      <4>1. l \in Nat /\ i \in Nat /\ l <= i - 1 /\ Len(b) = l + 1 /\ y.rcv_buf = b
        BY <2>2, <2>3, <3>2, <3>3
      <4> HIDE DEF l
      <4>2. l + 1 <= i /\ i - (l + 1) + 1 = i - l
        BY <4>1
      <4> QED BY <4>1, <4>2
    <3>7. Ok(i, y)
      BY <2>2, <3>3, <3>4, <3>5, <3>6
    <3> HIDE DEF Ok
    <3> QED BY <1>2, <3>7 DEF y
  <2> QED BY <2>4, <2>5
<1>7. n \in Good
  <2> HIDE DEF Good, n
  <2>1. \A i \in 0 .. n : i \in Good
    BY <1>2, <1>5, <1>6, UpTo
  <2> QED BY <1>2, <2>1
<1> DEFINE r == moved[n]
<1>8. Ok(n, r)
  <2> HIDE DEF Ok
  <2> QED BY <1>7
<1> HIDE DEF r
<1> DEFINE l == Len(r.rcv_buf)
<1>9. l \in Nat /\ l <= n /\ DOMAIN r.rcv_buf = 1 .. l
  <2>1. r.rcv_buf \in Seq(Arrivals)
    BY <1>8 DEF Kcps
  <2> QED BY <1>8, <2>1
<1>10. /\ \A h \in 1 .. l : n - l + h \in n - l + 1 .. n /\ n - l + h \in 1 .. n
                            /\ r.rcv_buf[h] = s[n - l + h]
       /\ \A g, h \in 1 .. l : g < h => n - l + g < n - l + h
  <2>1. \A h \in 1 .. l : r.rcv_buf[h] = s[n - l + h]
    BY <1>8
  <2> HIDE DEF l, n
  <2>2. \A h \in 1 .. l : n - l + h \in n - l + 1 .. n /\ n - l + h \in 1 .. n
    BY <1>2, <1>9
  <2>3. \A g, h \in 1 .. l : g < h => n - l + g < n - l + h
    BY <1>2, <1>9
  <2> QED BY <2>1, <2>2, <2>3
<1>11. Neat(r)
  <2>1. \A h \in 1 .. l : r.rcv_buf[h].sn >= r.rcv_nxt
    BY <1>8, <1>10
  <2>2. \A g, h \in 1 .. l : g < h => r.rcv_buf[g].sn < r.rcv_buf[h].sn
    BY <1>4, <1>10
  <2>3. MustWait(r)
    BY <1>8
  <2> QED BY <1>9, <2>1, <2>2, <2>3 DEF Neat, InOrderFrom, Ascends
<1>12. r.rmt_wnd = k.rmt_wnd
  BY <1>8
<1> QED BY <1>3, <1>11, <1>12 DEF r

\* A segment between those before it and those behind it.
LEMMA BetweenAscends ==
  ASSUME NEW low \in Seq(Arrivals), NEW seg \in Arrivals, NEW high \in Seq(Arrivals), NEW a \in Nat,
         InOrderFrom(low, a), InOrderFrom(high, a), seg.sn >= a,
         \A i \in DOMAIN low : low[i].sn < seg.sn, \A i \in DOMAIN high : seg.sn < high[i].sn
  PROVE  InOrderFrom(low \o <<seg>> \o high, a)
<1> DEFINE more == low \o <<seg>> \o high  l == Len(low)  m == Len(high)
<1>1. /\ l \in Nat /\ m \in Nat /\ DOMAIN low = 1 .. l /\ DOMAIN high = 1 .. m
      /\ DOMAIN more = 1 .. l + 1 + m
  OBVIOUS
<1>2. /\ \A i \in 1 .. l : more[i] = low[i]
      /\ more[l + 1] = seg
      /\ \A i \in 1 .. m : more[l + 1 + i] = high[i]
  BY <1>1
<1> HIDE DEF more, l, m
<1>3. /\ \A i \in 1 .. l : low[i].sn \in Nat
      /\ \A i \in 1 .. m : high[i].sn \in Nat
      /\ seg.sn \in Nat
  <2>1. (\A i \in 1 .. l : low[i] \in Arrivals) /\ \A i \in 1 .. m : high[i] \in Arrivals
    BY <1>1 DEF l, m
  <2> QED BY <2>1 DEF Arrivals
<1>4. ASSUME NEW i \in 1 .. l + 1 + m
      PROVE  i \in 1 .. l \/ i = l + 1 \/ \E h \in 1 .. m : i = l + 1 + h
  <2>1. i \in 1 .. l \/ i = l + 1 \/ (i - (l + 1) \in 1 .. m /\ i = l + 1 + (i - (l + 1)))
    BY <1>1
  <2> QED BY <2>1
<1>5. ASSUME NEW i \in 1 .. l + 1 + m PROVE more[i].sn >= a
  <2>1. CASE i \in 1 .. l
    BY <1>1, <1>2, <2>1 DEF InOrderFrom
  <2>2. CASE i = l + 1
    BY <1>2, <2>2
  <2>3. CASE \E h \in 1 .. m : i = l + 1 + h
    <3>1. PICK h \in 1 .. m : i = l + 1 + h
      BY <2>3
    <3>2. more[i] = high[h] /\ h \in DOMAIN high
      BY <1>1, <1>2, <3>1
    <3> QED BY <3>2 DEF InOrderFrom
  <2> QED BY <1>4, <2>1, <2>2, <2>3
<1>6. ASSUME NEW i \in 1 .. l + 1 + m, NEW j \in 1 .. l + 1 + m, i < j PROVE more[i].sn < more[j].sn
  <2>1. CASE i \in 1 .. l
    <3>1. more[i].sn = low[i].sn /\ low[i].sn < seg.sn /\ low[i].sn \in Nat
      BY <1>1, <1>2, <1>3, <2>1
    <3>2. CASE j \in 1 .. l
      BY <1>1, <1>2, <1>6, <2>1, <3>2 DEF InOrderFrom, Ascends
    <3>3. CASE j = l + 1
      BY <1>2, <3>1, <3>3
    <3>4. CASE \E h \in 1 .. m : j = l + 1 + h
      <4>1. PICK h \in 1 .. m : j = l + 1 + h
        BY <3>4
      <4>2. more[j].sn = high[h].sn /\ seg.sn < high[h].sn /\ high[h].sn \in Nat
        BY <1>1, <1>2, <1>3, <4>1
      <4> QED BY <1>3, <3>1, <4>2
    <3> QED BY <1>4, <3>2, <3>3, <3>4
  <2>2. CASE i = l + 1
    <3>1. PICK h \in 1 .. m : j = l + 1 + h
      <4>1. j \notin 1 .. l /\ j # l + 1
        BY <1>1, <1>6, <2>2
      <4> QED BY <1>4, <4>1
    <3> QED BY <1>1, <1>2, <2>2, <3>1
  <2>3. CASE \E h \in 1 .. m : i = l + 1 + h
    <3>1. PICK g \in 1 .. m : i = l + 1 + g
      BY <2>3
    <3>2. PICK h \in 1 .. m : j = l + 1 + h
      <4>1. j \notin 1 .. l /\ j # l + 1
        BY <1>1, <1>6, <3>1
      <4> QED BY <1>4, <4>1
    <3>3. g < h
      BY <1>1, <1>6, <3>1, <3>2
    <3>4. more[i] = high[g] /\ more[j] = high[h] /\ g \in DOMAIN high /\ h \in DOMAIN high
      BY <1>1, <1>2, <3>1, <3>2
    <3> QED BY <3>3, <3>4 DEF InOrderFrom, Ascends
  <2> QED BY <1>4, <2>1, <2>2, <2>3
<1>7. InOrderFrom(more, a)
  BY <1>1, <1>5, <1>6 DEF InOrderFrom, Ascends
<1> QED BY <1>7 DEF more

\* What Kept() leaves of a list in order.
LEMMA KeptInOrder ==
  ASSUME NEW s \in Seq(Arrivals), NEW K, NEW a \in Nat, InOrderFrom(s, a)
  PROVE  InOrderFrom(Kept(s, K), a)
<1>1. \A i \in DOMAIN s : s[i] \in Arrivals
  OBVIOUS
<1>2. \A i \in DOMAIN s : s[i].sn \in Nat
  BY <1>1 DEF Arrivals
<1>3. Ascends(Kept(s, K))
  BY <1>2, KeptAscends DEF InOrderFrom
<1>4. \A i \in DOMAIN Kept(s, K) : \E j \in DOMAIN s : s[j] = Kept(s, K)[i]
  BY KeptIs
<1>5. \A i \in DOMAIN Kept(s, K) : Kept(s, K)[i].sn >= a
  BY <1>4 DEF InOrderFrom
<1> QED BY <1>3, <1>5 DEF InOrderFrom

\* parse_data() puts a segment in its place.
LEMMA ParseDataNeat ==
  ASSUME NEW k, NEW G, G \subseteq Arrivals, HoldsOf(k, G), Neat(k), NEW seg \in G
  PROVE  LET r == ParseData(k, seg) IN Neat(r) /\ r.rmt_wnd = k.rmt_wnd
<1>1. /\ k \in Kcps /\ k.rcv_buf \in Seq(G) /\ k.rcv_buf \in Seq(Arrivals) /\ k.rcv_nxt \in Nat
      /\ seg \in Arrivals /\ seg.sn \in Nat /\ RcvWnd \in Nat
  BY ArqAssumption DEF HoldsOf, Kcps, Arrivals
<1>2. CASE seg.sn \notin k.rcv_nxt .. k.rcv_nxt + RcvWnd - 1
  BY <1>2 DEF ParseData
<1>3. CASE seg.sn \in k.rcv_nxt .. k.rcv_nxt + RcvWnd - 1
  <2> DEFINE b == k.rcv_buf
             L == {s \in Range(b) : s.sn < seg.sn}  H == {s \in Range(b) : s.sn > seg.sn}
             low == Kept(b, L)
             high == Kept(b, H)
             more == low \o <<seg>> \o high
             j == IF \E i \in DOMAIN b : b[i].sn = seg.sn THEN k ELSE [k EXCEPT !.rcv_buf = more]
  <2>1. ParseData(k, seg) = MoveRcvBufToQueue(j)
    BY <1>3 DEF ParseData
  <2>2. HoldsOf(j, G) /\ InOrderFrom(j.rcv_buf, j.rcv_nxt) /\ j.rmt_wnd = k.rmt_wnd
    <3>1. CASE \E i \in DOMAIN b : b[i].sn = seg.sn
      BY <3>1 DEF Neat
    <3>2. CASE ~\E i \in DOMAIN b : b[i].sn = seg.sn
      <4>1. j = [k EXCEPT !.rcv_buf = more]
        BY <3>2
      <4>2. /\ \A s \in L : s.sn < seg.sn
            /\ \A s \in H : seg.sn < s.sn
            /\ \A i \in DOMAIN b : b[i] \in L \/ b[i] \in H
        <5>1. \A i \in DOMAIN b : b[i] \in Arrivals
          BY <1>1
        <5>2. \A i \in DOMAIN b : b[i].sn \in Nat /\ b[i] \in Range(b)
          BY <5>1 DEF Arrivals, Range
        <5>3. \A i \in DOMAIN b : b[i].sn < seg.sn \/ seg.sn < b[i].sn
          BY <1>1, <3>2, <5>2
        <5>4. \A s \in Range(b) : s.sn > seg.sn => seg.sn < s.sn
          <6>1. \A s \in Range(b) : s.sn \in Nat
            BY <5>2 DEF Range
          <6> QED BY <1>1, <6>1
        <5> HIDE DEF b
        <5>5. \A i \in DOMAIN b : seg.sn < b[i].sn => b[i].sn > seg.sn
          BY <1>1, <5>2
        <5> QED BY <5>2, <5>3, <5>4, <5>5
      <4> HIDE DEF L, H
      <4>3. /\ low \in Seq(G) /\ \A i \in DOMAIN low : low[i] \in L
            /\ \A i \in DOMAIN b : b[i] \in L => \E h \in DOMAIN low : low[h] = b[i]
        <5>1. b \in Seq(G)
          BY <1>1
        <5> HIDE DEF b
        <5>2. /\ Kept(b, L) \in Seq(G) /\ \A i \in DOMAIN Kept(b, L) : Kept(b, L)[i] \in L
              /\ \A i \in DOMAIN b : b[i] \in L => \E h \in DOMAIN Kept(b, L) : Kept(b, L)[h] = b[i]
          BY <5>1, KeptIs
        <5> QED BY <5>2
      <4>4. /\ high \in Seq(G) /\ \A i \in DOMAIN high : high[i] \in H
            /\ \A i \in DOMAIN b : b[i] \in H => \E h \in DOMAIN high : high[h] = b[i]
        <5>1. b \in Seq(G)
          BY <1>1
        <5> HIDE DEF b
        <5>2. /\ Kept(b, H) \in Seq(G) /\ \A i \in DOMAIN Kept(b, H) : Kept(b, H)[i] \in H
              /\ \A i \in DOMAIN b : b[i] \in H => \E h \in DOMAIN Kept(b, H) : Kept(b, H)[h] = b[i]
          BY <5>1, KeptIs
        <5> QED BY <5>2
      <4>5. InOrderFrom(low, k.rcv_nxt) /\ InOrderFrom(high, k.rcv_nxt)
        BY <1>1, KeptInOrder DEF Neat
      <4> HIDE DEF low, high
      <4>6. low \in Seq(Arrivals) /\ high \in Seq(Arrivals)
        BY <4>3, <4>4, SeqMonotonic
      <4>7. InOrderFrom(more, k.rcv_nxt)
        <5>1. seg.sn >= k.rcv_nxt
          BY <1>1, <1>3
        <5>2. \A i \in DOMAIN low : low[i].sn < seg.sn
          BY <4>2, <4>3
        <5>3. \A i \in DOMAIN high : seg.sn < high[i].sn
          BY <4>2, <4>4
        <5> QED BY <1>1, <4>5, <4>6, <5>1, <5>2, <5>3, BetweenAscends
      <4>8. more \in Seq(G) /\ \A i \in DOMAIN b : \E h \in DOMAIN more : more[h].sn = b[i].sn
        <5>1. /\ more \in Seq(G) /\ Len(low) \in Nat /\ Len(high) \in Nat
              /\ DOMAIN more = 1 .. Len(low) + 1 + Len(high)
              /\ DOMAIN low = 1 .. Len(low) /\ DOMAIN high = 1 .. Len(high)
          BY <4>3, <4>4
        <5>2. /\ \A h \in 1 .. Len(low) : more[h] = low[h]
              /\ \A h \in 1 .. Len(high) : more[Len(low) + 1 + h] = high[h]
          BY <4>3, <4>4, <5>1
        <5> HIDE DEF more
        <5>3. ASSUME NEW i \in DOMAIN b PROVE \E h \in DOMAIN more : more[h].sn = b[i].sn
          <6>1. CASE b[i] \in L
            <7>1. PICK h \in DOMAIN low : low[h] = b[i]
              BY <4>3, <6>1
            <7>2. h \in DOMAIN more /\ more[h] = b[i]
              BY <5>1, <5>2, <7>1
            <7> QED BY <7>2
          <6>2. CASE b[i] \in H
            <7>1. PICK h \in DOMAIN high : high[h] = b[i]
              BY <4>4, <6>2
            <7>2. Len(low) + 1 + h \in DOMAIN more /\ more[Len(low) + 1 + h] = b[i]
              BY <5>1, <5>2, <7>1
            <7> QED BY <7>2
          <6> QED BY <4>2, <6>1, <6>2
        <5> QED BY <5>1, <5>3
      <4> HIDE DEF more, j
      <4>9. HoldsOf(j, G) /\ j.rcv_buf = more
        BY <4>1, <4>8, BufFollows
      <4>10. j.rcv_nxt = k.rcv_nxt /\ j.rmt_wnd = k.rmt_wnd
        BY <1>1, <4>1 DEF Kcps
      <4> QED BY <4>7, <4>9, <4>10
    <3> QED BY <3>1, <3>2
  <2> HIDE DEF j
  <2> QED BY <2>1, <2>2, MoveNeat
<1> QED BY <1>2, <1>3

\* A sequence without places is empty.
LEMMA NoDomain == ASSUME NEW S, NEW s \in Seq(S), DOMAIN s = {} PROVE s = <<>>
<1>1. Len(s) \in Nat /\ DOMAIN s = 1 .. Len(s)
  OBVIOUS
<1>2. Len(s) = 0
  BY <1>1
<1> QED BY <1>2

\* With nothing in snd_buf all is acknowledged; the window of the peer is known
\* to be open.
Drained(k) == k.snd_buf = <<>> => k.snd_una = k.snd_nxt
Tidy(k) == k.rmt_wnd > 0 /\ Drained(k) /\ Neat(k)

\* A control block in which nothing of this has changed.
LEMMA SameTidy ==
  ASSUME NEW k, NEW r, Tidy(k), r.rmt_wnd = k.rmt_wnd, SameSender(r, k), SameReceiver(r, k)
  PROVE  Tidy(r)
BY DEF Tidy, Drained, Neat, MustWait, InQueue, SameSender, SameReceiver

\* ikcp_shrink_buf(): the number after the last one, if nothing is in snd_buf.
LEMMA ShrinkDrains ==
  ASSUME NEW k \in Kcps
  PROVE  Drained(ShrinkBuf(k)) /\ ShrinkBuf(k).rmt_wnd = k.rmt_wnd
<1> DEFINE una == IF k.snd_buf = <<>> THEN k.snd_nxt ELSE k.snd_buf[1].sn
           r == [k EXCEPT !.snd_una = una]
<1>1. r.snd_una = una /\ r.snd_buf = k.snd_buf /\ r.snd_nxt = k.snd_nxt /\ r.rmt_wnd = k.rmt_wnd
  <2> HIDE DEF una
  <2> QED BY DEF Kcps
<1> HIDE DEF r
<1>2. Drained(r)
  BY <1>1 DEF Drained
<1> QED BY <1>1, <1>2 DEF ShrinkBuf, r, una

\* One segment leaves it so, if it tells of an open window.
LEMMA InputSegmentTidy ==
  ASSUME NEW k0, NEW G, NEW H, G \subseteq Arrivals, HoldsOf(k0, G), Neat(k0),
         NEW seg \in Honest(G, H), seg.wnd > 0
  PROVE  Tidy(InputSegment(k0, seg))
<1> DEFINE u == ParseUna([k0 EXCEPT !.rmt_wnd = seg.wnd], seg.una)  k == ShrinkBuf(u)
           r == InputSegment(k0, seg)
<1>1. HoldsOf(k, G) /\ SameReceiver(k, k0)
  BY SegmentStarts
<1>2. /\ r = CASE seg.cmd = "ACK" -> ShrinkBuf(ParseAck(k, seg.sn))
              [] seg.cmd = "PUSH" ->
                    IF seg.sn >= k.rcv_nxt + RcvWnd THEN k
                    ELSE ParseData([k EXCEPT !.acklist = Append(@, seg.sn)],
                                   [sn |-> seg.sn, frg |-> seg.frg, data |-> seg.data])
              [] seg.cmd = "WASK" -> [k EXCEPT !.probe = @ \cup {"TELL"}]
              [] seg.cmd = "WINS" -> k
  BY DEF InputSegment
<1> HIDE DEF r
<1>3. /\ k0 \in Kcps /\ k \in Kcps /\ seg.sn \in Nat /\ seg.cmd \in {"ACK", "PUSH", "WASK", "WINS"}
      /\ seg.wnd \in Int /\ seg.una \in Nat
  BY <1>1 DEF HoldsOf, Honest, Segments
<1>4. Drained(k) /\ k.rmt_wnd = seg.wnd
  <2> DEFINE j == [k0 EXCEPT !.rmt_wnd = seg.wnd]
             K == {s \in Range(j.snd_buf) : s.sn >= seg.una}
  <2>1. j \in Kcps /\ j.rmt_wnd = seg.wnd
    BY <1>3 DEF Kcps
  <2> HIDE DEF j
  <2>2. u \in Kcps
    <3>1. \A n \in Nat : n < seg.una => n \in Nat
      OBVIOUS
    <3> QED BY <1>3, <2>1, <3>1, ParseUnaIs DEF j
  <2>3. u.rmt_wnd = j.rmt_wnd
    <3>1. u = [j EXCEPT !.snd_buf = Kept(@, K)]
      BY DEF ParseUna, j
    <3> HIDE DEF K, u
    <3> QED BY <2>1, <3>1 DEF Kcps
  <2> HIDE DEF u
  <2> QED BY <2>1, <2>2, <2>3, ShrinkDrains
<1> HIDE DEF u, k
<1>5. Neat(k)
  BY <1>1 DEF Neat, MustWait, InQueue, SameReceiver
<1>6. Tidy(k)
  BY <1>4, <1>5 DEF Tidy
<1>7. CASE seg.cmd = "ACK"
  <2> DEFINE a == ParseAck(k, seg.sn)  K == {s \in Range(k.snd_buf) : s.sn # seg.sn}
  <2>1. r = ShrinkBuf(a)
    BY <1>2, <1>7
  <2>2. seg.sn \in Nat
    BY <1>3
  <2>3. a \in Kcps /\ SameReceiver(a, k)
    BY <1>3, <2>2, ParseAckIs
  <2>4. a.rmt_wnd = k.rmt_wnd
    <3> HIDE DEF K
    <3>1. a = k \/ a = [k EXCEPT !.snd_buf = Kept(@, K)]
      BY DEF ParseAck, K
    <3> HIDE DEF a
    <3> QED BY <1>3, <3>1 DEF Kcps
  <2> HIDE DEF a
  <2>5. Drained(r) /\ r.rmt_wnd = a.rmt_wnd /\ SameReceiver(r, a)
    <3>1. SameReceiver(ShrinkBuf(a), a)
      BY <2>3, ShrinkBufIs
    <3> QED BY <2>1, <2>3, <3>1, ShrinkDrains
  <2>6. Neat(r)
    BY <1>5, <2>3, <2>5 DEF Neat, MustWait, InQueue, SameReceiver
  <2> QED BY <1>6, <2>4, <2>5, <2>6 DEF Tidy, r
<1>8. CASE seg.cmd = "PUSH" /\ ~(seg.sn >= k.rcv_nxt + RcvWnd)
  <2> DEFINE s == [sn |-> seg.sn, frg |-> seg.frg, data |-> seg.data]
             list == Append(k.acklist, seg.sn)
             a == [k EXCEPT !.acklist = list]
  <2>1. r = ParseData(a, s)
    BY <1>2, <1>8
  <2>2. s \in G
    BY <1>8 DEF Honest
  <2> HIDE DEF s
  <2>3. list \in Seq(Nat)
    <3>1. k.acklist \in Seq(Nat)
      BY <1>3 DEF Kcps
    <3> QED BY <1>3, <3>1
  <2> HIDE DEF list
  <2>4. /\ a \in Kcps /\ SameSender(a, k) /\ a.rcv_queue = k.rcv_queue
        /\ a.rcv_buf = k.rcv_buf /\ a.rcv_nxt = k.rcv_nxt /\ a.rmt_wnd = k.rmt_wnd
    <3>1. a \in Kcps
      BY <1>3, <2>3 DEF Kcps
    <3>2. SameSender(a, k) /\ a.rcv_queue = k.rcv_queue
        /\ a.rcv_buf = k.rcv_buf /\ a.rcv_nxt = k.rcv_nxt /\ a.rmt_wnd = k.rmt_wnd
      BY <1>3 DEF Kcps, SameSender
    <3> QED BY <3>1, <3>2
  <2> HIDE DEF a
  <2>5. HoldsOf(a, G) /\ Neat(a)
    <3>1. Base(a) = Base(k) /\ InQueue(a) = InQueue(k)
      BY <2>4 DEF Base, InQueue
    <3>2. HoldsOf(a, G)
      BY <1>1, <2>4, <3>1 DEF HoldsOf
    <3> QED BY <1>5, <2>4, <3>1, <3>2 DEF Neat, MustWait
  <2>6. SameSender(r, a) /\ Neat(r) /\ r.rmt_wnd = a.rmt_wnd
    <3>1. SameSender(r, a)
      BY <2>1, <2>2, <2>5, ParseDataIs
    <3> QED BY <2>1, <2>2, <2>5, <3>1, ParseDataNeat
  <2>7. Drained(r)
    BY <1>4, <2>4, <2>6 DEF Drained, SameSender
  <2> QED BY <1>6, <2>4, <2>6, <2>7 DEF Tidy, r
<1>9. CASE r = k
  BY <1>6, <1>9 DEF r
<1>10. CASE seg.cmd = "WASK"
  <2> DEFINE p == k.probe \cup {"TELL"}
  <2>1. r = [k EXCEPT !.probe = p]
    BY <1>2, <1>10
  <2> HIDE DEF p
  <2>2. r.rmt_wnd = k.rmt_wnd /\ SameSender(r, k) /\ SameReceiver(r, k)
    BY <1>3, <2>1 DEF Kcps, SameSender, SameReceiver
  <2> QED BY <1>6, <2>2, SameTidy DEF r
<1>11. CASE seg.cmd = "PUSH" /\ seg.sn >= k.rcv_nxt + RcvWnd
  BY <1>2, <1>9, <1>11
<1>12. CASE seg.cmd = "WINS"
  BY <1>2, <1>9, <1>12
<1> QED BY <1>3, <1>7, <1>8, <1>10, <1>11, <1>12

\* input(): so does a datagram.
LEMMA InputTidy ==
  ASSUME NEW k, NEW G, NEW H, G \subseteq Arrivals, HoldsOf(k, G), Acked(k), Tidy(k),
         NEW segs \in Seq(Honest(G, H)), \A i \in DOMAIN segs : segs[i].wnd > 0
  PROVE  Tidy(Input(k, segs))
<1> DEFINE n == Len(segs)  acked == Acknowledges(segs)
<1>1. n \in Nat /\ \A i \in 1 .. n : segs[i] \in Honest(G, H) /\ segs[i].wnd > 0
  OBVIOUS
<1> HIDE DEF acked
<1>2. PICK input : /\ input[0] = k /\ \A i \in 1 .. n : input[i] = InputSegment(input[i - 1], segs[i])
                   /\ Input(k, segs) = IF acked = {} THEN input[n] ELSE ParseFastack(input[n], Max(acked))
  BY InputRuns DEF acked
<1> DEFINE Ok(x) == HoldsOf(x, G) /\ Acked(x) /\ Tidy(x)
           Good == {i \in 0 .. n : Ok(input[i])}
<1>3. 0 \in Good
  BY <1>1, <1>2
<1>4. ASSUME NEW i \in 1 .. n, i - 1 \in Good PROVE i \in Good
  <2> DEFINE x == input[i - 1]  y == input[i]
  <2>1. Ok(x) /\ y = InputSegment(x, segs[i]) /\ segs[i] \in Honest(G, H) /\ segs[i].wnd > 0
    <3> HIDE DEF Ok
    <3> QED BY <1>1, <1>2, <1>4
  <2> HIDE DEF x, y
  <2>2. HoldsOf(y, G) /\ Acked(y)
    BY <2>1, InputSegmentIs
  <2>3. Tidy(y)
    BY <2>1, InputSegmentTidy DEF Tidy
  <2> QED BY <1>1, <2>2, <2>3 DEF y
<1>5. n \in Good
  <2> HIDE DEF Good, n
  <2>1. \A i \in 0 .. n : i \in Good
    BY <1>1, <1>3, <1>4, UpTo
  <2> QED BY <1>1, <2>1
<1> DEFINE after == input[n]
<1>6. Ok(after)
  BY <1>5
<1> HIDE DEF after
<1>7. CASE acked = {}
  BY <1>2, <1>6, <1>7 DEF after
<1>8. CASE acked # {}
  <2> DEFINE sn == Max(acked)  r == ParseFastack(after, sn)
             b == [i \in DOMAIN after.snd_buf |-> Overtaken(after.snd_buf[i], sn)]
  <2>1. Input(k, segs) = r
    BY <1>2, <1>8 DEF after
  <2> HIDE DEF sn
  <2>2. after \in Kcps /\ after.snd_buf \in Seq(Buffered)
    BY <1>6 DEF HoldsOf, Kcps
  <2>3. SameReceiver(r, after)
    BY <2>2, ParseFastackIs
  <2>4. r = after \/ r = [after EXCEPT !.snd_buf = b]
    BY DEF ParseFastack
  <2>5. b = <<>> => after.snd_buf = <<>>
    <3>1. DOMAIN b = DOMAIN after.snd_buf
      OBVIOUS
    <3>2. SUFFICES ASSUME b = <<>> PROVE after.snd_buf = <<>>
      OBVIOUS
    <3> HIDE DEF b
    <3>3. DOMAIN after.snd_buf = {}
      BY <3>1, <3>2
    <3> QED BY <2>2, <3>3, NoDomain
  <2> HIDE DEF b, r
  <2>6. /\ r.rmt_wnd = after.rmt_wnd /\ r.snd_una = after.snd_una /\ r.snd_nxt = after.snd_nxt
        /\ r.snd_buf = <<>> => after.snd_buf = <<>>
    BY <2>2, <2>4, <2>5 DEF Kcps
  <2>7. Tidy(r)
    BY <1>6, <2>3, <2>6 DEF Tidy, Drained, Neat, MustWait, InQueue, SameReceiver
  <2> QED BY <2>1, <2>7
<1> QED BY <1>7, <1>8

\* recv(): what moves up leaves it so.
LEMMA RecvTidy ==
  ASSUME NEW k, NEW G, G \subseteq Arrivals, HoldsOf(k, G), MessageReady(k), Tidy(k)
  PROVE  Tidy(RecvMessage(k))
<1> DEFINE n == k.rcv_queue[1].frg + 1
           h == [k EXCEPT !.rcv_queue = SubSeq(k.rcv_queue, n + 1, Len(k.rcv_queue))]
           j == MoveRcvBufToQueue(h)  r == RecvMessage(k)
<1>1. r = j \/ r = [j EXCEPT !.probe = j.probe \cup {"TELL"}]
  BY TakeFrontIs
<1>2. /\ HoldsOf(h, G) /\ SameSender(h, k) /\ h.rcv_nxt = k.rcv_nxt /\ h.rcv_buf = k.rcv_buf
      /\ h.rmt_wnd = k.rmt_wnd
  BY TakeFrontIs
<1> HIDE DEF n, h
<1>3. HoldsOf(j, G) /\ SameSender(j, h)
  BY <1>2, MoveIs
<1>4. Neat(j) /\ j.rmt_wnd = h.rmt_wnd
  <2>1. InOrderFrom(h.rcv_buf, h.rcv_nxt)
    BY <1>2 DEF Tidy, Neat
  <2> QED BY <1>2, <2>1, MoveNeat
<1> HIDE DEF j
<1>5. Tidy(j)
  BY <1>2, <1>3, <1>4 DEF Tidy, Drained, SameSender
<1>6. CASE r # j
  <2> DEFINE p == j.probe \cup {"TELL"}
  <2>1. r = [j EXCEPT !.probe = p] /\ j \in Kcps
    BY <1>1, <1>3, <1>6 DEF HoldsOf
  <2> HIDE DEF r, p
  <2>2. r.rmt_wnd = j.rmt_wnd /\ SameSender(r, j) /\ SameReceiver(r, j)
    BY <2>1 DEF Kcps, SameSender, SameReceiver
  <2> QED BY <1>5, <2>2, SameTidy DEF r
<1> QED BY <1>5, <1>6

\* deliver_received(): so do all the messages that are whole.
LEMMA DeliverReceivedTidy ==
  ASSUME NEW acc, InARow(acc), NEW k, HoldsOf(k, SegmentsOf(acc)), Tidy(k),
         NEW n \in 0 .. Len(acc), Base(k) = EndOf(acc, n)
  PROVE  Tidy(DeliverReceived(k).kcp)
<1> DEFINE most == InQueue(k) + InBuf(k)  first == [kcp |-> k, msgs |-> <<>>]
<1>1. most \in Nat /\ k \in Kcps /\ k.rcv_nxt \in Nat /\ n \in Nat /\ Len(acc) \in Nat
  <2>1. InQueue(k) \in Nat /\ InBuf(k) \in Nat
    BY CountsAre
  <2> QED BY <2>1 DEF HoldsOf, Kcps, InARow
<1>2. PICK delivered : /\ delivered[0] = first
                       /\ \A i \in 1 .. most : delivered[i] = DeliverNext(delivered[i - 1])
                       /\ DeliverReceived(k) = delivered[most]
  BY DeliverRuns
<1> HIDE DEF most
<1> DEFINE Ok(d) == HasDelivered(d, k, acc, n) /\ Tidy(d.kcp)
           Good == {i \in 0 .. most : Ok(delivered[i])}
<1>3. 0 \in Good
  <2>1. first.kcp = k /\ first.msgs = <<>>
    OBVIOUS
  <2>2. <<>> \in Seq(Seq(Arrivals)) /\ Len(<<>>) = 0
    OBVIOUS
  <2>3. SameSender(k, k) /\ Gains(k, k)
    BY <1>1 DEF SameSender, Gains
  <2> HIDE DEF first
  <2>4. n + Len(first.msgs) = n /\ n <= Len(acc) /\ 1 .. Len(first.msgs) = {}
    BY <1>1, <2>1, <2>2
  <2>5. Ok(first)
    BY <2>1, <2>2, <2>3, <2>4 DEF HasDelivered
  <2> HIDE DEF Ok
  <2> QED BY <1>1, <1>2, <2>5
<1>4. ASSUME NEW i \in 1 .. most, i - 1 \in Good PROVE i \in Good
  <2> DEFINE x == delivered[i - 1]  y == delivered[i]
  <2>1. Ok(x) /\ y = DeliverNext(x)
    <3> HIDE DEF Ok
    <3> QED BY <1>2, <1>4
  <2> HIDE DEF x, y
  <2>2. /\ HasDelivered(y, k, acc, n)
        /\ ~MessageReady(x.kcp) => y = x
        /\ MessageReady(x.kcp) => y = [kcp |-> RecvMessage(x.kcp), msgs |-> Append(x.msgs, FrontMessage(x.kcp))]
    BY <1>1, <2>1, DeliverNextIs
  <2>3. CASE ~MessageReady(x.kcp)
    <3>1. Ok(y)
      BY <2>1, <2>2, <2>3
    <3> HIDE DEF Ok
    <3> QED BY <1>1, <3>1 DEF y
  <2>4. CASE MessageReady(x.kcp)
    <3>1. y.kcp = RecvMessage(x.kcp)
      BY <2>2, <2>4
    <3>2. HoldsOf(x.kcp, SegmentsOf(acc)) /\ SegmentsOf(acc) \subseteq Arrivals
      BY <2>1 DEF HasDelivered, SegmentsOf
    <3>3. Tidy(y.kcp)
      BY <2>1, <2>4, <3>1, <3>2, RecvTidy
    <3>4. Ok(y)
      BY <2>2, <3>3
    <3> HIDE DEF Ok
    <3> QED BY <1>1, <3>4 DEF y
  <2> QED BY <2>3, <2>4
<1>5. most \in Good
  <2> HIDE DEF Good
  <2>1. \A i \in 0 .. most : i \in Good
    BY <1>1, <1>3, <1>4, UpTo
  <2> QED BY <1>1, <2>1
<1> QED BY <1>2, <1>5

\* ikcp_flush() moves to snd_buf what the window lets through.
LEMMA FilledIs ==
  ASSUME NEW k \in Kcps
  PROVE  LET r == FillWindow(k)  b == k.snd_buf  l == Len(b) IN
         /\ r.snd_una = k.snd_una /\ r.rmt_wnd = k.rmt_wnd /\ r.probe = k.probe
         /\ \E n \in 0 .. Len(k.snd_queue) :
              /\ r.snd_nxt = k.snd_nxt + n /\ r.snd_buf \in Seq(Buffered)
              /\ DOMAIN r.snd_buf = 1 .. l + n /\ l \in Nat
              /\ \A i \in 1 .. l : r.snd_buf[i] = b[i]
              /\ \A i \in l + 1 .. l + n : r.snd_buf[i].xmit = 0
              /\ n = 0 => \/ k.snd_una + AtMost(SndWnd, k.rmt_wnd) <= k.snd_nxt
                          \/ Len(k.snd_queue) = 0
<1> DEFINE q == k.snd_queue  b == k.snd_buf  l == Len(b)
           room == k.snd_una + AtMost(SndWnd, k.rmt_wnd) - k.snd_nxt
           n == IF room <= 0 THEN 0 ELSE AtMost(Len(q), room)
           new == [i \in 1..n |-> [sn |-> k.snd_nxt + i - 1, frg |-> q[i].frg,
                                   data |-> q[i].data, xmit |-> 0, fastack |-> 0]]
           more == b \o new  rest == SubSeq(q, n + 1, Len(q))  nxt == k.snd_nxt + n
           r == [k EXCEPT !.snd_buf = more, !.snd_queue = rest, !.snd_nxt = nxt]
<1>1. FillWindow(k) = r
  BY DEF FillWindow
<1>2. /\ q \in Seq(Queued) /\ b \in Seq(Buffered) /\ k.snd_nxt \in Nat /\ k.snd_una \in Nat /\ k.rmt_wnd \in Int
      /\ SndWnd \in Nat
  BY ArqAssumption DEF Kcps
<1>3. Len(q) \in Nat /\ l \in Nat /\ DOMAIN b = 1 .. l
  BY <1>2
<1> HIDE DEF l
<1>4. /\ n \in 0 .. Len(q)
      /\ n = 0 => \/ k.snd_una + AtMost(SndWnd, k.rmt_wnd) <= k.snd_nxt
                  \/ Len(q) = 0
  <2> DEFINE w == AtMost(SndWnd, k.rmt_wnd)  u == k.snd_una  x == k.snd_nxt  y == Len(q)
  <2>1. w \in Int /\ u \in Nat /\ x \in Nat /\ y \in Nat
    BY <1>2, <1>3 DEF AtMost
  <2> HIDE DEF w, u, x, y
  <2>2. n = IF u + w - x <= 0 THEN 0 ELSE AtMost(y, u + w - x)
    BY DEF w, u, x, y
  <2> HIDE DEF n
  <2>3. n \in 0 .. y /\ (n = 0 => u + w <= x \/ y = 0)
    BY <2>1, <2>2 DEF AtMost
  <2> QED BY <2>3 DEF w, u, x, y
<1> HIDE DEF n
<1>5. ASSUME NEW i \in 1 .. n PROVE new[i] \in Buffered /\ new[i].xmit = 0
  <2>1. q[i] \in Queued
    BY <1>2, <1>3, <1>4
  <2>2. q[i].frg \in Nat /\ q[i].data \in Data
    BY <2>1 DEF Queued
  <2>3. k.snd_nxt + i - 1 \in Nat
    BY <1>2, <1>4
  <2> QED BY <2>2, <2>3 DEF Buffered
<1>6. new \in Seq(Buffered) /\ Len(new) = n
  <2>1. new \in [1 .. n -> Buffered]
    <3>1. new = [i \in 1 .. n |-> new[i]]
      OBVIOUS
    <3> HIDE DEF new
    <3> QED BY <1>5, <3>1
  <2>2. n \in Nat
    BY <1>3, <1>4
  <2> HIDE DEF new
  <2> QED BY <2>1, <2>2
<1> HIDE DEF new
<1>7. /\ more \in Seq(Buffered) /\ DOMAIN more = 1 .. l + n
      /\ \A i \in 1 .. l : more[i] = b[i]
      /\ \A i \in 1 .. n : more[l + i] = new[i]
  <2> HIDE DEF b
  <2>1. more \in Seq(Buffered) /\ Len(more) = Len(b) + Len(new)
    BY <1>2, <1>6, ConcatProperties
  <2>2. n \in Nat /\ l \in Nat /\ l = Len(b)
    BY <1>3, <1>4 DEF l
  <2>3. \A i \in 1 .. l : more[i] = b[i]
    BY <1>2, <1>6, <2>2
  <2>4. \A i \in 1 .. n : more[l + i] = new[i]
    BY <1>2, <1>6, <2>2
  <2> HIDE DEF more
  <2>5. Len(more) = l + n
    BY <1>6, <2>1, <2>2
  <2>6. DOMAIN more = 1 .. Len(more)
    BY <2>1
  <2> QED BY <2>1, <2>3, <2>4, <2>5, <2>6
<1> HIDE DEF more
<1>8. ASSUME NEW i \in l + 1 .. l + n PROVE more[i].xmit = 0
  <2> DEFINE j == i - l
  <2>1. j \in 1 .. n /\ i = l + j
    BY <1>3, <1>4
  <2> HIDE DEF j
  <2> QED BY <1>5, <1>7, <2>1
<1> HIDE DEF rest, nxt
<1>9. /\ r.snd_una = k.snd_una /\ r.rmt_wnd = k.rmt_wnd /\ r.probe = k.probe
      /\ r.snd_nxt = nxt /\ r.snd_buf = more
  BY DEF Kcps
<1> HIDE DEF r
<1>10. /\ r.snd_nxt = k.snd_nxt + n /\ r.snd_buf \in Seq(Buffered)
       /\ DOMAIN r.snd_buf = 1 .. l + n /\ l \in Nat
       /\ \A i \in 1 .. l : r.snd_buf[i] = b[i]
       /\ \A i \in l + 1 .. l + n : r.snd_buf[i].xmit = 0
       /\ n = 0 => \/ k.snd_una + AtMost(SndWnd, k.rmt_wnd) <= k.snd_nxt
                   \/ Len(k.snd_queue) = 0
  BY <1>3, <1>4, <1>7, <1>8, <1>9 DEF nxt
<1> QED BY <1>1, <1>4, <1>9, <1>10 DEF l, b, q

\* flush() leaves it so, and tells of the window.
LEMMA FlushedTidy ==
  ASSUME NEW k, NEW G, NEW acc, NEW H, HoldsOf(k, G), SenderOf(k, acc), NoneForgotten(k, H),
         NEW late, NEW due \in BOOLEAN, Tidy(k)
  PROVE  Tidy(Flushed(k, late, due).next)
<1> DEFINE p == ProbeWindow(k, due)  w == FillWindow(p)  t == Transmit(w, late)
           r == [t EXCEPT !.acklist = <<>>, !.probe = {}]
<1>1. Flushed(k, late, due).next = r
  BY DEF Flushed
<1>2. k \in Kcps
  BY DEF HoldsOf
<1>3. p \in Kcps /\ SameSender(p, k) /\ SameReceiver(p, k) /\ p.rmt_wnd = k.rmt_wnd
  <2>1. p.rmt_wnd = k.rmt_wnd
    <3> DEFINE x == IF k.probe_wait /\ due THEN k.probe \cup {"SEND"} ELSE k.probe
    <3>1. p = IF k.rmt_wnd # 0 THEN [k EXCEPT !.probe_wait = FALSE]
              ELSE [k EXCEPT !.probe_wait = TRUE, !.probe = x]
      BY DEF ProbeWindow
    <3> HIDE DEF x, p
    <3> QED BY <1>2, <3>1 DEF Kcps
  <2> QED BY <1>2, <2>1, ProbeWindowIs
<1> HIDE DEF p
<1>4. Tidy(p) /\ SenderOf(p, acc) /\ NoneForgotten(p, H)
  BY <1>3, SameTidy DEF SameSender, SenderOf, NoneForgotten
<1>5. w \in Kcps /\ SameReceiver(w, p)
  BY <1>3, <1>4, FillWindowIs
<1>6. Drained(w) /\ w.rmt_wnd = p.rmt_wnd
  <2> DEFINE l == Len(p.snd_buf)
  <2>1. PICK n \in 0 .. Len(p.snd_queue) :
          /\ w.snd_nxt = p.snd_nxt + n /\ w.snd_buf \in Seq(Buffered)
          /\ DOMAIN w.snd_buf = 1 .. l + n /\ l \in Nat
    BY <1>3, FilledIs
  <2>2. w.snd_una = p.snd_una /\ w.rmt_wnd = p.rmt_wnd
    BY <1>3, FilledIs
  <2> HIDE DEF w
  <2>3. p.snd_buf \in Seq(Buffered) /\ p.snd_queue \in Seq(Queued) /\ p.snd_nxt \in Nat
    BY <1>3 DEF Kcps
  <2>4. ASSUME w.snd_buf = <<>> PROVE w.snd_una = w.snd_nxt
    <3>1. DOMAIN w.snd_buf = {} /\ n \in Nat
      <4>1. Len(p.snd_queue) \in Nat
        BY <2>3
      <4> QED BY <2>4, <4>1
    <3> HIDE DEF l
    <3>2. l = 0 /\ n = 0
      <4>1. 1 .. l + n = {}
        BY <2>1, <3>1
      <4> QED BY <2>1, <3>1, <4>1
    <3>3. p.snd_buf = <<>>
      BY <2>3, <3>2 DEF l
    <3>4. p.snd_una = p.snd_nxt
      BY <1>4, <3>3 DEF Tidy, Drained
    <3> QED BY <2>1, <2>2, <2>3, <3>2, <3>4
  <2> QED BY <2>2, <2>4 DEF Drained
<1> HIDE DEF w
<1>7. t \in Kcps /\ SameReceiver(t, w) /\ SenderFollows(t, w, H)
  BY <1>5, TransmitIs
<1>8. Drained(t) /\ t.rmt_wnd = w.rmt_wnd
  <2> DEFINE buf == [i \in DOMAIN w.snd_buf |->
                       IF NeedSend(w.snd_buf[i], late) THEN Transmitted(w.snd_buf[i]) ELSE w.snd_buf[i]]
             s == IF \E i \in DOMAIN buf : buf[i].xmit >= DeadLink THEN -1 ELSE w.state
  <2>1. t = [w EXCEPT !.snd_buf = buf, !.state = s]
    BY DEF Transmit
  <2>2. DOMAIN buf = DOMAIN w.snd_buf
    OBVIOUS
  <2> HIDE DEF buf, s, t
  <2>3. t.snd_buf = buf /\ t.rmt_wnd = w.rmt_wnd /\ t.snd_una = w.snd_una /\ t.snd_nxt = w.snd_nxt
    BY <1>5, <2>1 DEF Kcps
  <2>4. ASSUME t.snd_buf = <<>> PROVE w.snd_buf = <<>>
    <3>1. DOMAIN w.snd_buf = {}
      BY <2>2, <2>3, <2>4
    <3>2. w.snd_buf \in Seq(Buffered)
      BY <1>5 DEF Kcps
    <3> QED BY <3>1, <3>2, NoDomain
  <2> QED BY <1>6, <2>3, <2>4 DEF Drained
<1> HIDE DEF t
<1>9. /\ r.rmt_wnd = t.rmt_wnd /\ SameSender(r, t) /\ r.rcv_queue = t.rcv_queue
      /\ r.rcv_buf = t.rcv_buf /\ r.rcv_nxt = t.rcv_nxt
  BY <1>7 DEF Kcps, SameSender
<1> HIDE DEF r
<1>10. Drained(r) /\ r.rmt_wnd > 0
  <2>1. r.rmt_wnd = k.rmt_wnd
    BY <1>3, <1>6, <1>8, <1>9
  <2> QED BY <1>8, <1>9, <2>1 DEF Drained, SameSender, Tidy
<1>11. Neat(r)
  <2>1. r.rcv_queue = k.rcv_queue /\ r.rcv_buf = k.rcv_buf /\ r.rcv_nxt = k.rcv_nxt
    BY <1>3, <1>5, <1>7, <1>9 DEF SameReceiver
  <2> QED BY <2>1 DEF Tidy, Neat, MustWait, InQueue
<1> QED BY <1>1, <1>10, <1>11 DEF Tidy

\* Segments that tell of an open window.
Telling == {s \in Segments : s.wnd > 0}

\* Every segment of flush() tells of the window.
LEMMA FlushedTells ==
  ASSUME NEW k, NEW G, NEW acc, NEW H, HoldsOf(k, G), Acked(k), SenderOf(k, acc), NoneForgotten(k, H),
         NEW late, NEW due \in BOOLEAN, Wnd(k) > 0
  PROVE  LET w == FillWindow(ProbeWindow(k, due)) IN
         Acks(k) \in Seq(Telling) /\ Probes(w) \in Seq(Telling) /\ Pushes(w, late) \in Seq(Telling)
<1> DEFINE p == ProbeWindow(k, due)  w == FillWindow(p)  P == Telling
<1>1. ASSUME NEW F, NEW J, NEW h \in Honest(F, J), h.wnd = Wnd(k) PROVE h \in Telling
  BY <1>1 DEF Honest, Telling
<1>2. k \in Kcps /\ k.acklist \in Seq(Nat)
  BY DEF HoldsOf, Kcps
<1>3. p \in Kcps /\ SameSender(p, k) /\ SameReceiver(p, k)
  BY <1>2, ProbeWindowIs
<1> HIDE DEF p
<1>4. SenderOf(p, acc) /\ NoneForgotten(p, H)
  BY <1>3 DEF SameSender, SenderOf, NoneForgotten
<1>5. w \in Kcps /\ SameReceiver(w, p) /\ SenderOf(w, acc)
  BY <1>3, <1>4, FillWindowIs
<1> HIDE DEF w
<1>6. SameReceiver(w, k)
  BY <1>3, <1>5 DEF SameReceiver
<1>7. HoldsOf(w, G) /\ Had(w) = Had(k) /\ Wnd(w) = Wnd(k)
  BY <1>2, <1>5, <1>6, SameReceiverFollows DEF Had, HasCome, SameReceiver, Wnd
<1>8. Acks(k) \in Seq(P)
  <2> DEFINE a == Acks(k)
  <2>1. a = [i \in DOMAIN k.acklist |-> [Header(k, "ACK") EXCEPT !.sn = k.acklist[i]]]
    BY DEF Acks
  <2>2. DOMAIN k.acklist = 1 .. Len(k.acklist) /\ Len(k.acklist) \in Nat
    BY <1>2
  <2>3. ASSUME NEW i \in DOMAIN k.acklist PROVE [Header(k, "ACK") EXCEPT !.sn = k.acklist[i]] \in P
    <3> DEFINE sn == k.acklist[i]  h == [Header(k, "ACK") EXCEPT !.sn = sn]
    <3>1. sn \in Nat
      BY <1>2
    <3>2. sn \in Had(k)
      BY <3>1 DEF Acked, Had
    <3> HIDE DEF sn
    <3>3. h \in Honest(SegmentsOf(acc), Had(k))
      BY <3>1, <3>2, HeaderIs
    <3>4. h.wnd = Wnd(k)
      BY DEF Header
    <3>5. h \in Telling
      BY <1>1, <3>3, <3>4
    <3> QED BY <3>5 DEF sn
  <2> HIDE DEF P
  <2>4. a \in [1 .. Len(k.acklist) -> P]
    BY <2>1, <2>2, <2>3
  <2> HIDE DEF a
  <2>5. a \in Seq(P)
    BY <2>2, <2>4
  <2> QED BY <2>5 DEF a
<1>9. Probes(w) \in Seq(P)
  <2>1. ASSUME NEW cmd \in {"WASK", "WINS"} PROVE Header(w, cmd) \in P
    <3>1. [Header(w, cmd) EXCEPT !.sn = 0] = Header(w, cmd) /\ Header(w, cmd).wnd = Wnd(w)
      BY DEF Header
    <3>2. [Header(w, cmd) EXCEPT !.sn = 0] \in Honest(SegmentsOf(acc), Had(w))
      BY <1>7, HeaderIs
    <3>3. Header(w, cmd) \in Honest(SegmentsOf(acc), Had(w)) /\ Header(w, cmd).wnd = Wnd(k)
      BY <1>7, <3>1, <3>2
    <3> QED BY <1>1, <3>3
  <2> HIDE DEF P
  <2> DEFINE x == IF "SEND" \in w.probe THEN <<Header(w, "WASK")>> ELSE <<>>
             y == IF "TELL" \in w.probe THEN <<Header(w, "WINS")>> ELSE <<>>
  <2>2. x \in Seq(P) /\ y \in Seq(P)
    BY <2>1
  <2>3. Probes(w) = x \o y
    BY DEF Probes
  <2> HIDE DEF x, y
  <2> QED BY <2>2, <2>3
<1>10. Pushes(w, late) \in Seq(P)
  <2> DEFINE b == w.snd_buf  K == {s \in Range(b) : NeedSend(s, late)}  d == Kept(b, K)
             a == [i \in DOMAIN d |-> [Header(w, "PUSH") EXCEPT !.sn = d[i].sn, !.frg = d[i].frg,
                                                               !.data = d[i].data]]
  <2>1. Pushes(w, late) = a
    BY DEF Pushes
  <2>2. b \in Seq(Buffered)
    BY <1>5 DEF Kcps
  <2>3. d \in Seq(Buffered) /\ \A i \in DOMAIN d : \E j \in DOMAIN b : b[j] = d[i]
    <3> HIDE DEF b, K
    <3> QED BY <2>2, KeptIs
  <2> HIDE DEF d
  <2>4. DOMAIN d = 1 .. Len(d) /\ Len(d) \in Nat
    BY <2>3
  <2>5. ASSUME NEW i \in DOMAIN d
        PROVE  [Header(w, "PUSH") EXCEPT !.sn = d[i].sn, !.frg = d[i].frg, !.data = d[i].data] \in P
    <3> DEFINE s == d[i]  h == [Header(w, "PUSH") EXCEPT !.sn = s.sn, !.frg = s.frg, !.data = s.data]
    <3>1. s \in Buffered
      BY <2>3
    <3>2. PICK j \in DOMAIN b : b[j] = s
      BY <2>3
    <3>3. IsFragment(acc, s.sn, s)
      BY <1>5, <3>2 DEF SenderOf
    <3> HIDE DEF s
    <3>4. h \in Honest(SegmentsOf(acc), Had(w))
      BY <1>7, <3>1, <3>3, PushIs
    <3>5. h.wnd = Wnd(w)
      BY DEF Header
    <3>6. h \in Telling
      BY <1>1, <1>7, <3>4, <3>5
    <3> QED BY <3>6 DEF s
  <2> HIDE DEF P
  <2>6. a \in [1 .. Len(d) -> P]
    BY <2>4, <2>5
  <2> HIDE DEF a
  <2>7. a \in Seq(P)
    BY <2>4, <2>6
  <2> QED BY <2>1, <2>7
<1> QED BY <1>8, <1>9, <1>10 DEF p, w

\* Lists that make an empty one together are empty.
LEMMA NothingJoined ==
  ASSUME NEW S, NEW x \in Seq(S), NEW y \in Seq(S), NEW z \in Seq(S), x \o y \o z = <<>>
  PROVE  z = <<>>
<1>1. x \o y \in Seq(S) /\ Len(z) \in Nat
  BY ConcatProperties
<1> DEFINE u == x \o y
<1>2. u \in Seq(S) /\ u \o z = <<>>
  BY <1>1
<1> HIDE DEF u
<1>3. Len(u) + Len(z) = 0 /\ Len(u) \in Nat
  <2>1. Len(u \o z) = Len(u) + Len(z) /\ Len(u) \in Nat
    BY <1>2, ConcatProperties
  <2>2. Len(<<>>) = 0
    OBVIOUS
  <2> QED BY <1>2, <2>1, <2>2
<1>4. Len(z) = 0
  BY <1>1, <1>3
<1> QED BY <1>4

\* An end that would send nothing has nothing left to send.
LEMMA SilentSender ==
  ASSUME NEW k, NEW G, NEW acc, NEW H, HoldsOf(k, G), Acked(k), SenderOf(k, acc), NoneForgotten(k, H),
         Wnd(k) > 0, Tidy(k), SndWnd > 0, AllLate(k).out = <<>>
  PROVE  k.snd_buf = <<>> /\ k.snd_queue = <<>>
<1> DEFINE late == {k.snd_buf[i].sn : i \in DOMAIN k.snd_buf}
           p == ProbeWindow(k, TRUE)  w == FillWindow(p)
           b == w.snd_buf  K == {s \in Range(b) : NeedSend(s, late)}  d == Kept(b, K)
           a == [i \in DOMAIN d |-> [Header(w, "PUSH") EXCEPT !.sn = d[i].sn, !.frg = d[i].frg,
                                                             !.data = d[i].data]]
<1>1. Acks(k) \o Probes(w) \o Pushes(w, late) = <<>> /\ Pushes(w, late) = a
  BY DEF AllLate, Flushed, Pushes
<1>2. p \in Kcps /\ SameSender(p, k) /\ p.rmt_wnd = k.rmt_wnd /\ k \in Kcps
  <2>1. k \in Kcps
    BY DEF HoldsOf
  <2>2. p.rmt_wnd = k.rmt_wnd
    <3> DEFINE x == IF k.probe_wait /\ TRUE THEN k.probe \cup {"SEND"} ELSE k.probe
    <3>1. p = IF k.rmt_wnd # 0 THEN [k EXCEPT !.probe_wait = FALSE]
              ELSE [k EXCEPT !.probe_wait = TRUE, !.probe = x]
      BY DEF ProbeWindow
    <3> HIDE DEF x, p
    <3> QED BY <2>1, <3>1 DEF Kcps
  <2> QED BY <2>1, <2>2, ProbeWindowIs
<1>3. Pushes(w, late) = <<>>
  <2>1. Acks(k) \in Seq(Telling) /\ Probes(w) \in Seq(Telling) /\ Pushes(w, late) \in Seq(Telling)
    BY FlushedTells
  <2> HIDE DEF w, late
  <2> QED BY <1>1, <2>1, NothingJoined
<1> DEFINE l == Len(p.snd_buf)
<1> HIDE DEF p
<1>4. PICK n \in 0 .. Len(p.snd_queue) :
        /\ b \in Seq(Buffered) /\ DOMAIN b = 1 .. l + n /\ l \in Nat
        /\ \A i \in 1 .. l : b[i] = p.snd_buf[i]
        /\ \A i \in l + 1 .. l + n : b[i].xmit = 0
        /\ n = 0 => \/ p.snd_una + AtMost(SndWnd, p.rmt_wnd) <= p.snd_nxt
                    \/ Len(p.snd_queue) = 0
  BY <1>2, FilledIs
<1> HIDE DEF w
<1>5. /\ p.snd_buf \in Seq(Buffered) /\ p.snd_queue \in Seq(Queued) /\ p.snd_nxt \in Nat
      /\ p.rmt_wnd \in Int /\ p.snd_buf = k.snd_buf /\ p.snd_queue = k.snd_queue /\ p.snd_una = k.snd_una
      /\ p.snd_nxt = k.snd_nxt
  BY <1>2 DEF Kcps, SameSender
<1>6. n \in Nat /\ DOMAIN p.snd_buf = 1 .. l /\ Len(p.snd_queue) \in Nat
  BY <1>5
<1>7. d \in Seq(Buffered) /\ \A j \in DOMAIN b : b[j] \in K => \E i \in DOMAIN d : d[i] = b[j]
  <2>1. b \in Seq(Buffered)
    BY <1>4
  <2> HIDE DEF b, K
  <2> QED BY <2>1, KeptIs
<1>8. DOMAIN d = {}
  <2>1. DOMAIN a = DOMAIN d /\ a = <<>>
    BY <1>1, <1>3
  <2> HIDE DEF a
  <2> QED BY <2>1
<1> HIDE DEF d, a
<1>9. ASSUME NEW j \in DOMAIN b PROVE b[j] \in K
  <2>1. b[j] \in Range(b)
    BY DEF Range
  <2>2. CASE j \in 1 .. l
    <3>1. b[j] = k.snd_buf[j] /\ j \in DOMAIN k.snd_buf
      BY <1>4, <1>5, <1>6, <2>2
    <3>2. b[j].sn \in late
      BY <3>1
    <3> QED BY <2>1, <3>2 DEF NeedSend
  <2>3. CASE j \notin 1 .. l
    <3>1. j \in l + 1 .. l + n
      <4>1. j \in 1 .. l + n
        BY <1>4
      <4> HIDE DEF l
      <4> QED BY <1>4, <1>6, <2>3, <4>1
    <3>2. b[j].xmit = 0
      BY <1>4, <3>1
    <3> QED BY <2>1, <3>2 DEF NeedSend
  <2> QED BY <2>2, <2>3
<1>10. DOMAIN b = {}
  <2> HIDE DEF b, K
  <2>1. \A j \in DOMAIN b : \E i \in DOMAIN d : d[i] = b[j]
    BY <1>7, <1>9
  <2> QED BY <1>8, <2>1
<1>11. l = 0 /\ n = 0
  <2>1. 1 .. l + n = {}
    BY <1>4, <1>10
  <2>2. l \in Nat /\ n \in Nat
    BY <1>4, <1>6
  <2> HIDE DEF l
  <2> QED BY <2>1, <2>2
<1>12. k.snd_buf = <<>>
  BY <1>5, <1>11
<1>13. k.snd_una = k.snd_nxt
  BY <1>12 DEF Tidy, Drained
<1>14. AtMost(SndWnd, p.rmt_wnd) > 0
  <2>1. SndWnd \in Nat /\ k.rmt_wnd > 0
    BY ArqAssumption DEF Tidy
  <2> QED BY <1>2, <2>1 DEF AtMost
<1>15. Len(p.snd_queue) = 0
  <2> DEFINE m == AtMost(SndWnd, p.rmt_wnd)  u == p.snd_una
  <2>1. m \in Int /\ m > 0 /\ u \in Nat /\ u = p.snd_nxt
    <3>1. SndWnd \in Nat
      BY ArqAssumption
    <3>2. m \in Int
      BY <1>5, <3>1 DEF AtMost
    <3>3. u = p.snd_nxt
      BY <1>5, <1>13
    <3>4. u \in Nat
      BY <1>5, <3>3
    <3> QED BY <1>14, <3>2, <3>3, <3>4
  <2> HIDE DEF m, u
  <2>2. ~(u + m <= p.snd_nxt)
    BY <2>1
  <2> QED BY <1>4, <1>11, <2>2 DEF m, u
<1>16. k.snd_queue = <<>>
  <2> DEFINE q == p.snd_queue
  <2>1. q \in Seq(Queued) /\ Len(q) = 0
    BY <1>5, <1>15
  <2> HIDE DEF q
  <2>2. q = <<>>
    BY <2>1
  <2> QED BY <1>5, <2>2 DEF q
<1> QED BY <1>12, <1>16

\* A receiver that has come by all the segments, and has nothing whole left,
\* has delivered all.
LEMMA SilentReceiver ==
  ASSUME NEW acc, InARow(acc), NEW k, HoldsOf(k, SegmentsOf(acc)), ~MessageReady(k), Neat(k), Wnd(k) > 0,
         NEW h \in Seq(Seq(Data)), HasHeard(h, k, acc), \A sn \in 0 .. EndOf(acc, Len(acc)) - 1 : sn \in Had(k)
  PROVE  Len(h) = Len(acc)
<1> DEFINE q == k.rcv_queue  b == k.rcv_buf  n == Len(h)  last == EndOf(acc, Len(acc))
<1>1. /\ q \in Seq(Arrivals) /\ b \in Seq(Arrivals) /\ k.rcv_nxt \in Nat /\ InQueue(k) = Len(q)
      /\ q \in Seq(SegmentsOf(acc)) /\ RcvWnd \in Nat
      /\ acc \in Seq(Accounts)
  BY ArqAssumption DEF HoldsOf, Kcps, InQueue, InARow
<1>2. /\ Len(q) \in Nat /\ Len(acc) \in Nat /\ n \in Nat /\ DOMAIN b = 1 .. Len(b) /\ Len(b) \in Nat
      /\ n <= Len(acc) /\ k.rcv_nxt - Len(q) = EndOf(acc, n)
  BY <1>1 DEF HasHeard, Base, InQueue
<1>3. last \in Nat
  BY <1>2, EndOfIs
<1> HIDE DEF last, q, n
<1>4. k.rcv_nxt >= last
  <2>1. SUFFICES ASSUME k.rcv_nxt < last PROVE FALSE
    BY <1>1, <1>3
  <2>2. k.rcv_nxt \in Had(k)
    BY <1>1, <1>3, <2>1 DEF last
  <2>3. PICK i \in DOMAIN b : b[i].sn = k.rcv_nxt
    BY <1>1, <2>2 DEF Had, HasCome
  <2>4. i = 1 /\ 1 \in DOMAIN b
    <3>1. 1 \in DOMAIN b /\ (i # 1 => 1 < i)
      BY <1>2
    <3>2. b[1] \in Arrivals
      BY <1>1, <3>1
    <3>3. b[1].sn \in Nat /\ b[1].sn >= k.rcv_nxt
      BY <3>1, <3>2 DEF Neat, InOrderFrom, Arrivals
    <3>4. i # 1 => b[1].sn < b[i].sn
      BY <3>1 DEF Neat, InOrderFrom, Ascends
    <3> QED BY <1>1, <2>3, <3>1, <3>3, <3>4
  <2>5. b # <<>>
    BY <2>4
  <2>6. ~(InQueue(k) >= RcvWnd)
    BY <1>1, <1>2 DEF Wnd, q
  <2> QED BY <2>3, <2>4, <2>5, <2>6 DEF Neat, MustWait
<1>5. SUFFICES ASSUME n # Len(acc) PROVE FALSE
  BY DEF n
<1> DEFINE m == acc[n + 1]
<1>6. n + 1 \in 1 .. Len(acc)
  BY <1>2, <1>5
<1>7. m \in Accounts /\ m.frags >= 1 /\ m.first = EndOf(acc, n)
  <2> DEFINE i == n + 1
  <2>1. i \in 1 .. Len(acc) /\ i - 1 = n
    BY <1>2, <1>5
  <2> HIDE DEF i
  <2>2. acc[i] \in Accounts
    BY <1>1, <2>1
  <2>3. acc[i].frags >= 1 /\ acc[i].first = EndOf(acc, i - 1)
    BY <2>1 DEF InARow
  <2> QED BY <2>1, <2>2, <2>3 DEF i
<1>8. m.first \in Nat /\ m.frags \in Nat
  BY <1>7 DEF Accounts
<1>9. m.first + m.frags <= last
  <2> DEFINE l == Len(acc)
  <2>1. l # 0 /\ l \in 1 .. l
    BY <1>2, <1>6
  <2>2. last = acc[l].first + acc[l].frags
    BY <2>1 DEF last, EndOf
  <2>3. CASE n + 1 = l
    <3>1. last = m.first + m.frags
      BY <2>2, <2>3
    <3> HIDE DEF m
    <3> QED BY <1>3, <1>8, <3>1
  <2>4. CASE n + 1 # l
    <3>1. n + 1 < l
      BY <1>2, <1>6, <2>4
    <3>2. m.first + m.frags <= acc[l].first
      BY <1>6, <2>1, <3>1 DEF InARow
    <3>3. acc[l] \in Accounts
      BY <1>1, <2>1
    <3>4. acc[l].first \in Nat /\ acc[l].frags \in Nat
      BY <3>3 DEF Accounts
    <3> DEFINE x == acc[l].first  y == acc[l].frags
    <3> HIDE DEF m, l, x, y, last
    <3>5. x \in Nat /\ y \in Nat /\ last = x + y /\ m.first + m.frags <= x
      BY <2>2, <3>2, <3>4 DEF x, y
    <3> QED BY <1>8, <3>5
  <2> QED BY <2>3, <2>4
<1> HIDE DEF m
<1>10. Len(q) >= m.frags
  BY <1>1, <1>2, <1>3, <1>4, <1>7, <1>8, <1>9
<1>11. 1 \in 1 .. Len(q) /\ q # <<>> /\ q[1] \in SegmentsOf(acc)
  <2>1. 1 \in 1 .. Len(q)
    BY <1>2, <1>7, <1>8, <1>10
  <2> QED BY <1>1, <2>1
<1>12. q[1].sn = m.first
  <2>1. q[1].sn = Base(k) + 1 - 1
    BY <1>1, <1>11 DEF HoldsOf, q
  <2>2. Base(k) = m.first
    BY <1>1, <1>2, <1>7 DEF Base
  <2> QED BY <1>8, <2>1, <2>2
<1>13. PICK i \in 1 .. Len(acc) : FragmentOf(acc[i], q[1].sn, q[1])
  BY <1>11 DEF SegmentsOf, IsFragment
<1>14. i = n + 1
  <2>1. m.first <= m.first /\ m.first < m.first + m.frags
    BY <1>7, <1>8
  <2>2. acc[i].first <= m.first /\ m.first < acc[i].first + acc[i].frags
    BY <1>12, <1>13 DEF FragmentOf
  <2> QED BY <1>6, <1>8, <2>1, <2>2, OneMessage DEF m
<1>15. q[1].frg = m.frags - 1
  <2>1. q[1].frg = m.first + m.frags - 1 - q[1].sn
    BY <1>13, <1>14 DEF FragmentOf, m
  <2> QED BY <1>8, <1>12, <2>1
<1>16. Len(q) > q[1].frg
  BY <1>2, <1>8, <1>10, <1>15
<1> QED BY <1>11, <1>16 DEF MessageReady, q

\* Each end is tidy, and every segment on the wire tells of an open window.
TidyInv == (\A e \in Ends : Tidy(kcp[e])) /\ \A d \in datagrams : d.segs \in Seq(Telling)

\* What holds of the control block that changed, and of what it sent.
LEMMA OneMoves ==
  ASSUME ArqInv, TidyInv, NEW e \in Ends, NEW r, kcp' = [kcp EXCEPT ![e] = r], Tidy(r),
         \A d \in datagrams' : d \in datagrams \/ d.segs \in Seq(Telling)
  PROVE  TidyInv'
<1>1. kcp'[e] = r /\ \A x \in Ends : x # e => kcp'[x] = kcp[x]
  BY DEF ArqInv
<1>2. \A x \in Ends : Tidy(kcp'[x])
  BY <1>1 DEF TidyInv
<1> QED BY <1>2 DEF TidyInv

\* drain_send_q() has nothing to do with it.
LEMMA DrainSendQTidy ==
  ASSUME ArqInv, TidyInv, NEW e \in Ends, DrainSendQ(e)
  PROVE  TidyInv'
<1> DEFINE k == kcp[e]  id == said[e] + 1  n == Messages[e][id]  q == k.snd_queue \o Fragments(id, n)
           r == [k EXCEPT !.snd_queue = q]
<1>1. datagrams' = datagrams /\ (kcp' = kcp \/ kcp' = [kcp EXCEPT ![e] = r])
  BY DEF DrainSendQ, SendMessage
<1>2. k \in Kcps /\ Tidy(k)
  BY DEF ArqInv, TidyInv
<1>3. kcp' = [kcp EXCEPT ![e] = k] \/ kcp' = [kcp EXCEPT ![e] = r]
  BY <1>1 DEF ArqInv
<1> HIDE DEF k, q
<1>4. /\ r.rmt_wnd = k.rmt_wnd /\ r.snd_una = k.snd_una /\ r.snd_nxt = k.snd_nxt /\ r.snd_buf = k.snd_buf
      /\ SameReceiver(r, k)
  BY <1>2 DEF Kcps, SameReceiver
<1>5. Tidy(r)
  BY <1>2, <1>4 DEF Tidy, Drained, Neat, MustWait, InQueue, SameReceiver
<1> HIDE DEF r
<1> QED BY <1>1, <1>2, <1>3, <1>5, OneMoves

\* A datagram leaves its receiver tidy.
LEMMA OnDatagramTidy ==
  ASSUME ArqInv, TidyInv, NEW e \in Ends, OnDatagram(e)
  PROVE  TidyInv'
<1> DEFINE o == Other(e)  k == kcp[e]  acc == taken[o]  H == Had(kcp[o])  n == Len(heard[e])
<1>1. PICK d \in datagrams :
        /\ d.to = e /\ kcp' = [kcp EXCEPT ![e] = DeliverReceived(Input(kcp[e], d.segs)).kcp]
        /\ datagrams' = datagrams
  BY DEF OnDatagram
<1> DEFINE p == Input(k, d.segs)  r == DeliverReceived(p)
<1>2. o \in Ends /\ InARow(acc) /\ heard[e] \in Seq(Seq(Data)) /\ k \in Kcps /\ n \in Nat
  BY EndsAre DEF ArqInv, SenderOK
<1>3. HoldsOf(k, SegmentsOf(acc)) /\ Acked(k) /\ HasHeard(heard[e], k, acc) /\ Tidy(k)
  BY DEF ArqInv, ReceiverOK, TidyInv
<1>4. d.segs \in Seq(Honest(SegmentsOf(acc), H)) /\ d.segs \in Seq(Telling)
  BY <1>1 DEF ArqInv, WireOK, TidyInv
<1>5. SegmentsOf(acc) \subseteq Arrivals
  BY DEF SegmentsOf
<1>6. kcp' = [kcp EXCEPT ![e] = r.kcp]
  BY <1>1
<1> DEFINE segs == d.segs
<1>7. \A i \in DOMAIN segs : segs[i].wnd > 0
  <2>1. \A i \in DOMAIN segs : segs[i] \in Telling
    BY <1>4
  <2> QED BY <2>1 DEF Telling
<1> HIDE DEF H, k, acc, o, p, r
<1>8. HoldsOf(p, SegmentsOf(acc)) /\ ReceiverFollows(p, k)
  BY <1>3, <1>4, <1>5, InputIs DEF p
<1>9. Tidy(p)
  BY <1>3, <1>4, <1>5, <1>7, InputTidy DEF p
<1>10. n \in 0 .. Len(acc) /\ Base(p) = EndOf(acc, n)
  <2>1. n <= Len(acc) /\ Base(k) = EndOf(acc, n)
    BY <1>3 DEF HasHeard
  <2>2. acc \in Seq(Accounts)
    BY <1>2 DEF InARow
  <2> QED BY <1>2, <1>8, <2>1, <2>2 DEF ReceiverFollows
<1>11. Tidy(r.kcp)
  <2> HIDE DEF n
  <2> QED BY <1>2, <1>8, <1>9, <1>10, DeliverReceivedTidy DEF r
<1> QED BY <1>1, <1>6, <1>11, OneMoves

\* A flush leaves its end tidy and tells of an open window.
LEMMA UpdateTidy ==
  ASSUME RoomForOne, ArqInv, TidyInv, NEW e \in Ends, Update(e)
  PROVE  TidyInv'
<1> DEFINE o == Other(e)  k == kcp[e]
<1>1. PICK late \in SUBSET {k.snd_buf[i].sn : i \in DOMAIN k.snd_buf}, due \in BOOLEAN :
        LET f == Flushed(k, late, due)
            sent == datagrams \cup {[to |-> o, segs |-> f.out]} IN
        /\ kcp' = [kcp EXCEPT ![e] = f.next]
        /\ datagrams' = IF f.out = <<>> \/ Cardinality(sent) > ArqWireRoom THEN datagrams ELSE sent
  BY DEF Update
<1> DEFINE f == Flushed(k, late, due)  r == f.next  w == FillWindow(ProbeWindow(k, due))
<1>2. /\ kcp' = [kcp EXCEPT ![e] = r]
      /\ \A d \in datagrams' : d \in datagrams \/ d = [to |-> o, segs |-> f.out]
  BY <1>1
<1>3. /\ HoldsOf(k, SegmentsOf(taken[o])) /\ Acked(k) /\ SenderOf(k, taken[e])
      /\ NoneForgotten(k, Had(kcp[o])) /\ Tidy(k)
  BY DEF ArqInv, ReceiverOK, SenderOK, TidyInv
<1>4. Wnd(k) > 0
  BY WindowIsOpen DEF ReceiverOpen
<1>5. f.out = Acks(k) \o Probes(w) \o Pushes(w, late)
  BY DEF Flushed
<1> HIDE DEF k, o, f, w
<1>6. Acks(k) \in Seq(Telling) /\ Probes(w) \in Seq(Telling) /\ Pushes(w, late) \in Seq(Telling)
  BY <1>1, <1>3, <1>4, FlushedTells DEF w
<1>7. f.out \in Seq(Telling)
  <2> DEFINE x == Acks(k)  y == Probes(w)  z == Pushes(w, late)
  <2>1. x \in Seq(Telling) /\ y \in Seq(Telling) /\ z \in Seq(Telling)
    BY <1>6
  <2> HIDE DEF x, y, z
  <2>2. x \o y \o z \in Seq(Telling)
    BY <2>1
  <2> QED BY <1>5, <2>2 DEF x, y, z
<1>8. Tidy(r)
  BY <1>1, <1>3, FlushedTidy DEF f
<1> HIDE DEF r
<1>9. \A d \in datagrams' : d \in datagrams \/ d.segs \in Seq(Telling)
  BY <1>2, <1>7
<1> QED BY <1>2, <1>8, <1>9, OneMoves

\* Every step keeps both ends tidy.
LEMMA TidyStep == ASSUME RoomForOne, ArqInv, TidyInv, [ArqNext]_arqvars PROVE TidyInv'
<1>1. ASSUME NEW e \in Ends, DrainSendQ(e) \/ OnDatagram(e) \/ Update(e) PROVE TidyInv'
  BY <1>1, DrainSendQTidy, OnDatagramTidy, UpdateTidy
<1>2. CASE LoseDatagram \/ UNCHANGED arqvars
  <2>1. kcp' = kcp /\ datagrams' \subseteq datagrams
    BY <1>2 DEF LoseDatagram, arqvars
  <2> QED BY <2>1 DEF TidyInv
<1> QED BY <1>1, <1>2 DEF ArqNext

\* The new control blocks are tidy.
LEMMA TidyStarts == ASSUME RoomForOne, ArqInit PROVE TidyInv
<1>1. /\ NewKcp.rcv_queue = <<>> /\ NewKcp.rcv_buf = <<>> /\ NewKcp.rcv_nxt = 0 /\ NewKcp.rmt_wnd = RcvWnd
      /\ NewKcp.snd_una = 0 /\ NewKcp.snd_nxt = 0
  BY DEF NewKcp
<1>2. Tidy(NewKcp)
  <2>1. DOMAIN NewKcp.rcv_buf = {}
    BY <1>1
  <2> QED BY <1>1, <2>1 DEF Tidy, Drained, Neat, InOrderFrom, Ascends, MustWait, RoomForOne
<1>3. (\A e \in Ends : kcp[e] = NewKcp) /\ datagrams = {}
  BY DEF ArqInit
<1> QED BY <1>2, <1>3 DEF TidyInv

(* With a receive window for the largest message and a send window of one  *)
(* segment or more, ends that would send nothing even if every timer had   *)
(* passed have delivered all that they took.                               *)
THEOREM SilenceMeansDone == RoomForOne /\ SndWnd > 0 => (ArqSpec => []SilentIsDone)
<1> SUFFICES ASSUME RoomForOne, SndWnd > 0 PROVE ArqSpec => []SilentIsDone
  OBVIOUS
<1>1. ASSUME ArqInv, TidyInv PROVE SilentIsDone
  <2> SUFFICES ASSUME \A e \in Ends : AllLate(kcp[e]).out = <<>>
               PROVE  \A e \in Ends : /\ kcp[e].snd_queue = <<>> /\ kcp[e].snd_buf = <<>>
                                      /\ Len(heard[e]) = Len(taken[Other(e)])
    BY DEF SilentIsDone
  <2>1. \A e \in Ends : Wnd(kcp[e]) > 0
    BY <1>1, WindowIsOpen DEF ReceiverOpen
  <2>2. ASSUME NEW e \in Ends PROVE kcp[e].snd_buf = <<>> /\ kcp[e].snd_queue = <<>>
    <3>1. /\ HoldsOf(kcp[e], SegmentsOf(taken[Other(e)])) /\ Acked(kcp[e]) /\ SenderOf(kcp[e], taken[e])
          /\ NoneForgotten(kcp[e], Had(kcp[Other(e)])) /\ Tidy(kcp[e])
      BY <1>1 DEF ArqInv, ReceiverOK, SenderOK, TidyInv
    <3> QED BY <2>1, <3>1, SilentSender
  <2>3. ASSUME NEW e \in Ends PROVE Len(heard[e]) = Len(taken[Other(e)])
    <3> DEFINE o == Other(e)  k == kcp[e]  j == kcp[o]  acc == taken[o]
    <3>1. o \in Ends /\ Other(o) = e
      BY EndsAre
    <3>2. /\ InARow(acc) /\ HoldsOf(k, SegmentsOf(acc)) /\ ~MessageReady(k) /\ HasHeard(heard[e], k, acc)
          /\ heard[e] \in Seq(Seq(Data)) /\ Neat(k) /\ Wnd(k) > 0
      BY <1>1, <2>1, <3>1 DEF ArqInv, ReceiverOK, SenderOK, TidyInv, Tidy
    <3>3. j \in Kcps /\ SenderOf(j, acc) /\ NoneForgotten(j, Had(k)) /\ j.snd_buf = <<>> /\ j.snd_queue = <<>>
      BY <1>1, <2>2, <3>1 DEF ArqInv, SenderOK
    <3> HIDE DEF k, j, acc, o
    <3>4. j.snd_nxt = EndOf(acc, Len(acc))
      <4>1. j.snd_nxt \in Nat /\ Len(j.snd_queue) = 0
        BY <3>3 DEF Kcps
      <4>2. j.snd_nxt + Len(j.snd_queue) = EndOf(acc, Len(acc))
        BY <3>3 DEF SenderOf
      <4> QED BY <4>1, <4>2
    <3>5. \A sn \in 0 .. EndOf(acc, Len(acc)) - 1 : sn \in Had(k)
      <4>1. DOMAIN j.snd_buf = {}
        BY <3>3
      <4> QED BY <3>3, <3>4, <4>1 DEF NoneForgotten
    <3> QED BY <3>2, <3>5, SilentReceiver DEF acc, o
  <2> QED BY <2>2, <2>3
<1> QED BY <1>1, TidyStarts, TidyStep, ArqInvariant, ArqStarts, PTL DEF ArqSpec

-----------------------------------------------------------------------------
(* tcp: the ring that readv fills and the frames taken out of it.          *)

\* The ring holds what was read and not yet taken.
Bufs == [ring : [1 .. Size -> Nat], head : Nat, tail : Nat]
HoldsBytes(b) ==
  /\ b \in Bufs /\ b.head <= b.tail /\ b.tail <= b.head + Size
  /\ \A p \in b.head .. b.tail - 1 : b.ring[Cell(p)] = p + 1

\* The n bytes behind the first p.
BytesAt(p, n) == [i \in 1 .. n |-> p + i]

\* Two positions less than the ring apart are in different cells.
LEMMA CellsDiffer ==
  ASSUME NEW p \in Nat, NEW q \in Nat, p - q < Size, q - p < Size
  PROVE  Cell(p) \in 1 .. Size /\ (Cell(p) = Cell(q) => p = q)
<1>1. Size \in Nat /\ Size > 0
  BY FramingAssumption
<1> DEFINE a == p \div Size  c == q \div Size
<1>2. /\ a \in Nat /\ p % Size \in Nat /\ p % Size < Size /\ p = a * Size + (p % Size)
      /\ c \in Nat /\ q % Size \in Nat /\ q % Size < Size /\ q = c * Size + (q % Size)
  BY <1>1
<1> HIDE DEF a, c
<1>3. Cell(p) = (p % Size) + 1 /\ Cell(q) = (q % Size) + 1
  BY DEF Cell
<1>4. ASSUME p % Size = q % Size PROVE p = q
  <2>1. p - q = (a - c) * Size
    BY <1>1, <1>2, <1>4
  <2>2. a - c >= 1 => (a - c) * Size >= Size
    BY <1>1, <1>2
  <2>3. a - c <= -1 => (a - c) * Size <= 0 - Size
    BY <1>1, <1>2
  <2>4. a - c = 0
    BY <1>1, <1>2, <2>1, <2>2, <2>3
  <2>5. p - q = 0
    BY <1>1, <2>1, <2>4
  <2> QED BY <2>5
<1> QED BY <1>1, <1>2, <1>3, <1>4

\* A read of n bytes.
LEMMA FillIs ==
  ASSUME NEW b, HoldsBytes(b), NEW n \in 1 .. Available(b)
  PROVE  LET r == Fill(b, n) IN HoldsBytes(r) /\ r.head = b.head /\ r.tail = b.tail + n
<1> DEFINE filled == {b.tail + i : i \in 0 .. n - 1}
           new == [c \in 1 .. Size |-> IF \E i \in filled : Cell(i) = c
                                       THEN 1 + CHOOSE i \in filled : Cell(i) = c ELSE b.ring[c]]
           r == Fill(b, n)
<1>1. /\ b \in Bufs /\ b.head \in Nat /\ b.tail \in Nat /\ b.ring \in [1 .. Size -> Nat]
      /\ b.head <= b.tail /\ Size \in Nat /\ n \in Nat /\ n > 0 /\ b.tail + n <= b.head + Size
  <2>1. b \in Bufs /\ b.head <= b.tail /\ b.tail <= b.head + Size /\ Size \in Nat
    BY FramingAssumption DEF HoldsBytes
  <2>2. b.head \in Nat /\ b.tail \in Nat /\ b.ring \in [1 .. Size -> Nat]
    BY <2>1 DEF Bufs
  <2> QED BY <2>1, <2>2 DEF Available, UsedBytes
<1>2. r = [b EXCEPT !.ring = new, !.tail = b.tail + n]
  BY <1>1 DEF Fill
<1>3. \A i \in filled : i \in Nat /\ b.tail <= i /\ i < b.tail + n
  BY <1>1
<1>4. \A i \in Nat : b.tail <= i /\ i < b.tail + n => i \in filled
  <2> TAKE i \in Nat
  <2>1. SUFFICES ASSUME b.tail <= i, i < b.tail + n PROVE i \in filled
    OBVIOUS
  <2>2. i - b.tail \in 0 .. n - 1 /\ i = b.tail + (i - b.tail)
    BY <1>1, <2>1
  <2> QED BY <2>2
<1> HIDE DEF filled
<1>5. new \in [1 .. Size -> Nat]
  <2>1. ASSUME NEW c \in 1 .. Size, \E i \in filled : Cell(i) = c
        PROVE  (CHOOSE i \in filled : Cell(i) = c) \in filled
    BY <2>1
  <2> QED BY <1>1, <1>3, <2>1
<1>6. ASSUME NEW p \in b.head .. b.tail + n - 1 PROVE new[Cell(p)] = p + 1
  <2>1. p \in Nat /\ \A i \in filled : p - i < Size /\ i - p < Size
    BY <1>1, <1>3
  <2>2. \A i \in filled : Cell(i) = Cell(p) => i = p
    BY <1>3, <2>1, CellsDiffer
  <2>3. Cell(p) \in 1 .. Size
    BY <1>1, <2>1, CellsDiffer
  <2>4. CASE p \in filled
    <3> DEFINE j == CHOOSE i \in filled : Cell(i) = Cell(p)
    <3>1. j \in filled /\ Cell(j) = Cell(p)
      BY <2>4
    <3>2. j = p
      BY <2>2, <3>1
    <3> HIDE DEF j
    <3>3. new[Cell(p)] = 1 + j
      BY <2>3, <2>4 DEF j
    <3> QED BY <2>1, <3>2, <3>3
  <2>5. CASE p \notin filled
    <3>1. ~\E i \in filled : Cell(i) = Cell(p)
      BY <2>2, <2>5
    <3>2. p \in b.head .. b.tail - 1
      <4> DEFINE hd == b.head  tl == b.tail
      <4>1. hd \in Nat /\ tl \in Nat /\ n \in Nat /\ p \in hd .. tl + n - 1 /\ ~(tl <= p /\ p < tl + n)
        BY <1>1, <1>4, <2>1, <2>5
      <4> HIDE DEF hd, tl
      <4>2. p \in hd .. tl - 1
        BY <4>1
      <4> QED BY <4>2 DEF hd, tl
    <3>3. b.ring[Cell(p)] = p + 1
      BY <3>2 DEF HoldsBytes
    <3> QED BY <2>3, <3>1, <3>3
  <2> QED BY <2>4, <2>5
<1> HIDE DEF new
<1>7. r \in Bufs /\ r.head = b.head /\ r.tail = b.tail + n /\ r.ring = new
  <2>1. b.tail + n \in Nat
    BY <1>1
  <2> QED BY <1>1, <1>2, <1>5, <2>1 DEF Bufs
<1> HIDE DEF r
<1>8. HoldsBytes(r)
  BY <1>1, <1>6, <1>7 DEF HoldsBytes
<1> QED BY <1>7, <1>8 DEF r

\* What is taken out is what comes next in the stream.
LEMMA DataIs ==
  ASSUME NEW b, HoldsBytes(b), NEW n \in 0 .. UsedBytes(b)
  PROVE  /\ HandleData(b, n) = BytesAt(b.head, n)
         /\ HandleData(b, n) \in Seq(Nat) /\ Len(HandleData(b, n)) = n
         /\ HoldsBytes(Forward(b, n)) /\ Forward(b, n).head = b.head + n
         /\ Forward(b, n).tail = b.tail /\ UsedBytes(Forward(b, n)) = UsedBytes(b) - n
<1>1. /\ b \in Bufs /\ b.head \in Nat /\ b.tail \in Nat /\ b.ring \in [1 .. Size -> Nat]
      /\ b.head <= b.tail /\ b.tail <= b.head + Size /\ Size \in Nat
  <2>1. b \in Bufs /\ b.head <= b.tail /\ b.tail <= b.head + Size /\ Size \in Nat
    BY FramingAssumption DEF HoldsBytes
  <2> QED BY <2>1 DEF Bufs
<1>2. n \in Nat /\ b.head + n <= b.tail
  BY <1>1 DEF UsedBytes
<1>3. ASSUME NEW i \in 1 .. n PROVE b.ring[Cell(b.head + i - 1)] = b.head + i
  <2> DEFINE p == b.head + i - 1
  <2>1. p \in b.head .. b.tail - 1 /\ p + 1 = b.head + i
    <3> DEFINE hd == b.head  tl == b.tail
    <3>1. hd \in Nat /\ tl \in Nat /\ n \in Nat /\ hd + n <= tl
      BY <1>1, <1>2
    <3> HIDE DEF hd, tl
    <3>2. hd + i - 1 \in hd .. tl - 1 /\ hd + i - 1 + 1 = hd + i
      BY <3>1
    <3> QED BY <3>2 DEF hd, tl
  <2> HIDE DEF p
  <2> QED BY <2>1 DEF HoldsBytes, p
<1>4. HandleData(b, n) = BytesAt(b.head, n)
  BY <1>3 DEF HandleData, BytesAt
<1>5. BytesAt(b.head, n) \in [1 .. n -> Nat]
  BY <1>1, <1>2 DEF BytesAt
<1> DEFINE d == HandleData(b, n)
<1>6. d \in [1 .. n -> Nat]
  BY <1>4, <1>5
<1> HIDE DEF d
<1>7. d \in Seq(Nat) /\ Len(d) = n
  BY <1>2, <1>6
<1> DEFINE r == Forward(b, n)
<1>8. r \in Bufs /\ r.head = b.head + n /\ r.tail = b.tail /\ r.ring = b.ring
  <2>1. b.head + n \in Nat
    BY <1>1, <1>2
  <2> QED BY <1>1, <2>1 DEF Forward, Bufs
<1> HIDE DEF r
<1>9. HoldsBytes(r)
  <2>1. r.head <= r.tail /\ r.tail <= r.head + Size
    BY <1>1, <1>2, <1>8
  <2>2. \A p \in r.head .. r.tail - 1 : p \in b.head .. b.tail - 1
    BY <1>1, <1>2, <1>8
  <2> QED BY <1>8, <2>1, <2>2 DEF HoldsBytes
<1>10. UsedBytes(r) = UsedBytes(b) - n
  BY <1>1, <1>2, <1>8 DEF UsedBytes
<1> QED BY <1>4, <1>7, <1>8, <1>9, <1>10 DEF d, r

\* A sequence of sequences, one after another.
LEMMA FlattenIs ==
  ASSUME NEW S, NEW s \in Seq(Seq(S))
  PROVE  \E f \in [0 .. Len(s) -> Seq(S)] :
            /\ f[0] = <<>> /\ \A i \in 1 .. Len(s) : f[i] = f[i - 1] \o s[i]
            /\ FlattenSeq(s) = f[Len(s)]
<1> DEFINE n == Len(s)
           body(g) == [i \in 1 .. n |-> IF i = 1 THEN s[i] ELSE g[i - 1] \o s[i]]
           flatten == CHOOSE g : g = body(g)
           step == [i \in 1 .. n |-> [x \in Seq(S) |-> x \o s[i]]]
<1>1. n \in Nat /\ \A i \in 1 .. n : s[i] \in Seq(S)
  OBVIOUS
<1>2. PICK f : IsRun(f, n, Seq(S), <<>>, step)
  <2>1. <<>> \in Seq(S)
    OBVIOUS
  <2>2. \A i \in 1 .. n : \A x \in Seq(S) : step[i][x] \in Seq(S)
    BY <1>1
  <2> HIDE DEF step, n
  <2> QED BY <1>1, <2>1, <2>2, Iterates
<1>3. f \in [0 .. n -> Seq(S)] /\ f[0] = <<>>
  BY <1>2 DEF IsRun
<1>4. ASSUME NEW i \in 1 .. n PROVE f[i] = f[i - 1] \o s[i]
  <2>1. f[i - 1] \in Seq(S)
    <3> HIDE DEF n
    <3>1. i - 1 \in 0 .. n
      BY <1>1
    <3> QED BY <1>3, <3>1
  <2>2. f[i] = step[i][f[i - 1]]
    <3> HIDE DEF step
    <3> QED BY <1>2 DEF IsRun
  <2> QED BY <2>1, <2>2
<1>5. FlattenSeq(s) = f[n]
  <2>1. CASE n = 0
    <3>1. FlattenSeq(s) = s /\ s = <<>>
      BY <2>1 DEF FlattenSeq
    <3> QED BY <1>3, <2>1, <3>1
  <2>2. CASE n # 0
    <3>1. FlattenSeq(s) = flatten[n]
      BY <2>2 DEF FlattenSeq
    <3> DEFINE h == [i \in 1 .. n |-> f[i]]
    <3>2. ASSUME NEW i \in 1 .. n PROVE h[i] = body(h)[i]
      <4>1. CASE i = 1
        <5>1. f[1] = <<>> \o s[1] /\ s[1] \in Seq(S)
          <6>1. f[i] = f[i - 1] \o s[i] /\ s[i] \in Seq(S)
            BY <1>1, <1>4
          <6>2. i - 1 = 0
            BY <4>1
          <6> QED BY <1>3, <4>1, <6>1, <6>2
        <5>2. f[1] = s[1]
          BY <5>1
        <5> QED BY <4>1, <5>2
      <4>2. CASE i # 1
        <5>1. i - 1 \in 1 .. n
          BY <1>1, <4>2
        <5> QED BY <1>4, <4>2, <5>1
      <4> QED BY <4>1, <4>2
    <3>3. h = body(h)
      BY <3>2
    <3> HIDE DEF h
    <3>4. flatten = body(flatten)
      <4> HIDE DEF body
      <4> QED BY <3>3
    <3> HIDE DEF flatten
    <3> DEFINE Good == {i \in 0 .. n : i = 0 \/ flatten[i] = f[i]}
    <3>5. 0 \in Good
      BY <1>1
    <3>6. ASSUME NEW i \in 1 .. n, i - 1 \in Good PROVE i \in Good
      <4>1. flatten[i] = IF i = 1 THEN s[i] ELSE flatten[i - 1] \o s[i]
        BY <3>4
      <4>2. CASE i = 1
        <5>1. f[1] = <<>> \o s[1] /\ s[1] \in Seq(S)
          <6>1. f[i] = f[i - 1] \o s[i] /\ s[i] \in Seq(S)
            BY <1>1, <1>4
          <6>2. i - 1 = 0
            BY <4>2
          <6> QED BY <1>3, <4>2, <6>1, <6>2
        <5>2. f[1] = s[1]
          BY <5>1
        <5> QED BY <1>1, <4>1, <4>2, <5>2
      <4>3. CASE i # 1
        <5>1. flatten[i - 1] = f[i - 1]
          BY <3>6, <4>3
        <5>2. flatten[i] = flatten[i - 1] \o s[i]
          BY <4>1, <4>3
        <5>3. f[i] = f[i - 1] \o s[i] /\ i \in 0 .. n
          <6>1. f[i] = f[i - 1] \o s[i]
            BY <1>4
          <6>2. i \in 0 .. n
            BY <1>1
          <6> QED BY <6>1, <6>2
        <5>4. flatten[i] = f[i]
          BY <5>1, <5>2, <5>3
        <5> HIDE DEF n
        <5> QED BY <5>3, <5>4
      <4> QED BY <4>2, <4>3
    <3>7. \A i \in 0 .. n : i \in Good
      <4> HIDE DEF Good, n
      <4> QED BY <1>1, <3>5, <3>6, UpTo
    <3>8. n \in Good
      <4> HIDE DEF Good
      <4> QED BY <1>1, <3>7
    <3> QED BY <2>2, <3>1, <3>8
  <2> QED BY <2>1, <2>2
<1> HIDE DEF n
<1> QED BY <1>3, <1>4, <1>5 DEF n

\* One more at the end.
LEMMA FlattenAppend ==
  ASSUME NEW S, NEW s \in Seq(Seq(S)), NEW x \in Seq(S)
  PROVE  FlattenSeq(Append(s, x)) = FlattenSeq(s) \o x
<1> DEFINE n == Len(s)  t == Append(s, x)
<1>1. n \in Nat /\ t \in Seq(Seq(S)) /\ Len(t) = n + 1
      /\ t[n + 1] = x /\ \A i \in 1 .. n : t[i] = s[i]
  OBVIOUS
<1> HIDE DEF t, n
<1>2. PICK f \in [0 .. n -> Seq(S)] :
         /\ f[0] = <<>> /\ \A i \in 1 .. n : f[i] = f[i - 1] \o s[i]
         /\ FlattenSeq(s) = f[n]
  BY FlattenIs DEF n
<1>3. PICK g \in [0 .. n + 1 -> Seq(S)] :
         /\ g[0] = <<>> /\ \A i \in 1 .. n + 1 : g[i] = g[i - 1] \o t[i]
         /\ FlattenSeq(t) = g[n + 1]
  <2>1. \E g \in [0 .. Len(t) -> Seq(S)] :
         /\ g[0] = <<>> /\ \A i \in 1 .. Len(t) : g[i] = g[i - 1] \o t[i]
         /\ FlattenSeq(t) = g[Len(t)]
    BY <1>1, FlattenIs
  <2> QED BY <1>1, <2>1
<1> DEFINE Good == {i \in 0 .. n : f[i] = g[i]}
<1>4. 0 \in Good
  BY <1>1, <1>2, <1>3
<1>5. ASSUME NEW i \in 1 .. n, i - 1 \in Good PROVE i \in Good
  <2>1. f[i - 1] = g[i - 1] /\ i \in 0 .. n /\ i \in 1 .. n + 1
    BY <1>1, <1>5
  <2>2. f[i] = f[i - 1] \o s[i] /\ g[i] = g[i - 1] \o t[i] /\ t[i] = s[i]
    BY <1>1, <1>2, <1>3, <2>1
  <2> QED BY <2>1, <2>2
<1>6. n \in Good
  <2> HIDE DEF Good
  <2>1. \A i \in 0 .. n : i \in Good
    BY <1>1, <1>4, <1>5, UpTo
  <2>2. n \in 0 .. n
    BY <1>1
  <2> QED BY <2>1, <2>2
<1>7. g[n + 1] = g[n] \o t[n + 1]
  <2> DEFINE m == n + 1
  <2>1. m \in 1 .. n + 1 /\ m - 1 = n
    BY <1>1
  <2> HIDE DEF m
  <2>2. g[m] = g[m - 1] \o t[m]
    BY <1>3, <2>1
  <2> QED BY <2>1, <2>2 DEF m
<1> QED BY <1>1, <1>2, <1>3, <1>6, <1>7 DEF t

\* What is there to read: the lengths and the kind of unpacker.
StreamOK == lens \in Seq(Nat) /\ unpacker \in {"length_prefix", "stream"}

\* Each frame starts behind the one before it.
LEMMA StartsAre ==
  ASSUME StreamOK
  PROVE  /\ StartOf(1) = 1 /\ Lead \in Nat /\ Len(lens) \in Nat
         /\ \A k \in 1 .. Len(lens) + 1 : StartOf(k) \in Nat \ {0}
         /\ \A k \in 1 .. Len(lens) : StartOf(k + 1) = StartOf(k) + Lead + lens[k]
<1> DEFINE n == Len(lens)
           body(g) == [i \in 1 .. n + 1 |-> IF i = 1 THEN 1 ELSE g[i - 1] + Lead + lens[i - 1]]
           start == CHOOSE g : g = body(g)
           step == [i \in 1 .. n |-> [x \in Nat |-> x + Lead + lens[i]]]
<1>1. n \in Nat /\ Lead \in Nat /\ \A i \in 1 .. n : lens[i] \in Nat
  BY DEF StreamOK, Lead, HeaderSize
<1>2. \A k \in 1 .. n + 1 : StartOf(k) = start[k]
  BY DEF StartOf
<1> HIDE DEF n
<1>3. PICK f : IsRun(f, n, Nat, 1, step)
  <2>1. \A i \in 1 .. n : \A x \in Nat : step[i][x] \in Nat
    BY <1>1
  <2> HIDE DEF step
  <2> QED BY <1>1, <2>1, Iterates
<1>4. f \in [0 .. n -> Nat] /\ f[0] = 1
  BY <1>3 DEF IsRun
<1>5. ASSUME NEW i \in 1 .. n PROVE f[i] = f[i - 1] + Lead + lens[i]
  <2>1. f[i - 1] \in Nat
    BY <1>1, <1>4
  <2>2. f[i] = step[i][f[i - 1]]
    <3> HIDE DEF step
    <3> QED BY <1>3 DEF IsRun
  <2> QED BY <2>1, <2>2
<1> DEFINE h == [i \in 1 .. n + 1 |-> f[i - 1]]
<1>6. ASSUME NEW i \in 1 .. n + 1 PROVE h[i] = body(h)[i]
  <2>1. CASE i = 1
    BY <1>4, <2>1
  <2>2. CASE i # 1
    <3>1. i - 1 \in 1 .. n /\ i - 1 \in 1 .. n + 1
      BY <1>1, <2>2
    <3> QED BY <1>5, <2>2, <3>1
  <2> QED BY <2>1, <2>2
<1>7. h = body(h)
  BY <1>6
<1> HIDE DEF h
<1>8. start = body(start)
  <2> HIDE DEF body
  <2> QED BY <1>7
<1> HIDE DEF start
<1>9. start[1] = 1 /\ \A k \in 1 .. n : start[k + 1] = start[k] + Lead + lens[k]
  <2>1. start[1] = 1
    <3>1. 1 \in 1 .. n + 1
      BY <1>1
    <3> QED BY <1>8, <3>1
  <2>2. ASSUME NEW k \in 1 .. n PROVE start[k + 1] = start[k] + Lead + lens[k]
    <3> DEFINE m == k + 1
    <3>1. m \in 1 .. n + 1 /\ m # 1 /\ m - 1 = k
      BY <1>1
    <3> HIDE DEF m
    <3>2. start[m] = start[m - 1] + Lead + lens[m - 1]
      BY <1>8, <3>1
    <3> QED BY <3>1, <3>2 DEF m
  <2> QED BY <2>1, <2>2
<1> DEFINE Good == {i \in 0 .. n : start[i + 1] \in Nat \ {0}}
<1>10. \A i \in 0 .. n : i \in Good
  <2>1. 0 \in Good
    BY <1>1, <1>9
  <2>2. ASSUME NEW i \in 1 .. n, i - 1 \in Good PROVE i \in Good
    <3>1. start[i] \in Nat \ {0} /\ lens[i] \in Nat
      BY <1>1, <2>2
    <3>2. start[i + 1] = start[i] + Lead + lens[i]
      BY <1>9
    <3> QED BY <1>1, <3>1, <3>2
  <2> HIDE DEF Good
  <2> QED BY <1>1, <2>1, <2>2, UpTo
<1>11. ASSUME NEW k \in 1 .. n + 1 PROVE start[k] \in Nat \ {0}
  <2>1. k - 1 \in 0 .. n /\ k - 1 + 1 = k
    BY <1>1
  <2>2. start[k - 1 + 1] \in Nat \ {0}
    BY <1>10, <2>1
  <2> QED BY <2>1, <2>2
<1>12. \A k \in 1 .. n : k \in 1 .. n + 1 /\ k + 1 \in 1 .. n + 1
  BY <1>1
<1>13. StartOf(1) = 1
  <2>1. 1 \in 1 .. n + 1
    BY <1>1
  <2> QED BY <1>2, <1>9, <2>1
<1>14. \A k \in 1 .. n + 1 : StartOf(k) \in Nat \ {0}
  BY <1>2, <1>11
<1>15. ASSUME NEW k \in 1 .. n PROVE StartOf(k + 1) = StartOf(k) + Lead + lens[k]
  BY <1>2, <1>9, <1>12
<1> QED BY <1>1, <1>13, <1>14, <1>15 DEF n

\* With a length in front of each, frames start at different places.
LEMMA Ascending ==
  ASSUME StreamOK, unpacker = "length_prefix",
         NEW k \in 1 .. Len(lens) + 1, NEW m \in 1 .. Len(lens) + 1, k < m
  PROVE  StartOf(k) < StartOf(m)
<1> DEFINE n == m - k  Good == {i \in 0 .. n : StartOf(k) + i <= StartOf(k + i)}
<1>1. Lead = 4 /\ Len(lens) \in Nat /\ n \in Nat /\ n > 0 /\ k + n = m /\ k \in Nat /\ StartOf(k) \in Nat
  BY StartsAre DEF Lead, HeaderSize
<1>2. 0 \in Good
  BY <1>1
<1>3. ASSUME NEW i \in 1 .. n, i - 1 \in Good PROVE i \in Good
  <2> DEFINE j == k + (i - 1)
  <2>1. j \in 1 .. Len(lens) /\ j + 1 = k + i /\ i \in Nat /\ i \in 0 .. n
    BY <1>1
  <2>2. StartOf(k) + (i - 1) <= StartOf(j)
    BY <1>3
  <2> HIDE DEF j
  <2>3. StartOf(j) \in Nat /\ lens[j] \in Nat /\ StartOf(j + 1) = StartOf(j) + 4 + lens[j]
    <3>1. lens[j] \in Nat
      BY <2>1 DEF StreamOK
    <3>2. StartOf(j + 1) = StartOf(j) + Lead + lens[j]
      BY <2>1, StartsAre
    <3>3. j \in 1 .. Len(lens) + 1
      BY <1>1, <2>1
    <3>4. StartOf(j) \in Nat
      BY <3>3, StartsAre
    <3> QED BY <1>1, <3>1, <3>2, <3>4
  <2>4. StartOf(k) + i <= StartOf(j + 1)
    BY <1>1, <2>1, <2>2, <2>3
  <2> QED BY <2>1, <2>4
<1>4. n \in Good
  <2> HIDE DEF Good, n
  <2>1. \A i \in 0 .. n : i \in Good
    BY <1>1, <1>2, <1>3, UpTo
  <2> QED BY <1>1, <2>1
<1>5. StartOf(m) \in Nat
  BY StartsAre
<1> QED BY <1>1, <1>4, <1>5

\* The payloads that are not empty are counted.
LEMMA NthIs ==
  ASSUME StreamOK, NEW k \in 1 .. Len(lens)
  PROVE  /\ Nth(0) = 0 /\ Nth(k - 1) \in Nat
         /\ lens[k] > 0 => Nth(k) = Nth(k - 1) + 1
         /\ lens[k] = 0 => Nth(k) = Nth(k - 1)
<1> DEFINE A == {j \in 1 .. k - 1 : lens[j] > 0}
<1>1. k \in Nat /\ lens[k] \in Nat
  BY DEF StreamOK
<1>2. IsFiniteSet(A) /\ Cardinality(A) \in Nat
  <2>1. IsFiniteSet(1 .. k - 1)
    BY <1>1, FS_Interval
  <2>2. A \subseteq 1 .. k - 1
    OBVIOUS
  <2>3. IsFiniteSet(A)
    BY <2>1, <2>2, FS_Subset
  <2> QED BY <2>3, FS_CardinalityType
<1>3. Nth(k - 1) = Cardinality(A)
  BY DEF Nth
<1>4. Nth(0) = 0
  <2>1. {j \in 1 .. 0 : lens[j] > 0} = {}
    OBVIOUS
  <2> QED BY <2>1, FS_EmptySet DEF Nth
<1>5. ASSUME lens[k] > 0 PROVE Nth(k) = Nth(k - 1) + 1
  <2>1. {j \in 1 .. k : lens[j] > 0} = A \cup {k} /\ k \notin A
    BY <1>1, <1>5
  <2>2. Cardinality(A \cup {k}) = Cardinality(A) + 1
    <3> HIDE DEF A
    <3> QED BY <1>2, <2>1, FS_AddElement
  <2> QED BY <1>3, <2>1, <2>2 DEF Nth
<1>6. ASSUME lens[k] = 0 PROVE Nth(k) = Nth(k - 1)
  <2>1. {j \in 1 .. k : lens[j] > 0} = A
    BY <1>1, <1>6
  <2> QED BY <1>3, <2>1 DEF Nth
<1> QED BY <1>2, <1>3, <1>4, <1>5, <1>6

\* The length in front of the k-th frame is read where the frame starts.
LEMMA LengthIs ==
  ASSUME StreamOK, unpacker = "length_prefix", NEW k \in 1 .. Len(lens), NEW h \in Nat, h + 1 = StartOf(k)
  PROVE  PacketLen(BytesAt(h, HeaderSize)) = HeaderSize + lens[k]
<1> DEFINE bytes == BytesAt(h, HeaderSize)
<1>1. DOMAIN lens = 1 .. Len(lens) /\ k \in 1 .. Len(lens) + 1 /\ Len(lens) \in Nat
  BY DEF StreamOK
<1>2. bytes = [i \in 1 .. HeaderSize |-> StartOf(k) + i - 1]
  <2>1. \A i \in 1 .. HeaderSize : h + i = StartOf(k) + i - 1
    BY DEF HeaderSize
  <2> QED BY <2>1 DEF BytesAt
<1>3. bytes[1] = StartOf(k)
  BY DEF BytesAt, HeaderSize
<1> HIDE DEF bytes
<1>4. ASSUME NEW j \in DOMAIN lens, StartOf(j) = StartOf(k) PROVE j = k
  <2>1. j \in 1 .. Len(lens) + 1 /\ j \in Nat /\ k \in Nat /\ StartOf(k) \in Nat
    BY <1>1, StartsAre
  <2>2. ~(j < k)
    BY <1>1, <1>4, <2>1, Ascending
  <2>3. ~(k < j)
    BY <1>1, <1>4, <2>1, Ascending
  <2> QED BY <2>1, <2>2, <2>3
<1> DEFINE j == CHOOSE j \in DOMAIN lens : StartOf(j) = bytes[1]
<1>5. j = k
  <2>1. j \in DOMAIN lens /\ StartOf(j) = bytes[1]
    BY <1>1, <1>3
  <2> HIDE DEF j
  <2> QED BY <1>3, <1>4, <2>1
<1>6. PacketLen(bytes) = HeaderSize + lens[j]
  BY <1>1, <1>2 DEF PacketLen
<1> HIDE DEF j
<1> QED BY <1>5, <1>6 DEF bytes

\* copy_out_frame: the next frame, if all of it is there.
LEMMA CopyOutIs ==
  ASSUME StreamOK, unpacker = "length_prefix", NEW b, HoldsBytes(b), b.tail <= Total,
         NEW k \in 1 .. Len(lens) + 1, b.head + 1 = StartOf(k)
  PROVE  LET u == CopyOutFrame(b) IN
         \/ /\ u.b = b /\ u.frame = <<>>
            /\ k \in 1 .. Len(lens) => b.tail < StartOf(k + 1) - 1
         \/ /\ k \in 1 .. Len(lens) /\ HoldsBytes(u.b) /\ u.b.tail = b.tail
            /\ u.b.head + 1 = StartOf(k + 1)
            /\ u.frame = PayloadOf(k) /\ u.frame \in Seq(Nat) /\ Len(u.frame) = lens[k]
<1> DEFINE n == PacketLen(HandleData(b, HeaderSize))  t == Forward(b, HeaderSize)
           u == CopyOutFrame(b)
<1>1. b.head \in Nat /\ b.tail \in Nat /\ b.head <= b.tail /\ Len(lens) \in Nat /\ HeaderSize = 4 /\ Lead = 4
  BY StartsAre DEF HoldsBytes, Bufs, HeaderSize, Lead
<1>2. UsedBytes(b) = b.tail - b.head
  BY DEF UsedBytes
<1>3. CASE UsedBytes(b) < HeaderSize \/ UsedBytes(b) < n
  <2>1. u = [b |-> b, frame |-> <<>>]
    BY <1>3 DEF CopyOutFrame
  <2>2. ASSUME k \in 1 .. Len(lens) PROVE b.tail < StartOf(k + 1) - 1
    <3>1. lens[k] \in Nat /\ StartOf(k + 1) = b.head + 1 + 4 + lens[k]
      <4>1. lens[k] \in Nat
        BY <2>2 DEF StreamOK
      <4>2. StartOf(k + 1) = StartOf(k) + Lead + lens[k]
        BY <2>2, StartsAre
      <4> QED BY <1>1, <4>1, <4>2
    <3>2. CASE UsedBytes(b) < HeaderSize
      BY <1>1, <1>2, <3>1, <3>2
    <3>3. CASE ~(UsedBytes(b) < HeaderSize)
      <4>1. HeaderSize \in 0 .. UsedBytes(b)
        BY <1>1, <1>2, <3>3
      <4>2. HandleData(b, HeaderSize) = BytesAt(b.head, HeaderSize)
        BY <4>1, DataIs
      <4>3. n = HeaderSize + lens[k]
        BY <1>1, <2>2, <4>2, LengthIs
      <4> HIDE DEF n
      <4>4. UsedBytes(b) < n
        BY <1>3, <3>3
      <4> DEFINE h == b.head  z == b.tail  x == StartOf(k + 1)  y == lens[k]
      <4>5. /\ h \in Nat /\ z \in Nat /\ y \in Nat /\ x = h + 1 + 4 + y
            /\ z - h < 4 + y
        <5>1. z - h < HeaderSize + y
          BY <1>2, <4>3, <4>4
        <5> QED BY <1>1, <3>1, <5>1
      <4> HIDE DEF h, z, x, y
      <4>6. z < x - 1
        BY <4>5
      <4> QED BY <4>6 DEF z, x
    <3> QED BY <3>2, <3>3
  <2> QED BY <2>1, <2>2
<1>4. CASE ~(UsedBytes(b) < HeaderSize \/ UsedBytes(b) < n)
  <2>1. u = [b |-> Forward(t, n - HeaderSize), frame |-> HandleData(t, n - HeaderSize)]
    BY <1>4 DEF CopyOutFrame
  <2>2. k \in 1 .. Len(lens)
    <3>1. SUFFICES ASSUME k = Len(lens) + 1 PROVE FALSE
      BY <1>1
    <3>2. Total = StartOf(k) - 1
      BY <3>1 DEF Total
    <3>3. b.tail <= b.head
      BY <1>1, <3>2
    <3> QED BY <1>1, <1>2, <1>4, <3>3
  <2>3. HeaderSize \in 0 .. UsedBytes(b)
    BY <1>1, <1>2, <1>4
  <2>4. /\ HandleData(b, HeaderSize) = BytesAt(b.head, HeaderSize)
        /\ HoldsBytes(t) /\ t.head = b.head + 4 /\ t.tail = b.tail /\ UsedBytes(t) = UsedBytes(b) - 4
    <3>1. /\ HandleData(b, HeaderSize) = BytesAt(b.head, HeaderSize)
          /\ HoldsBytes(Forward(b, HeaderSize)) /\ Forward(b, HeaderSize).head = b.head + HeaderSize
          /\ Forward(b, HeaderSize).tail = b.tail
          /\ UsedBytes(Forward(b, HeaderSize)) = UsedBytes(b) - HeaderSize
      BY <2>3, DataIs
    <3> QED BY <1>1, <3>1
  <2>5. n = 4 + lens[k] /\ lens[k] \in Nat
    <3>1. lens[k] \in Nat
      BY <2>2 DEF StreamOK
    <3>2. PacketLen(BytesAt(b.head, HeaderSize)) = HeaderSize + lens[k]
      BY <1>1, <2>2, LengthIs
    <3> QED BY <1>1, <2>4, <3>1, <3>2
  <2> HIDE DEF n, t
  <2> DEFINE m == lens[k]
  <2>6. m \in 0 .. UsedBytes(t) /\ n - HeaderSize = m
    <3> DEFINE c == UsedBytes(t)  d == UsedBytes(b)
    <3>1. c = d - 4 /\ d \in Int /\ ~(d < n) /\ n = 4 + m /\ m \in Nat /\ HeaderSize = 4
      BY <1>1, <1>2, <1>4, <2>4, <2>5
    <3> HIDE DEF c, d, m
    <3>2. m \in 0 .. c /\ n - HeaderSize = m
      BY <3>1
    <3> QED BY <3>2 DEF c
  <2> HIDE DEF m
  <2>7. /\ HandleData(t, m) = BytesAt(t.head, m)
        /\ HandleData(t, m) \in Seq(Nat) /\ Len(HandleData(t, m)) = m
        /\ HoldsBytes(Forward(t, m)) /\ Forward(t, m).head = t.head + m /\ Forward(t, m).tail = t.tail
    BY <2>4, <2>6, DataIs
  <2>8. BytesAt(t.head, m) = PayloadOf(k)
    <3>1. \A i \in 1 .. m : t.head + i = StartOf(k) + Lead + i - 1
      BY <1>1, <2>4, <2>5
    <3> QED BY <3>1 DEF BytesAt, PayloadOf, m
  <2>9. t.head + m + 1 = StartOf(k + 1)
    <3>1. StartOf(k + 1) = StartOf(k) + Lead + lens[k] /\ StartOf(k) \in Nat
      BY <2>2, StartsAre
    <3> QED BY <1>1, <2>4, <2>5, <3>1 DEF m
  <2>10. u.b = Forward(t, m) /\ u.frame = HandleData(t, m)
    BY <2>1, <2>6
  <2> HIDE DEF u
  <2> QED BY <2>2, <2>4, <2>7, <2>8, <2>9, <2>10 DEF u, m
<1> QED BY <1>3, <1>4

\* The ring stands where the k-th frame starts, and what was handed on are
\* the payloads in front of it.
CountedTo(b, fs) ==
  \E k \in 1 .. Len(lens) + 1 : b.head + 1 = StartOf(k) /\ Len(fs) = Nth(k - 1)
Exact(fs) ==
  \A i \in DOMAIN fs : \E k \in DOMAIN lens : lens[k] > 0 /\ Nth(k) = i /\ fs[i] = PayloadOf(k)

\* One unpacking.
LEMMA UnpackedIs ==
  ASSUME StreamOK, unpacker = "length_prefix", NEW b, HoldsBytes(b), b.tail <= Total,
         NEW fs \in Seq(Seq(Nat)), CountedTo(b, fs), Exact(fs)
  PROVE  LET u == CopyOutFrame(b) IN
         /\ HoldsBytes(u.b) /\ u.b.tail = b.tail /\ u.frame \in Seq(Nat)
         /\ u.frame = <<>> => CountedTo(u.b, fs)
         /\ u.frame # <<>> => CountedTo(u.b, Append(fs, u.frame)) /\ Exact(Append(fs, u.frame))
<1> DEFINE u == CopyOutFrame(b)  f == u.frame  more == Append(fs, f)
<1>1. PICK k \in 1 .. Len(lens) + 1 : b.head + 1 = StartOf(k) /\ Len(fs) = Nth(k - 1)
  BY DEF CountedTo
<1>2. \/ u.b = b /\ f = <<>>
      \/ /\ k \in 1 .. Len(lens) /\ HoldsBytes(u.b) /\ u.b.tail = b.tail
         /\ u.b.head + 1 = StartOf(k + 1)
         /\ f = PayloadOf(k) /\ f \in Seq(Nat) /\ Len(f) = lens[k]
  BY <1>1, CopyOutIs
<1> HIDE DEF u
<1>3. CASE u.b = b /\ f = <<>>
  <2>1. <<>> \in Seq(Nat)
    OBVIOUS
  <2> QED BY <1>3, <2>1 DEF u
<1>4. CASE /\ k \in 1 .. Len(lens) /\ HoldsBytes(u.b) /\ u.b.tail = b.tail
           /\ u.b.head + 1 = StartOf(k + 1)
           /\ f = PayloadOf(k) /\ f \in Seq(Nat) /\ Len(f) = lens[k]
  <2> DEFINE w == u.b
  <2>1. /\ k \in Nat /\ k + 1 \in 1 .. Len(lens) + 1 /\ k + 1 - 1 = k /\ lens[k] \in Nat
        /\ DOMAIN lens = 1 .. Len(lens) /\ Nth(k - 1) \in Nat
        /\ lens[k] > 0 => Nth(k) = Nth(k - 1) + 1
        /\ lens[k] = 0 => Nth(k) = Nth(k - 1)
    BY <1>4, NthIs DEF StreamOK
  <2>2. HoldsBytes(w) /\ w.tail = b.tail /\ w.head + 1 = StartOf(k + 1)
        /\ f = PayloadOf(k) /\ f \in Seq(Nat) /\ Len(f) = lens[k] /\ k \in 1 .. Len(lens)
    BY <1>4
  <2> HIDE DEF f, w
  <2>3. ASSUME f = <<>> PROVE CountedTo(w, fs)
    <3>1. lens[k] = 0
      BY <2>2, <2>3
    <3>2. Len(fs) = Nth(k + 1 - 1)
      BY <1>1, <2>1, <3>1
    <3> QED BY <2>1, <2>2, <3>2 DEF CountedTo
  <2>4. ASSUME f # <<>> PROVE CountedTo(w, more) /\ Exact(more)
    <3>1. lens[k] > 0 /\ Nth(k) = Len(fs) + 1
      <4>1. Len(f) # 0 /\ Len(f) \in Nat
        BY <2>2, <2>4
      <4> QED BY <1>1, <2>1, <2>2, <4>1
    <3>2. Len(more) = Len(fs) + 1 /\ DOMAIN more = 1 .. Len(fs) + 1 /\ Len(fs) \in Nat
          /\ more[Len(fs) + 1] = f /\ \A i \in 1 .. Len(fs) : more[i] = fs[i]
      BY <2>2
    <3> HIDE DEF more
    <3>3. CountedTo(w, more)
      <4>1. Len(more) = Nth(k + 1 - 1)
        BY <2>1, <3>1, <3>2
      <4> QED BY <2>1, <2>2, <4>1 DEF CountedTo
    <3>4. ASSUME NEW i \in DOMAIN more
          PROVE  \E j \in DOMAIN lens : lens[j] > 0 /\ Nth(j) = i /\ more[i] = PayloadOf(j)
      <4>1. CASE i = Len(fs) + 1
        BY <2>1, <2>2, <3>1, <3>2, <4>1
      <4>2. CASE i # Len(fs) + 1
        <5>1. i \in 1 .. Len(fs) /\ more[i] = fs[i] /\ i \in DOMAIN fs
          BY <3>2, <4>2
        <5> QED BY <5>1 DEF Exact
      <4> QED BY <4>1, <4>2
    <3> QED BY <3>3, <3>4 DEF Exact
  <2> QED BY <2>2, <2>3, <2>4 DEF f, u, w
<1> QED BY <1>2, <1>3, <1>4

\* Two ways to add one at the end.
LEMMA AppendBehind ==
  ASSUME NEW S, NEW s \in Seq(S), NEW t \in Seq(S), NEW x \in S
  PROVE  /\ s \o Append(t, x) = Append(s \o t, x)
         /\ s \o <<x>> = Append(s, x) /\ s \o <<>> = s
  OBVIOUS

\* The ring at h with everything up to t, and what the loop has made of it
\* after the frames fs.
Unpacked(x, fs, h, t) ==
  /\ HoldsBytes(x.b) /\ x.b.tail = t /\ x.out \in Seq(Seq(Nat)) /\ x.more \in BOOLEAN
  /\ unpacker = "length_prefix" => CountedTo(x.b, fs \o x.out) /\ Exact(fs \o x.out)
  /\ unpacker = "stream" =>
       \/ x.b.head = h /\ x.out = <<>> /\ x.more
       \/ x.b.head = t /\ x.out = <<BytesAt(h, t - h)>>

\* One turn of the loop of on_recv.
LEMMA UnpackNextIs ==
  ASSUME StreamOK, NEW fs \in Seq(Seq(Nat)), NEW h \in Nat, NEW t \in Nat, h < t, t <= Total,
         NEW x, Unpacked(x, fs, h, t)
  PROVE  LET y == UnpackNext(x) IN
         /\ Unpacked(y, fs, h, t) /\ (x.more => DOMAIN y = {"b", "out", "more"})
         /\ unpacker = "stream" => y.b.head = t /\ y.out = <<BytesAt(h, t - h)>>
<1> DEFINE u == Unpack(x.b)  y == UnpackNext(x)
<1>1. CASE ~x.more
  <2>1. y = x
    BY <1>1 DEF UnpackNext
  <2> QED BY <1>1, <2>1 DEF Unpacked
<1>2. CASE x.more
  <2> DEFINE o == IF u.frame # <<>> THEN Append(x.out, u.frame) ELSE x.out
  <2>1. y = [b |-> u.b, more |-> u.frame # <<>>, out |-> o]
    BY <1>2 DEF UnpackNext
  <2> HIDE DEF u
  <2>2. y.b = u.b /\ y.out = o /\ y.more \in BOOLEAN /\ (y.more <=> u.frame # <<>>)
        /\ DOMAIN y = {"b", "out", "more"}
    <3> DEFINE m == u.frame # <<>>  p == u.b
    <3>1. m \in BOOLEAN
      OBVIOUS
    <3>2. y = [b |-> p, more |-> m, out |-> o]
      BY <2>1
    <3> HIDE DEF y, m, p, o
    <3>3. y.b = p /\ y.out = o /\ y.more = m
      BY <3>2
    <3>4. DOMAIN y = {"b", "out", "more"}
      BY <3>2
    <3> QED BY <3>1, <3>3, <3>4 DEF m, p
  <2> HIDE DEF y
  <2>3. CASE unpacker = "length_prefix"
    <3> DEFINE gs == fs \o x.out  w == x.b
    <3>1. HoldsBytes(w) /\ w.tail = t /\ x.out \in Seq(Seq(Nat)) /\ CountedTo(w, gs) /\ Exact(gs)
      BY <2>3 DEF Unpacked
    <3>2. gs \in Seq(Seq(Nat))
      BY <3>1, ConcatProperties
    <3>3. u = CopyOutFrame(w)
      BY <2>3 DEF Unpack, u
    <3> HIDE DEF gs, w
    <3>4. /\ HoldsBytes(u.b) /\ u.b.tail = t /\ u.frame \in Seq(Nat)
          /\ u.frame = <<>> => CountedTo(u.b, gs)
          /\ u.frame # <<>> => CountedTo(u.b, Append(gs, u.frame)) /\ Exact(Append(gs, u.frame))
      BY <2>3, <3>1, <3>2, <3>3, UnpackedIs
    <3>5. CASE u.frame = <<>>
      <4>1. o = x.out
        BY <3>5
      <4>2. Unpacked(y, fs, h, t)
        BY <2>2, <2>3, <3>1, <3>4, <3>5, <4>1 DEF Unpacked, gs
      <4> QED BY <2>2, <2>3, <4>2 DEF y
    <3>6. CASE u.frame # <<>>
      <4>1. o = Append(x.out, u.frame)
        BY <3>6
      <4>2. fs \o o = Append(gs, u.frame) /\ o \in Seq(Seq(Nat))
        <5> DEFINE q == x.out  f == u.frame  S == Seq(Nat)
        <5>1. q \in Seq(S) /\ f \in S /\ fs \in Seq(S)
          BY <3>1, <3>4
        <5> HIDE DEF q, f, S
        <5>2. fs \o Append(q, f) = Append(fs \o q, f) /\ Append(q, f) \in Seq(S)
          BY <5>1, AppendBehind
        <5> QED BY <4>1, <5>2 DEF q, f, S, gs
      <4> HIDE DEF o
      <4>3. Unpacked(y, fs, h, t)
        BY <2>2, <2>3, <3>4, <3>6, <4>2 DEF Unpacked
      <4> QED BY <2>2, <2>3, <4>3 DEF y
    <3> QED BY <3>5, <3>6
  <2>4. CASE unpacker = "stream"
    <3> DEFINE w == x.b  n == UsedBytes(w)
    <3>1. HoldsBytes(w) /\ w.tail = t /\ x.out \in Seq(Seq(Nat))
          /\ ((w.head = h /\ x.out = <<>>) \/ (w.head = t /\ x.out = <<BytesAt(h, t - h)>>))
      BY <2>4 DEF Unpacked
    <3>2. u = [b |-> Forward(w, n), frame |-> HandleData(w, n)]
      BY <2>4 DEF Unpack, TakeAll, u
    <3>3. n = t - w.head /\ n \in Nat /\ w.head \in Nat /\ n \in 0 .. UsedBytes(w)
      BY <3>1 DEF UsedBytes, HoldsBytes, Bufs
    <3> HIDE DEF n, w
    <3>4. /\ HandleData(w, n) = BytesAt(w.head, n)
          /\ HandleData(w, n) \in Seq(Nat) /\ Len(HandleData(w, n)) = n
          /\ HoldsBytes(Forward(w, n)) /\ Forward(w, n).head = w.head + n
          /\ Forward(w, n).tail = w.tail
      BY <3>1, <3>3, DataIs
    <3> DEFINE f == u.frame
    <3>5. /\ HoldsBytes(u.b) /\ u.b.head = t /\ u.b.tail = t
          /\ f = BytesAt(w.head, n) /\ f \in Seq(Nat) /\ Len(f) = n
      BY <3>1, <3>2, <3>3, <3>4
    <3> HIDE DEF f
    <3>6. CASE w.head = h /\ x.out = <<>>
      <4>1. n = t - h /\ n > 0
        BY <3>3, <3>6
      <4>2. f # <<>> /\ f = BytesAt(h, t - h)
        BY <3>5, <3>6, <4>1
      <4>3. o = <<BytesAt(h, t - h)>> /\ o \in Seq(Seq(Nat))
        <5>1. o = Append(<<>>, f)
          BY <3>6, <4>2 DEF f
        <5> DEFINE d == BytesAt(h, t - h)
        <5>2. f = d /\ f \in Seq(Nat)
          BY <3>5, <4>2
        <5> HIDE DEF o, d
        <5>3. Append(<<>>, f) = <<f>> /\ <<f>> \in Seq(Seq(Nat))
          BY <5>2
        <5> QED BY <5>1, <5>2, <5>3 DEF d
      <4> HIDE DEF o
      <4>4. Unpacked(y, fs, h, t)
        BY <2>2, <2>4, <3>5, <4>3 DEF Unpacked
      <4> QED BY <2>2, <2>4, <3>5, <4>3, <4>4 DEF y
    <3>7. CASE w.head = t /\ x.out = <<BytesAt(h, t - h)>>
      <4>1. n = 0
        BY <3>3, <3>7
      <4>2. f = <<>>
        BY <3>5, <4>1
      <4>3. o = <<BytesAt(h, t - h)>> /\ o \in Seq(Seq(Nat))
        BY <3>1, <3>7, <4>2 DEF f
      <4> HIDE DEF o
      <4>4. Unpacked(y, fs, h, t)
        BY <2>2, <2>4, <3>5, <4>3 DEF Unpacked
      <4> QED BY <2>2, <2>4, <3>5, <4>3, <4>4 DEF y
    <3> QED BY <3>1, <3>6, <3>7
  <2> QED BY <2>3, <2>4 DEF StreamOK
<1> QED BY <1>1, <1>2 DEF Unpacked

\* The turns of the loop of on_recv.
Turns(f, b, fs, h, t) ==
  /\ f[0] = [b |-> b, out |-> <<>>, more |-> TRUE] /\ UnpackAll(b) = f[Size]
  /\ \A i \in 1 .. Size : f[i] = UnpackNext(f[i - 1])
  /\ \A i \in 0 .. Size : Unpacked(f[i], fs, h, t)

\* There are such turns.
LEMMA UnpackRuns ==
  ASSUME StreamOK, NEW fs \in Seq(Seq(Nat)), NEW h \in Nat, NEW t \in Nat, h < t, t <= Total,
         NEW b, HoldsBytes(b), b.head = h, b.tail = t,
         unpacker = "length_prefix" => CountedTo(b, fs) /\ Exact(fs)
  PROVE  \E f : Turns(f, b, fs, h, t)
<1> DEFINE first == [b |-> b, out |-> <<>>, more |-> TRUE]
           body(f) == [n \in 0 .. Size |-> IF n = 0 THEN first ELSE UnpackNext(f[n - 1])]
           loop == CHOOSE f : f = body(f)
           S == {x \in [b : Bufs, out : Seq(Seq(Nat)), more : BOOLEAN] : Unpacked(x, fs, h, t)}
           step == [i \in 1 .. Size |-> [x \in S |-> UnpackNext(x)]]
<1>1. Size \in Nat /\ Size > 0 /\ UnpackAll(b) = loop[Size]
  BY FramingAssumption DEF UnpackAll
<1>2. first \in S
  <2>1. first.b = b /\ first.out = <<>> /\ first.more = TRUE
    OBVIOUS
  <2>2. <<>> \in Seq(Seq(Nat)) /\ b \in Bufs
    BY DEF HoldsBytes
  <2>3. first \in [b : Bufs, out : Seq(Seq(Nat)), more : BOOLEAN]
    BY <2>2
  <2> HIDE DEF first
  <2>4. fs \o <<>> = fs
    OBVIOUS
  <2>5. Unpacked(first, fs, h, t)
    BY <2>1, <2>2, <2>4 DEF Unpacked
  <2> QED BY <2>3, <2>5
<1> HIDE DEF first
<1>3. ASSUME NEW x \in S PROVE UnpackNext(x) \in S
  <2> DEFINE y == UnpackNext(x)
  <2>1. /\ Unpacked(y, fs, h, t)
        /\ x.more => DOMAIN y = {"b", "out", "more"}
    BY UnpackNextIs
  <2>2. CASE ~x.more
    <3>1. y = x
      BY <2>2 DEF UnpackNext
    <3> QED BY <3>1
  <2>3. CASE x.more
    <3>1. \E p, q, m : y = [b |-> p, more |-> m, out |-> q]
      BY <2>3 DEF UnpackNext
    <3>2. PICK p, q, m : y = [b |-> p, more |-> m, out |-> q]
      BY <3>1
    <3> HIDE DEF y
    <3>3. y.b \in Bufs /\ y.out \in Seq(Seq(Nat)) /\ y.more \in BOOLEAN
      BY <2>1 DEF Unpacked, HoldsBytes
    <3>4. y \in [b : Bufs, out : Seq(Seq(Nat)), more : BOOLEAN]
      BY <3>2, <3>3
    <3> QED BY <2>1, <3>4 DEF y
  <2> QED BY <2>2, <2>3
<1>4. \A i \in 1 .. Size : \A x \in S : step[i][x] = UnpackNext(x)
  <2> HIDE DEF S
  <2> QED OBVIOUS
<1>5. PICK f : IsRun(f, Size, S, first, step)
  <2> HIDE DEF step, S
  <2>1. \A i \in 1 .. Size : \A x \in S : step[i][x] \in S
    BY <1>3, <1>4
  <2> QED BY <1>1, <1>2, <2>1, Iterates
<1>6. f \in [0 .. Size -> S] /\ f[0] = first
  <2> HIDE DEF S, step
  <2> QED BY <1>5 DEF IsRun
<1>7. ASSUME NEW i \in 1 .. Size PROVE i - 1 \in 0 .. Size /\ f[i - 1] \in S /\ f[i] = UnpackNext(f[i - 1])
  <2> HIDE DEF S, step
  <2>1. i - 1 \in 0 .. Size /\ f[i - 1] \in S
    BY <1>1, <1>6
  <2>2. f[i] = step[i][f[i - 1]]
    BY <1>5 DEF IsRun
  <2> QED BY <1>4, <2>1, <2>2
<1>8. f = body(f)
  <2>1. ASSUME NEW i \in 0 .. Size PROVE f[i] = body(f)[i]
    <3>1. CASE i = 0
      BY <1>6, <3>1
    <3>2. CASE i # 0
      <4>1. i \in 1 .. Size
        BY <1>1, <3>2
      <4> QED BY <1>7, <3>2, <4>1
    <3> QED BY <3>1, <3>2
  <2> HIDE DEF S
  <2> QED BY <1>6, <2>1
<1>9. loop = body(loop)
  <2> HIDE DEF body
  <2> QED BY <1>8
<1> HIDE DEF loop
<1> DEFINE Good == {i \in 0 .. Size : loop[i] = f[i]}
<1>10. 0 \in Good
  BY <1>1, <1>6, <1>9
<1>11. ASSUME NEW i \in 1 .. Size, i - 1 \in Good PROVE i \in Good
  <2>1. i \in 0 .. Size /\ i # 0
    BY <1>1
  <2>2. loop[i] = UnpackNext(loop[i - 1])
    BY <1>9, <2>1
  <2> QED BY <1>7, <1>11, <2>1, <2>2
<1>12. loop[Size] = f[Size]
  <2> HIDE DEF Good
  <2>1. \A i \in 0 .. Size : i \in Good
    BY <1>1, <1>10, <1>11, UpTo
  <2>2. Size \in 0 .. Size
    BY <1>1
  <2> QED BY <2>1, <2>2 DEF Good
<1>13. \A i \in 0 .. Size : Unpacked(f[i], fs, h, t)
  BY <1>6
<1>14. f[0] = [b |-> b, out |-> <<>>, more |-> TRUE]
  BY <1>6 DEF first
<1>15. Turns(f, b, fs, h, t)
  BY <1>1, <1>7, <1>12, <1>13, <1>14 DEF Turns
<1> QED BY <1>15

\* on_recv.
LEMMA UnpackAllIs ==
  ASSUME StreamOK, NEW fs \in Seq(Seq(Nat)), NEW h \in Nat, NEW t \in Nat, h < t, t <= Total,
         NEW b, HoldsBytes(b), b.head = h, b.tail = t,
         unpacker = "length_prefix" => CountedTo(b, fs) /\ Exact(fs)
  PROVE  LET r == UnpackAll(b) IN
         /\ Unpacked(r, fs, h, t)
         /\ unpacker = "stream" => r.b.head = t /\ r.out = <<BytesAt(h, t - h)>>
<1>0. PICK f : Turns(f, b, fs, h, t)
  BY UnpackRuns
<1>1. /\ f[0] = [b |-> b, out |-> <<>>, more |-> TRUE] /\ UnpackAll(b) = f[Size]
      /\ \A i \in 1 .. Size : f[i] = UnpackNext(f[i - 1])
      /\ \A i \in 0 .. Size : Unpacked(f[i], fs, h, t)
  BY <1>0 DEF Turns
<1>2. Size \in 1 .. Size /\ Size - 1 \in 0 .. Size
  BY FramingAssumption
<1> DEFINE x == f[Size - 1]
<1>3. Unpacked(x, fs, h, t) /\ UnpackAll(b) = UnpackNext(x)
  BY <1>1, <1>2
<1> HIDE DEF x
<1> QED BY <1>3, UnpackNextIs

\* The frame at the head of the ring, if there is one that is whole, comes
\* behind an empty one, which has been taken since the head was at h.
Settled(b, h) ==
  \A k \in 1 .. Len(lens) :
    b.head + 1 = StartOf(k) /\ StartOf(k + 1) - 1 <= b.tail
      => k > 1 /\ lens[k - 1] = 0 /\ h + HeaderSize <= b.head

\* i turns of the loop take i bytes or end it.
Further(x, h, i) == IF x.more THEN h + i <= x.b.head ELSE Settled(x.b, h)

\* One turn takes a byte or ends the loop.
LEMMA OneFurther ==
  ASSUME StreamOK, unpacker = "length_prefix", NEW fs \in Seq(Seq(Nat)), NEW h \in Nat, NEW t \in Nat, t <= Total,
         NEW x, Unpacked(x, fs, h, t), NEW i \in Nat, Further(x, h, i)
  PROVE  Further(UnpackNext(x), h, i + 1)
<1> DEFINE y == UnpackNext(x)  w == x.b  u == CopyOutFrame(w)  gs == fs \o x.out
<1>1. CASE ~x.more
  <2>1. y = x
    BY <1>1 DEF UnpackNext
  <2> QED BY <1>1, <2>1 DEF Further
<1>2. CASE x.more
  <2>1. h + i <= w.head /\ HoldsBytes(w) /\ w.tail = t /\ CountedTo(w, gs)
    BY <1>2 DEF Further, Unpacked
  <2>2. w.head \in Nat /\ HeaderSize = 4 /\ Lead = 4 /\ Len(lens) \in Nat
    BY <2>1, StartsAre DEF HoldsBytes, Bufs, HeaderSize, Lead
  <2>3. y.b = u.b /\ (y.more <=> u.frame # <<>>)
    <3> DEFINE f == u.frame  p == u.b  o == IF f # <<>> THEN Append(x.out, f) ELSE x.out
    <3>1. y = [b |-> p, more |-> f # <<>>, out |-> o]
      BY <1>2 DEF UnpackNext, Unpack
    <3> HIDE DEF y, f, p, o
    <3>2. y.b = p /\ (y.more <=> f # <<>>)
      BY <3>1
    <3> QED BY <3>2 DEF f, p
  <2> HIDE DEF y, w, gs
  <2>4. PICK k \in 1 .. Len(lens) + 1 : w.head + 1 = StartOf(k)
    BY <2>1 DEF CountedTo
  <2>5. \/ /\ u.b = w /\ u.frame = <<>>
           /\ k \in 1 .. Len(lens) => w.tail < StartOf(k + 1) - 1
        \/ /\ k \in 1 .. Len(lens) /\ HoldsBytes(u.b) /\ u.b.tail = w.tail
           /\ u.b.head + 1 = StartOf(k + 1)
           /\ u.frame = PayloadOf(k) /\ u.frame \in Seq(Nat) /\ Len(u.frame) = lens[k]
    BY <2>1, <2>4, CopyOutIs
  <2> HIDE DEF u
  <2>6. \A m \in 1 .. Len(lens) + 1 : StartOf(m) \in Nat
    BY StartsAre
  <2>7. \A m, n \in 1 .. Len(lens) + 1 : StartOf(m) = StartOf(n) => m = n
    <3> SUFFICES ASSUME NEW m \in 1 .. Len(lens) + 1, NEW n \in 1 .. Len(lens) + 1, StartOf(m) = StartOf(n), m # n
                 PROVE FALSE
      OBVIOUS
    <3>1. m < n \/ n < m
      BY <2>2
    <3> QED BY <2>6, <3>1, Ascending
  <2>8. CASE u.b = w /\ u.frame = <<>> /\ (k \in 1 .. Len(lens) => w.tail < StartOf(k + 1) - 1)
    <3>1. ASSUME NEW m \in 1 .. Len(lens), w.head + 1 = StartOf(m), StartOf(m + 1) - 1 <= w.tail PROVE FALSE
      <4>1. m = k
        BY <2>2, <2>4, <2>7, <3>1
      <4>2. m + 1 \in 1 .. Len(lens) + 1 /\ w.tail \in Nat
        BY <2>1, <2>2
      <4>3. w.tail < StartOf(m + 1) - 1
        BY <2>8, <3>1, <4>1
      <4>4. StartOf(m + 1) \in Nat /\ StartOf(m + 1) - 1 <= w.tail
        BY <2>6, <3>1, <4>2
      <4> QED BY <4>2, <4>3, <4>4
    <3>2. Settled(w, h)
      BY <3>1 DEF Settled
    <3> QED BY <2>3, <2>8, <3>2 DEF Further, y
  <2>9. CASE /\ k \in 1 .. Len(lens) /\ HoldsBytes(u.b) /\ u.b.tail = w.tail
             /\ u.b.head + 1 = StartOf(k + 1)
             /\ u.frame = PayloadOf(k) /\ u.frame \in Seq(Nat) /\ Len(u.frame) = lens[k]
    <3>1. lens[k] \in Nat /\ StartOf(k + 1) = StartOf(k) + 4 + lens[k] /\ StartOf(k) \in Nat
      BY <2>2, <2>9, StartsAre DEF StreamOK
    <3>2. u.b.head = w.head + 4 + lens[k] /\ h + HeaderSize <= u.b.head
      <4>1. u.b.head \in Nat
        BY <2>9 DEF HoldsBytes, Bufs
      <4> DEFINE v == u.b.head  p == w.head  q == StartOf(k)  l == lens[k]  z == StartOf(k + 1)
      <4>2. v \in Nat /\ p \in Nat /\ p + 1 = q /\ v + 1 = z /\ z = q + 4 + l /\ l \in Nat /\ h + i <= p /\ HeaderSize = 4
        BY <2>1, <2>2, <2>4, <2>9, <3>1, <4>1
      <4> HIDE DEF v, p, q, l, z
      <4>3. v = p + 4 + l /\ h + HeaderSize <= v
        BY <4>2
      <4> QED BY <4>3 DEF v, p, l
    <3>3. CASE u.frame # <<>>
      <4>1. h + (i + 1) <= u.b.head
        <5> DEFINE v == u.b.head  p == w.head  l == lens[k]
        <5>1. p \in Nat /\ l \in Nat /\ v = p + 4 + l /\ h + i <= p
          BY <2>1, <2>2, <3>1, <3>2
        <5> HIDE DEF v, p, l
        <5>2. h + (i + 1) <= v
          BY <5>1
        <5> QED BY <5>2 DEF v
      <4> QED BY <2>3, <3>3, <4>1 DEF Further, y
    <3>4. CASE u.frame = <<>>
      <4>1. lens[k] = 0
        BY <2>9, <3>4
      <4>2. ASSUME NEW m \in 1 .. Len(lens), u.b.head + 1 = StartOf(m) PROVE m > 1 /\ lens[m - 1] = 0
        <5>1. m = k + 1
          BY <2>2, <2>7, <2>9, <4>2
        <5> QED BY <2>2, <2>9, <4>1, <5>1
      <4>3. Settled(u.b, h)
        BY <3>2, <4>2 DEF Settled
      <4> QED BY <2>3, <3>4, <4>3 DEF Further, y
    <3> QED BY <3>3, <3>4
  <2> QED BY <2>5, <2>8, <2>9
<1> QED BY <1>1, <1>2

\* on_recv leaves no whole frame behind one that is not empty.
LEMMA UnpackAllSettles ==
  ASSUME StreamOK, unpacker = "length_prefix", NEW fs \in Seq(Seq(Nat)), NEW h \in Nat, NEW t \in Nat,
         h < t, t <= Total, t <= h + Size,
         NEW b, HoldsBytes(b), b.head = h, b.tail = t, CountedTo(b, fs) /\ Exact(fs)
  PROVE  Settled(UnpackAll(b).b, h)
<1>0. PICK f : Turns(f, b, fs, h, t)
  BY UnpackRuns
<1>1. /\ f[0] = [b |-> b, out |-> <<>>, more |-> TRUE] /\ UnpackAll(b) = f[Size]
      /\ \A i \in 1 .. Size : f[i] = UnpackNext(f[i - 1])
      /\ \A i \in 0 .. Size : Unpacked(f[i], fs, h, t)
  BY <1>0 DEF Turns
<1>2. Size \in Nat /\ Size > 0
  BY FramingAssumption
<1> DEFINE Good == {i \in 0 .. Size : Further(f[i], h, i)}
<1>3. 0 \in Good
  <2>1. f[0].more /\ f[0].b.head = h
    BY <1>1
  <2> QED BY <1>2, <2>1 DEF Further
<1>4. ASSUME NEW i \in 1 .. Size, i - 1 \in Good PROVE i \in Good
  <2> DEFINE x == f[i - 1]
  <2>1. i - 1 \in Nat /\ (i - 1) + 1 = i /\ i - 1 \in 0 .. Size /\ i \in 0 .. Size
    BY <1>2
  <2>2. Unpacked(x, fs, h, t) /\ Further(x, h, i - 1) /\ f[i] = UnpackNext(x)
    BY <1>1, <1>4, <2>1
  <2> HIDE DEF x
  <2>3. Further(UnpackNext(x), h, (i - 1) + 1)
    BY <2>1, <2>2, OneFurther
  <2> QED BY <2>1, <2>2, <2>3
<1>5. Further(f[Size], h, Size)
  <2> HIDE DEF Good
  <2>1. \A i \in 0 .. Size : i \in Good
    BY <1>2, <1>3, <1>4, UpTo
  <2>2. Size \in 0 .. Size
    BY <1>2
  <2> QED BY <2>1, <2>2 DEF Good
<1> DEFINE x == f[Size]  w == x.b
<1>6. HoldsBytes(w) /\ w.tail = t /\ w.head \in Nat
  <2>1. Size \in 0 .. Size
    BY <1>2
  <2>2. Unpacked(x, fs, h, t)
    BY <1>1, <2>1
  <2> HIDE DEF x
  <2> QED BY <2>2 DEF Unpacked, HoldsBytes, Bufs
<1>7. x.more => h + Size <= w.head
  BY <1>5 DEF Further
<1>8. ~x.more => Settled(w, h)
  BY <1>5 DEF Further
<1>9. UnpackAll(b).b = w
  BY <1>1
<1> HIDE DEF x, w
<1>10. CASE x.more
  <2>1. ASSUME NEW k \in 1 .. Len(lens), w.head + 1 = StartOf(k), StartOf(k + 1) - 1 <= w.tail PROVE FALSE
    <3>1. StartOf(k + 1) = StartOf(k) + 4 + lens[k] /\ lens[k] \in Nat
      BY StartsAre DEF StreamOK, Lead, HeaderSize
    <3> QED BY <1>2, <1>6, <1>7, <1>10, <2>1, <3>1
  <2> QED BY <1>9, <2>1 DEF Settled
<1> QED BY <1>8, <1>9, <1>10

\* packet_buffer.
Buf == [ring |-> ring, head |-> head, tail |-> tail]

\* The ring holds what is not unpacked, frames what is.
FramingInv ==
  /\ StreamOK /\ frames \in Seq(Seq(Nat))
  /\ HoldsBytes(Buf) /\ tail <= Total
  /\ unpacker = "length_prefix" => CountedTo(Buf, frames) /\ Exact(frames)
  /\ unpacker = "stream" => head = tail /\ FlattenSeq(frames) = BytesAt(0, tail)

\* The empty ring satisfies it.
LEMMA FramingStarts == ASSUME FramingInit PROVE FramingInv
<1>1. StreamOK
  BY FramingAssumption DEF FramingInit, StreamOK
<1>2. frames = <<>> /\ head = 0 /\ tail = 0 /\ ring \in [1 .. Size -> Nat]
  BY DEF FramingInit
<1>3. Buf.head = 0 /\ Buf.tail = 0 /\ Buf \in Bufs
  BY <1>2 DEF Buf, Bufs
<1>4. HoldsBytes(Buf)
  BY <1>3, FramingAssumption DEF HoldsBytes
<1>5. 1 \in 1 .. Len(lens) + 1 /\ Len(lens) + 1 \in 1 .. Len(lens) + 1 /\ Len(lens) \in Nat
      /\ StartOf(1) = 1
  BY <1>1, StartsAre
<1>6. tail <= Total
  <2>1. StartOf(Len(lens) + 1) \in Nat \ {0}
    BY <1>1, <1>5, StartsAre
  <2> QED BY <1>2, <2>1 DEF Total
<1>7. Len(<<>>) = 0 /\ DOMAIN <<>> = {} /\ <<>> \in Seq(Seq(Nat)) /\ 1 - 1 = 0
  OBVIOUS
<1>8. Nth(0) = 0
  <2>1. {j \in 1 .. 0 : lens[j] > 0} = {}
    OBVIOUS
  <2> QED BY <2>1, FS_EmptySet DEF Nth
<1>9. CountedTo(Buf, frames) /\ Exact(frames)
  <2>1. CountedTo(Buf, <<>>)
    BY <1>3, <1>5, <1>7, <1>8 DEF CountedTo
  <2>2. Exact(<<>>)
    BY <1>7 DEF Exact
  <2> QED BY <1>2, <2>1, <2>2
<1>10. FlattenSeq(frames) = BytesAt(0, tail)
  <2>1. FlattenSeq(<<>>) = <<>>
    BY <1>7 DEF FlattenSeq
  <2>2. BytesAt(0, 0) = <<>>
    BY DEF BytesAt
  <2> QED BY <1>2, <2>1, <2>2
<1> QED BY <1>1, <1>2, <1>4, <1>6, <1>7, <1>9, <1>10 DEF FramingInv

\* Every read keeps it.
LEMMA FramingStep == ASSUME FramingInv, [FramingNext]_framingVars PROVE FramingInv'
<1>1. CASE Read
  <2> DEFINE b == Buf  h == head
  <2>1. PICK n \in 1 .. Available(b) :
          /\ tail + n <= Total
          /\ LET r == UnpackAll(Fill(b, n)) IN
               /\ ring' = r.b.ring /\ head' = r.b.head /\ tail' = r.b.tail
               /\ frames' = frames \o r.out
    BY <1>1 DEF Read, Buf
  <2>2. unpacker' = unpacker /\ lens' = lens
    BY <1>1 DEF Read
  <2> DEFINE f == Fill(b, n)  r == UnpackAll(f)  t == tail + n
  <2>3. /\ ring' = r.b.ring /\ head' = r.b.head /\ tail' = r.b.tail /\ frames' = frames \o r.out
        /\ t <= Total
    BY <2>1
  <2>4. StreamOK /\ frames \in Seq(Seq(Nat)) /\ HoldsBytes(b) /\ b.head = head /\ b.tail = tail
    BY DEF FramingInv, Buf
  <2>5. head \in Nat /\ tail \in Nat /\ n \in Nat /\ n > 0 /\ head <= tail
    <3>1. head \in Nat /\ tail \in Nat /\ head <= tail
      BY <2>4 DEF HoldsBytes, Bufs
    <3>2. Available(b) \in Int
      BY <2>4, <3>1, FramingAssumption DEF Available, UsedBytes
    <3> QED BY <3>1, <3>2
  <2>6. HoldsBytes(f) /\ f.head = h /\ f.tail = t
    <3> HIDE DEF b
    <3> QED BY <2>4, FillIs
  <2>7. unpacker = "length_prefix" => CountedTo(f, frames) /\ Exact(frames)
    <3>1. SUFFICES ASSUME unpacker = "length_prefix" PROVE CountedTo(f, frames) /\ Exact(frames)
      OBVIOUS
    <3>2. CountedTo(b, frames) /\ Exact(frames)
      BY <3>1 DEF FramingInv
    <3> QED BY <2>4, <2>6, <3>2 DEF CountedTo
  <2>8. h \in Nat /\ t \in Nat /\ h < t /\ t <= Total
    BY <2>3, <2>5
  <2> HIDE DEF f, b, h, t
  <2>9. /\ Unpacked(r, frames, h, t)
        /\ unpacker = "stream" => r.b.head = t /\ r.out = <<BytesAt(h, t - h)>>
    BY <2>4, <2>6, <2>7, <2>8, UnpackAllIs
  <2> HIDE DEF r
  <2>10. HoldsBytes(r.b) /\ r.b.tail = t /\ r.out \in Seq(Seq(Nat))
    BY <2>9 DEF Unpacked
  <2>11. Buf' = r.b
    <3> DEFINE w == r.b
    <3>1. w \in Bufs
      BY <2>10 DEF HoldsBytes
    <3>2. Buf' = [ring |-> w.ring, head |-> w.head, tail |-> w.tail]
      BY <2>3 DEF Buf
    <3> HIDE DEF w
    <3> QED BY <3>1, <3>2 DEF Bufs, w
  <2>12. StreamOK' /\ Total' = Total
    BY <2>2, <2>4 DEF StreamOK, Total, StartOf, Lead
  <2>13. frames' \in Seq(Seq(Nat))
    BY <2>3, <2>4, <2>10, ConcatProperties
  <2>14. HoldsBytes(Buf)' /\ (tail <= Total)'
    <3>1. HoldsBytes(Buf') <=> HoldsBytes(Buf)'
      BY DEF HoldsBytes, Cell
    <3> QED BY <2>3, <2>8, <2>10, <2>11, <2>12, <3>1
  <2>15. ASSUME unpacker = "length_prefix" PROVE (CountedTo(Buf, frames) /\ Exact(frames))'
    <3>1. CountedTo(r.b, frames \o r.out) /\ Exact(frames \o r.out)
      BY <2>9, <2>15 DEF Unpacked
    <3>2. CountedTo(Buf', frames') /\ Exact(frames')
      BY <2>3, <2>11, <3>1
    <3>3. (CountedTo(Buf, frames) /\ Exact(frames))' <=> CountedTo(Buf', frames') /\ Exact(frames')
      BY <2>2 DEF CountedTo, Exact, StartOf, Lead, Nth, PayloadOf
    <3> QED BY <3>2, <3>3
  <2>16. ASSUME unpacker = "stream" PROVE head' = tail' /\ FlattenSeq(frames') = BytesAt(0, tail')
    <3>1. r.b.head = t /\ r.out = <<BytesAt(h, t - h)>> /\ h = tail /\ t = h + n
      BY <2>9, <2>16 DEF FramingInv, h, t
    <3> DEFINE d == BytesAt(h, t - h)
    <3>2. d \in Seq(Nat)
      <4>1. t - h \in Nat /\ d \in [1 .. t - h -> Nat]
        BY <2>8 DEF BytesAt
      <4> HIDE DEF d
      <4> QED BY <4>1
    <3>3. frames' = Append(frames, d)
      <4> HIDE DEF d
      <4> QED BY <2>3, <2>4, <3>1, <3>2 DEF d
    <3>4. FlattenSeq(frames') = FlattenSeq(frames) \o d
      <4> HIDE DEF d
      <4> QED BY <2>4, <3>2, <3>3, FlattenAppend
    <3>5. FlattenSeq(frames) = BytesAt(0, h)
      BY <2>16, <3>1 DEF FramingInv
    <3>6. BytesAt(0, h) \o d = BytesAt(0, t)
      <4> DEFINE a == BytesAt(0, h)
      <4>1. h \in Nat /\ t \in Nat /\ h < t
        BY <2>8
      <4>2. a \in [1 .. h -> Nat] /\ d \in [1 .. t - h -> Nat] /\ t - h \in Nat
        BY <4>1 DEF BytesAt
      <4>3. \A i \in 1 .. h : a[i] = i
        BY <4>1 DEF BytesAt
      <4>4. \A i \in 1 .. t - h : d[i] = h + i
        BY DEF BytesAt
      <4> HIDE DEF a, d
      <4>5. Len(a) = h /\ a \in Seq(Nat) /\ Len(d) = t - h
        <5> DEFINE z == t - h
        <5>1. z \in Nat /\ d \in [1 .. z -> Nat]
          BY <4>2
        <5> HIDE DEF z
        <5>2. Len(d) = z
          BY <5>1
        <5>3. Len(a) = h /\ a \in Seq(Nat)
          BY <4>1, <4>2
        <5> QED BY <5>2, <5>3 DEF z
      <4>6. DOMAIN (a \o d) = 1 .. t /\ \A i \in 1 .. t : (a \o d)[i] = i
        <5>1. Len(a \o d) = t /\ a \o d \in Seq(Nat)
          <6>1. Len(a \o d) = Len(a) + Len(d) /\ a \o d \in Seq(Nat)
            BY <3>2, <4>5, ConcatProperties
          <6> QED BY <4>1, <4>5, <6>1
        <5>2. ASSUME NEW i \in 1 .. t PROVE (a \o d)[i] = i
          <6>1. CASE i \in 1 .. h
            BY <3>2, <4>1, <4>3, <4>5, <6>1
          <6>2. CASE i \notin 1 .. h
            <7> DEFINE j == i - h
            <7>1. j \in 1 .. t - h /\ i = h + j
              BY <4>1, <6>2
            <7> HIDE DEF j
            <7>2. (a \o d)[i] = d[j]
              BY <3>2, <4>1, <4>5, <7>1
            <7> QED BY <4>4, <7>1, <7>2
          <6> QED BY <6>1, <6>2
        <5> QED BY <5>1, <5>2
      <4>7. BytesAt(0, t) = [i \in 1 .. t |-> i]
        BY <4>1 DEF BytesAt
      <4>8. a \o d = [i \in DOMAIN (a \o d) |-> (a \o d)[i]]
        <5>1. a \o d \in Seq(Nat)
          BY <3>2, <4>5, ConcatProperties
        <5> DEFINE e == a \o d
        <5> HIDE DEF e
        <5>2. e \in Seq(Nat)
          BY <5>1 DEF e
        <5>3. e = [i \in DOMAIN e |-> e[i]]
          BY <5>2
        <5> QED BY <5>3 DEF e
      <4> QED BY <4>6, <4>7, <4>8 DEF a
    <3> QED BY <2>3, <2>10, <3>1, <3>4, <3>5, <3>6
  <2>17. (unpacker = "stream" => head = tail /\ FlattenSeq(frames) = BytesAt(0, tail))'
    <3>1. BytesAt(0, tail)' = BytesAt(0, tail') /\ FlattenSeq(frames)' = FlattenSeq(frames')
      BY DEF BytesAt, FlattenSeq
    <3> QED BY <2>2, <2>16, <3>1
  <2>18. (unpacker = "length_prefix" => CountedTo(Buf, frames) /\ Exact(frames))'
    BY <2>2, <2>15
  <2> QED BY <2>12, <2>13, <2>14, <2>17, <2>18 DEF FramingInv
<1>2. CASE unpacker' = unpacker /\ lens' = lens /\ ring' = ring /\ head' = head /\ tail' = tail /\ frames' = frames
  <2>1. Buf' = Buf /\ StreamOK' = StreamOK /\ Total' = Total
    BY <1>2 DEF Buf, StreamOK, Total, StartOf, Lead
  <2>2. HoldsBytes(Buf)' = HoldsBytes(Buf)
    BY <2>1 DEF HoldsBytes, Cell
  <2>3. CountedTo(Buf, frames)' = CountedTo(Buf, frames)
    BY <1>2, <2>1 DEF CountedTo, StartOf, Lead, Nth
  <2>4. Exact(frames)' = Exact(frames)
    BY <1>2 DEF Exact, StartOf, Lead, Nth, PayloadOf
  <2>5. (FlattenSeq(frames) = BytesAt(0, tail))' = (FlattenSeq(frames) = BytesAt(0, tail))
    BY <1>2 DEF FlattenSeq, BytesAt
  <2>6. (unpacker = "length_prefix" => CountedTo(Buf, frames) /\ Exact(frames))'
    BY <1>2, <2>3, <2>4 DEF FramingInv
  <2>7. (unpacker = "stream" => head = tail /\ FlattenSeq(frames) = BytesAt(0, tail))'
    BY <1>2, <2>5 DEF FramingInv
  <2> QED BY <1>2, <2>1, <2>2, <2>6, <2>7 DEF FramingInv
<1> QED BY <1>1, <1>2 DEF FramingNext, ReadNothing, framingVars

\* Reading and unpacking, for any ring and any streams.
THEOREM FramingInvHolds == FramingSpec => []FramingInv
BY FramingStarts, FramingStep, PTL DEF FramingSpec

(* However the stream is cut into reads, a session's frames are the        *)
(* payloads that were sent, whole and in order, for any size of the ring.  *)
THEOREM FramesAreExact == FramingSpec => []FramesExact
<1>1. FramingInv => FramesExact
  <2> SUFFICES ASSUME FramingInv PROVE FramesExact
    OBVIOUS
  <2>1. CASE unpacker = "stream"
    <3>1. tail \in Nat
      BY DEF FramingInv, HoldsBytes, Bufs, Buf
    <3>2. BytesAt(0, tail) = [i \in 1 .. tail |-> i]
      BY <3>1 DEF BytesAt
    <3> QED BY <2>1, <3>2 DEF FramingInv, FramesExact
  <2>2. CASE unpacker # "stream"
    BY <2>2 DEF FramingInv, StreamOK, Exact, FramesExact
  <2> QED BY <2>1, <2>2
<1> QED BY <1>1, FramingInvHolds, PTL

\* What the head of the ring stands at, and what a full ring means.
HeldInv ==
  /\ FramingInv
  /\ unpacker = "length_prefix" => \E h \in Nat : h + Size >= tail /\ Settled(Buf, h)
  /\ given_up => unpacker = "length_prefix" /\ \E k \in DOMAIN lens : Lead + lens[k] > Size

\* The empty ring has room.
LEMMA HeldStarts == ASSUME FramingInit PROVE HeldInv
<1>1. FramingInv /\ tail = 0 /\ head = 0 /\ ~given_up
  BY FramingStarts DEF FramingInit
<1>2. ASSUME unpacker = "length_prefix", NEW k \in 1 .. Len(lens), Buf.head + 1 = StartOf(k), StartOf(k + 1) - 1 <= Buf.tail
      PROVE  FALSE
  <2>1. StreamOK /\ Buf.head = 0 /\ Buf.tail = 0
    BY <1>1 DEF FramingInv, Buf
  <2>2. StartOf(k + 1) = StartOf(k) + 4 + lens[k] /\ lens[k] \in Nat
    BY <1>2, <2>1, StartsAre DEF StreamOK, Lead, HeaderSize
  <2> QED BY <1>2, <2>1, <2>2
<1>3. ASSUME unpacker = "length_prefix" PROVE Settled(Buf, 0)
  BY <1>2, <1>3 DEF Settled
<1>4. 0 \in Nat /\ 0 + Size >= tail
  BY <1>1, FramingAssumption
<1> QED BY <1>1, <1>3, <1>4 DEF HeldInv

\* A ring that is full has room for the frame at its head, or never will.
LEMMA HeldStep == ASSUME HeldInv, [FramingNext]_framingVars PROVE HeldInv'
<1>1. FramingInv /\ FramingInv'
  BY FramingStep DEF HeldInv
<1>2. /\ StreamOK /\ frames \in Seq(Seq(Nat)) /\ HoldsBytes(Buf) /\ tail <= Total
      /\ Buf.head = head /\ Buf.tail = tail /\ Size \in Nat /\ Size > 0
      /\ head \in Nat /\ tail \in Nat /\ head <= tail /\ tail <= head + Size
  BY <1>1, FramingAssumption DEF FramingInv, HoldsBytes, Bufs, Buf
<1>3. CASE Read
  <2> DEFINE b == Buf
  <2>1. PICK n \in 1 .. Available(b) :
          /\ tail + n <= Total
          /\ LET r == UnpackAll(Fill(b, n)) IN
               /\ ring' = r.b.ring /\ head' = r.b.head /\ tail' = r.b.tail
    BY <1>3 DEF Read, Buf
  <2>2. unpacker' = unpacker /\ lens' = lens /\ given_up' = given_up /\ ~given_up
    BY <1>3 DEF Read
  <2> DEFINE f == Fill(b, n)  r == UnpackAll(f)  t == tail + n
  <2>3. HoldsBytes(f) /\ f.head = head /\ f.tail = t
    <3> HIDE DEF b
    <3> QED BY <1>2, FillIs DEF b
  <2>4. n \in Nat /\ n > 0 /\ t <= head + Size /\ t \in Nat /\ head < t /\ t <= Total
    <3>1. Available(b) = Size - (tail - head)
      BY <1>2 DEF Available, UsedBytes
    <3> QED BY <1>2, <2>1, <3>1
  <2>5. ASSUME unpacker = "length_prefix" PROVE (\E h \in Nat : h + Size >= tail /\ Settled(Buf, h))'
    <3> HIDE DEF b, f, t
    <3>1. CountedTo(f, frames) /\ Exact(frames)
      BY <1>1, <1>2, <2>3, <2>5 DEF FramingInv, CountedTo
    <3>2. Settled(r.b, head)
      BY <1>2, <2>3, <2>4, <2>5, <3>1, UnpackAllSettles
    <3>3. Unpacked(r, frames, head, t)
      BY <1>2, <2>3, <2>4, <2>5, <3>1, UnpackAllIs
    <3> HIDE DEF r
    <3>4. r.b.tail = t /\ r.b \in Bufs
      BY <3>3 DEF Unpacked, HoldsBytes
    <3>5. Buf'.head = r.b.head /\ Buf'.tail = r.b.tail
      BY <2>1 DEF Buf, r, f
    <3>6. Settled(Buf', head) /\ head + Size >= tail'
      BY <1>2, <2>1, <2>4, <3>2, <3>4, <3>5 DEF Settled, r, f
    <3>7. \A h : Settled(Buf, h)' <=> Settled(Buf', h)
      BY <2>2 DEF Settled, StartOf, Lead
    <3> QED BY <1>2, <3>6, <3>7
  <2> QED BY <1>1, <2>2, <2>5 DEF HeldInv
<1>4. CASE ReadNothing
  <2>1. Size - (tail - head) = 0 /\ tail < Total
    BY <1>2, <1>4 DEF ReadNothing, Available, UsedBytes, Buf
  <2>2. UNCHANGED <<unpacker, lens, ring, head, tail, frames>>
    BY <1>4 DEF ReadNothing
  <2>3. unpacker = "length_prefix"
    <3>1. unpacker = "stream" => head = tail
      BY <1>1 DEF FramingInv
    <3> QED BY <1>2, <2>1, <3>1 DEF StreamOK
  <2>4. PICK h \in Nat : h + Size >= tail /\ Settled(Buf, h)
    BY <2>3 DEF HeldInv
  <2>5. PICK k \in 1 .. Len(lens) + 1 : head + 1 = StartOf(k)
    BY <1>1, <1>2, <2>3 DEF FramingInv, CountedTo
  <2>6. k \in 1 .. Len(lens)
    <3>1. SUFFICES ASSUME k = Len(lens) + 1 PROVE FALSE
      BY <1>2, StartsAre
    <3>2. Total = head
      BY <1>2, <2>5, <3>1 DEF Total
    <3> QED BY <1>2, <2>1, <3>2
  <2>7. StartOf(k + 1) = StartOf(k) + Lead + lens[k] /\ lens[k] \in Nat /\ Lead \in Nat /\ k \in DOMAIN lens
    <3>1. k \in DOMAIN lens /\ lens[k] \in Nat
      BY <1>2, <2>6 DEF StreamOK
    <3>2. StartOf(k + 1) = StartOf(k) + Lead + lens[k] /\ Lead \in Nat
      BY <1>2, <2>6, StartsAre
    <3> QED BY <3>1, <3>2
  <2>8. ~(StartOf(k + 1) - 1 <= tail)
    <3>1. SUFFICES ASSUME StartOf(k + 1) - 1 <= tail PROVE FALSE
      OBVIOUS
    <3>2. h + HeaderSize <= head
      BY <1>2, <2>4, <2>5, <2>6, <3>1 DEF Settled
    <3> QED BY <1>2, <2>1, <2>4, <3>2 DEF HeaderSize
  <2>9. Lead + lens[k] > Size
    <3> DEFINE p == StartOf(k)  q == StartOf(k + 1)  l == Lead  m == lens[k]
    <3>1. head + 1 = p /\ q = p + l + m /\ l \in Nat /\ m \in Nat /\ ~(q - 1 <= tail) /\ Size - (tail - head) = 0
      BY <2>1, <2>5, <2>7, <2>8
    <3> HIDE DEF p, q, l, m
    <3>2. l + m > Size
      BY <1>2, <3>1
    <3> QED BY <3>2 DEF l, m
  <2>10. \A x : Settled(Buf, x)' <=> Settled(Buf, x)
    BY <2>2 DEF Settled, StartOf, Lead, Buf
  <2>11. (\E x \in Nat : x + Size >= tail /\ Settled(Buf, x))'
    BY <2>2, <2>4, <2>10
  <2>12. (\E x \in DOMAIN lens : Lead + lens[x] > Size)'
    <3>1. Lead' = Lead
      BY <2>2 DEF Lead
    <3> QED BY <2>2, <2>7, <2>9, <3>1
  <2> QED BY <1>1, <2>2, <2>3, <2>11, <2>12 DEF HeldInv
<1>5. CASE UNCHANGED framingVars
  <2>1. UNCHANGED <<unpacker, lens, head, tail, given_up>> /\ Buf' = Buf
    BY <1>5 DEF framingVars, Buf
  <2>2. \A x : Settled(Buf, x)' <=> Settled(Buf, x)
    BY <2>1 DEF Settled, StartOf, Lead
  <2>3. Lead' = Lead
    BY <2>1 DEF Lead
  <2> QED BY <1>1, <2>1, <2>2, <2>3 DEF HeldInv
<1> QED BY <1>3, <1>4, <1>5 DEF FramingNext

(* No frame that is whole is left in the ring, but behind an empty one,    *)
(* which ended the loop of on_recv; and the stream is given up only for a  *)
(* frame that is larger than the ring.                                     *)
THEOREM NoFrameIsHeldBack == FramingSpec => []NoneHeldBack
<1>1. HeldInv => NoneHeldBack
  <2> SUFFICES ASSUME HeldInv PROVE NoneHeldBack
    OBVIOUS
  <2>1. ASSUME unpacker = "length_prefix", NEW k \in DOMAIN lens, StartOf(k + 1) - 1 <= tail, head + 1 = StartOf(k)
        PROVE  k > 1 /\ lens[k - 1] = 0
    <3>1. PICK h \in Nat : Settled(Buf, h)
      BY <2>1 DEF HeldInv
    <3>2. k \in 1 .. Len(lens) /\ Buf.head = head /\ Buf.tail = tail
      BY DEF HeldInv, FramingInv, StreamOK, Buf
    <3> QED BY <2>1, <3>1, <3>2 DEF Settled
  <2> QED BY <2>1 DEF HeldInv, NoneHeldBack
<1> QED BY <1>1, HeldStarts, HeldStep, PTL DEF FramingSpec

=============================================================================
