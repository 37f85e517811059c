-------------------------------- MODULE RpcCalls --------------------------------
(***************************************************************************)
(* rpc::call and rpc::serv over one session.  The calls of a thread send   *)
(* their requests, and then each of them takes the next frame that comes   *)
(* in, whoever's it is: a call that got another call's response leaves it  *)
(* in the trigger of its service (a map of slots, request id modulo        *)
(* capacity) and waits there for its own.  The server keeps Concurrency    *)
(* iterations of receive, dispatch and send open.                          *)
(*                                                                         *)
(* Each side is one scheduler thread, so an action is one handler: what a  *)
(* frame, a finished write or a failing session sets off, to the end.      *)
(***************************************************************************)
EXTENDS Integers, Sequences, FiniteSets, SequencesExt

CONSTANTS
  Calls,         \* bound: number of calls made
  ServiceOf,     \* ServiceOf[c]: the service_id call c is instantiated with
  MapCapacity,   \* slots of a trigger's pending_requests_map
  QueueRoom,     \* frames or receivers a frame_receiver's queue holds
  Concurrency,   \* the server's concurrent(N)
  InFlight,      \* calls the client has open at a time
  MayBreak       \* whether the connection may fail

Ids      == 0 .. Calls - 1      \* request_id_counter++
Services == {ServiceOf[c] : c \in Ids}
Nobody   == -1
SlotOf(c) == c % MapCapacity    \* rid % slots.size()

VARIABLES
  call,        \* of each call: where it is
  got,         \* of each call: the id in the response it went on with
  slots,       \* slots[s][k]: the trigger of service s
  send_q,      \* client: requests handed to the session's scheduler
  recv_q,      \* client's frame_receiver: calls waiting for a frame
  ready_q,     \* client's frame_receiver: frames nobody waited for
  closed,      \* client's frame_receiver::closed
  requests, responses,   \* frames on the way
  broken,      \* the connection has failed
  serving,     \* server: "recv" iterations, as many as wait for a frame
  handling,    \* server: requests being dispatched
  serv_ready_q, serv_send_q, serv_closed,
  lost         \* history: frames dropped at a full queue

clientVars == <<call, got, slots, send_q, recv_q, ready_q, closed>>
serverVars == <<serving, handling, serv_ready_q, serv_send_q, serv_closed>>
rpcVars    == <<clientVars, serverVars, requests, responses, broken, lost>>

Frame(id, error) == [id |-> id, error |-> error]
Empty            == [state |-> "empty", holds |-> Nobody, error |-> FALSE]
Open             == {c \in Ids : call[c] \notin {"idle", "done", "failed"}}

-----------------------------------------------------------------------------
(* What a call does with a frame.  w = [call, got, slots] of the client.   *)

\* The end of wait_res: an error response is thrown as rpc_error.
Finish(w, c, f) ==
  [w EXCEPT !.call[c] = IF f.error THEN "failed" ELSE "done", !.got[c] = f.id]

\* pending_requests_map::on_frame; in a taken slot it throws, and c fails.
OnResponse(w, c, f) ==
  LET s == ServiceOf[c]
      slot == w.slots[s][SlotOf(f.id)]
  IN CASE slot.state = "empty" ->
            [w EXCEPT !.slots[s][SlotOf(f.id)] =
               [state |-> "wait_callback", holds |-> f.id, error |-> f.error]]
       [] slot.state = "wait_callback" -> [w EXCEPT !.call[c] = "failed"]
       [] slot.state = "wait_frame" ->
            Finish([w EXCEPT !.slots[s][SlotOf(f.id)] = Empty], slot.holds, f)

\* pending_requests_map::on_callback.
WaitResponse(w, c) ==
  LET s == ServiceOf[c]
      slot == w.slots[s][SlotOf(c)]
  IN CASE slot.state = "empty" ->
            [w EXCEPT !.slots[s][SlotOf(c)] =
                        [state |-> "wait_frame", holds |-> c, error |-> FALSE],
                      !.call[c] = "waiting"]
       [] slot.state = "wait_frame" -> [w EXCEPT !.call[c] = "failed"]
       [] slot.state = "wait_callback" ->
            Finish([w EXCEPT !.slots[s][SlotOf(c)] = Empty], c, Frame(slot.holds, slot.error))

\* Mutant: a frame that is not one's own is taken all the same.
ReceiveAny(w, c, f) == Finish(w, c, f)

\* Mutant: the relayed frame is dropped.
ReceiveOnlyOwn(w, c, f) == IF f.id = c THEN Finish(w, c, f) ELSE WaitResponse(w, c)

\* wait_res: one's own response, or one to relay.
Receive(w, c, f) ==
  IF f.id = c THEN Finish(w, c, f)
  ELSE LET r == OnResponse(w, c, f)
       IN IF r.call[c] = "failed" THEN r ELSE WaitResponse(r, c)

Client == [call |-> call, got |-> got, slots |-> slots]
Becomes(w) == call' = w.call /\ got' = w.got /\ slots' = w.slots

-----------------------------------------------------------------------------
(* The client. *)

\* make_call_context and send_req.
Call(c) ==
  /\ call[c] = "idle"
  /\ \A d \in Ids : d < c => call[d] # "idle"
  /\ Cardinality(Open) < InFlight
  /\ call' = [call EXCEPT ![c] = "sending"]
  /\ send_q' = Append(send_q, c)
  /\ UNCHANGED <<got, slots, recv_q, ready_q, closed, serverVars, requests, responses, broken, lost>>

\* The session's scheduler writes the next request; a closed descriptor fails.
Write ==
  /\ send_q # <<>>
  /\ send_q' = Tail(send_q)
  /\ call' = [call EXCEPT ![Head(send_q)] = IF closed THEN "failed" ELSE "written"]
  /\ requests' = IF closed \/ broken THEN requests ELSE Append(requests, Head(send_q))
  /\ UNCHANGED <<got, slots, recv_q, ready_q, closed, serverVars, responses, broken, lost>>

\* The write has completed: wait_res, and do_recv at the frame_receiver.
Sent(c) ==
  /\ call[c] = "written"
  /\ IF closed \/ (ready_q = <<>> /\ Len(recv_q) = QueueRoom)
       THEN /\ call' = [call EXCEPT ![c] = "failed"]
            /\ UNCHANGED <<got, slots, recv_q, ready_q>>
     ELSE IF ready_q # <<>>
       THEN /\ Becomes(Receive(Client, c, Head(ready_q)))
            /\ ready_q' = Tail(ready_q)
            /\ UNCHANGED recv_q
       ELSE /\ call' = [call EXCEPT ![c] = "recv"]
            /\ recv_q' = Append(recv_q, c)
            /\ UNCHANGED <<got, slots, ready_q>>
  /\ UNCHANGED <<send_q, closed, serverVars, requests, responses, broken, lost>>

\* on_frame: the first waiting call takes it.
OnFrame ==
  /\ responses # <<>> /\ ~closed
  /\ responses' = Tail(responses)
  /\ IF recv_q # <<>>
       THEN /\ Becomes(Receive(Client, Head(recv_q), Head(responses)))
            /\ recv_q' = Tail(recv_q)
            /\ UNCHANGED <<ready_q, lost>>
       ELSE /\ IF Len(ready_q) < QueueRoom
                 THEN ready_q' = Append(ready_q, Head(responses)) /\ UNCHANGED lost
                 ELSE lost' = lost \cup {Head(responses).id} /\ UNCHANGED ready_q
            /\ UNCHANGED <<call, got, slots, recv_q>>
  /\ UNCHANGED <<send_q, closed, serverVars, requests, broken>>

\* Mutant: the receivers stay in the queue.
OnErrorOnly ==
  /\ broken /\ ~closed
  /\ closed' = TRUE
  /\ ready_q' = <<>>
  /\ UNCHANGED <<call, got, slots, send_q, recv_q, serverVars, requests, responses, broken, lost>>

(* on_error: every receiver fails, in order, and in its any_exception runs *)
(* fail_session on a trigger that is that handler's own static object: the *)
(* slots the calls wait in are another trigger's, and stay as they are.    *)
OnError ==
  /\ broken /\ ~closed
  /\ closed' = TRUE
  /\ call' = [c \in Ids |-> IF Contains(recv_q, c) THEN "failed" ELSE call[c]]
  /\ recv_q' = <<>> /\ ready_q' = <<>>
  /\ UNCHANGED <<got, slots, send_q, serverVars, requests, responses, broken, lost>>

-----------------------------------------------------------------------------
(* The server. *)

\* The next iteration's recv_req, with iterations waiting already: the first
\* frame that is ready, or one more to wait; none when the session is closed.
NextIteration(waiting, busy) ==
  IF serv_closed THEN /\ serving' = waiting /\ handling' = busy /\ UNCHANGED serv_ready_q
  ELSE IF serv_ready_q # <<>>
    THEN /\ handling' = busy \cup {Head(serv_ready_q)}
         /\ serv_ready_q' = Tail(serv_ready_q)
         /\ serving' = waiting
    ELSE /\ serving' = waiting + 1 /\ handling' = busy /\ UNCHANGED serv_ready_q

RecvReq ==
  /\ requests # <<>> /\ ~serv_closed
  /\ requests' = Tail(requests)
  /\ IF serving > 0
       THEN /\ serving' = serving - 1
            /\ handling' = handling \cup {Head(requests)}
            /\ UNCHANGED <<serv_ready_q, lost>>
       ELSE /\ IF Len(serv_ready_q) < QueueRoom
                 THEN serv_ready_q' = Append(serv_ready_q, Head(requests)) /\ UNCHANGED lost
                 ELSE lost' = lost \cup {Head(requests)} /\ UNCHANGED serv_ready_q
            /\ UNCHANGED <<serving, handling>>
  /\ UNCHANGED <<clientVars, serv_send_q, serv_closed, responses, broken>>

\* dispatch ends: with a response, or with build_error_response.
Dispatch(c) ==
  /\ c \in handling
  /\ handling' = handling \ {c}
  /\ \E error \in BOOLEAN : serv_send_q' = Append(serv_send_q, Frame(c, error))
  /\ UNCHANGED <<clientVars, serving, serv_ready_q, serv_closed, requests, responses, broken, lost>>

\* Mutant: the iteration ends with its response.
SendResOnly ==
  /\ serv_send_q # <<>>
  /\ serv_send_q' = Tail(serv_send_q)
  /\ responses' = IF broken \/ serv_closed THEN responses ELSE Append(responses, Head(serv_send_q))
  /\ UNCHANGED <<clientVars, serving, handling, serv_ready_q, serv_closed, requests, broken, lost>>

\* send_res: its result is ignored, and the iteration makes room for the next.
SendRes ==
  /\ serv_send_q # <<>>
  /\ serv_send_q' = Tail(serv_send_q)
  /\ responses' = IF broken \/ serv_closed THEN responses ELSE Append(responses, Head(serv_send_q))
  /\ NextIteration(serving, handling)
  /\ UNCHANGED <<clientVars, serv_closed, requests, broken, lost>>

\* on_error at the server: every receiver fails, and handle_exception closes.
ServError ==
  /\ broken /\ ~serv_closed
  /\ serv_closed' = TRUE
  /\ serving' = 0
  /\ serv_ready_q' = <<>>
  /\ UNCHANGED <<clientVars, handling, serv_send_q, requests, responses, broken, lost>>

\* The connection fails: what is on the way may or may not arrive.
Break ==
  /\ MayBreak /\ ~broken
  /\ broken' = TRUE
  /\ UNCHANGED <<clientVars, serverVars, requests, responses, lost>>

-----------------------------------------------------------------------------
RpcInit ==
  /\ call = [c \in Ids |-> "idle"]
  /\ got = [c \in Ids |-> Nobody]
  /\ slots = [s \in Services |-> [k \in 0 .. MapCapacity - 1 |-> Empty]]
  /\ send_q = <<>> /\ recv_q = <<>> /\ ready_q = <<>> /\ closed = FALSE
  /\ requests = <<>> /\ responses = <<>> /\ broken = FALSE
  /\ serving = Concurrency /\ handling = {}
  /\ serv_ready_q = <<>> /\ serv_send_q = <<>> /\ serv_closed = FALSE
  /\ lost = {}

ClientStep == Write \/ OnFrame \/ OnError \/ (\E c \in Ids : Sent(c))
ServerStep == RecvReq \/ SendRes \/ ServError \/ (\E c \in Ids : Dispatch(c))

RpcNext == (\E c \in Ids : Call(c)) \/ ClientStep \/ ServerStep \/ Break

RpcSpec == RpcInit /\ [][RpcNext]_rpcVars

-----------------------------------------------------------------------------
(* Properties. *)

(* However the responses are reordered and relayed between the calls, a    *)
(* call goes on with the response to its own request.                      *)
OwnAnswer == \A c \in Ids : got[c] \in {Nobody, c}

\* c's response lies in the trigger of another service.
Misplaced(c) == \E s \in Services \ {ServiceOf[c]} :
  slots[s][SlotOf(c)].state = "wait_callback" /\ slots[s][SlotOf(c)].holds = c

(* When both schedulers have nothing left to do, every call has ended, but *)
(* for the calls this design leaves behind: one whose frame a full queue   *)
(* dropped, and a call that waits in a trigger although the session or the *)
(* receive of another call failed (nobody is left to relay to it), or      *)
(* whose response was relayed to another service's trigger.                *)
LeftBehind(c) ==
  \/ call[c] \in {"waiting", "recv"} /\ lost # {}
  \/ /\ call[c] = "waiting"
     /\ closed \/ Misplaced(c) \/ \E d \in Ids : call[d] = "failed"

RpcAtRest == ~ENABLED <<ClientStep \/ ServerStep>>_rpcVars
CallsEnd == RpcAtRest =>
  \A c \in Ids : call[c] \in {"idle", "done", "failed"} \/ LeftBehind(c)

=============================================================================
