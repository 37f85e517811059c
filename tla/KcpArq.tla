------------------------------- MODULE KcpArq -------------------------------
(***************************************************************************)
(* The KCP control blocks of one connection, one at each end               *)
(* (src/env/scheduler/net/kcp/common/ikcp.hh), driven as the schedulers    *)
(* drive them: send() from drain_send_q, input() and deliver_received on   *)
(* every datagram, flush() on every update.  The settings are those of     *)
(* create_connection: nodelay and no congestion window.  The clock is left *)
(* out: which retransmission timers have passed when flush() runs is a     *)
(* choice, so every estimate of the round trip is covered.  Datagrams are  *)
(* lost, repeated and overtaken; a flush fits one datagram.                *)
(***************************************************************************)
EXTENDS Integers, Sequences, FiniteSets, SequencesExt, FiniteSetsExt

CONSTANTS Messages,     \* end -> the fragment counts of what it will send
          MaxFragments, \* 255 in the code
          SndWnd, RcvWnd,
          FastResend, FastLimit, DeadLink,
          ArqWireRoom,  \* bound: datagrams in flight
          AckRoom       \* bound: acknowledgements owed between two flushes

(* Two ends; send() makes at least one fragment of a message; settings are *)
(* numbers.                                                                *)
ASSUME ArqAssumption ==
    /\ \E a, b \in DOMAIN Messages : a # b /\ DOMAIN Messages = {a, b}
    /\ \A e \in DOMAIN Messages : Messages[e] \in Seq(Nat \ {0})
    /\ {MaxFragments, RcvWnd, SndWnd, FastResend, FastLimit, DeadLink} \subseteq Nat

VARIABLES kcp,          \* end -> its control block
          datagrams,    \* in flight: [to, segs]
          said,         \* end -> messages handed to send() so far
          taken,        \* end -> those it took: [id, frags, first segment]
          heard         \* end -> what its session was given, in order

arqvars == <<kcp, datagrams, said, taken, heard>>

Ends == DOMAIN Messages
Other(e) == CHOOSE o \in Ends : o # e

NewKcp == [snd_una |-> 0, snd_nxt |-> 0, rcv_nxt |-> 0, rmt_wnd |-> RcvWnd,
           probe |-> {}, probe_wait |-> FALSE, state |-> 0,
           snd_queue |-> <<>>, snd_buf |-> <<>>,
           rcv_queue |-> <<>>, rcv_buf |-> <<>>, acklist |-> <<>>]

ArqInit == /\ kcp = [e \in Ends |-> NewKcp]
           /\ datagrams = {}
           /\ said = [e \in Ends |-> 0]
           /\ taken = [e \in Ends |-> <<>>]
           /\ heard = [e \in Ends |-> <<>>]

Wnd(k) == RcvWnd - Len(k.rcv_queue)
Header(k, cmd) == [cmd |-> cmd, sn |-> 0, frg |-> 0, data |-> <<>>,
                   wnd |-> Wnd(k), una |-> k.rcv_nxt]
AtMost(n, x) == IF x < n THEN x ELSE n

(* The segments of a list that are in a set, as they are in the list.      *)
Kept(list, set) ==
    LET kept[i \in 0 .. Len(list)] ==
          IF i = 0 THEN <<>>
          ELSE IF list[i] \in set THEN Append(kept[i - 1], list[i])
          ELSE kept[i - 1]
    IN kept[Len(list)]

-----------------------------------------------------------------------------
(* send(): a message in fragments, numbered down to 0.                     *)
Fragments(m, n) == [i \in 1..n |-> [frg |-> n - i, data |-> <<m, i>>]]

SendMessage(k, m, n) == [k EXCEPT !.snd_queue = @ \o Fragments(m, n)]

(* peeksize(): is the message at the front of rcv_queue complete?          *)
MessageReady(k) == /\ k.rcv_queue # <<>>
                   /\ Len(k.rcv_queue) > k.rcv_queue[1].frg

(* MUTANT: what is in rcv_buf moves on whatever its number is.             *)
MoveWhatever(k, s) == [k EXCEPT !.rcv_queue = Append(@, s), !.rcv_nxt = @ + 1]

(* move_rcv_buf_to_queue(): the segment that is next, if there is room; it *)
(* stops at the first one that stays.                                      *)
MoveUp(k, s) ==
    IF k.rcv_buf = <<>> /\ s.sn = k.rcv_nxt /\ Len(k.rcv_queue) < RcvWnd
    THEN [k EXCEPT !.rcv_queue = Append(@, s), !.rcv_nxt = @ + 1]
    ELSE [k EXCEPT !.rcv_buf = Append(@, s)]

MoveRcvBufToQueue(k) ==
    LET moved[i \in 0 .. Len(k.rcv_buf)] ==
          IF i = 0 THEN [k EXCEPT !.rcv_buf = <<>>]
          ELSE MoveUp(moved[i - 1], k.rcv_buf[i])
    IN moved[Len(k.rcv_buf)]

(* recv(): the message goes, what follows moves up, and a peer that saw a  *)
(* full queue is told.                                                     *)
FrontMessage(k) == SubSeq(k.rcv_queue, 1, k.rcv_queue[1].frg + 1)

RecvMessage(k) ==
    LET n == Len(FrontMessage(k))
        j == MoveRcvBufToQueue(
                 [k EXCEPT !.rcv_queue = SubSeq(@, n + 1, Len(@))]) IN
    IF Len(k.rcv_queue) >= RcvWnd /\ Len(j.rcv_queue) < RcvWnd
    THEN [j EXCEPT !.probe = @ \cup {"TELL"}] ELSE j

-----------------------------------------------------------------------------
(* MUTANT parse_una() that takes the next expected number for received.    *)
ParseUnaTooFar(k, una) ==
    [k EXCEPT !.snd_buf = Kept(@, {s \in Range(@) : s.sn > una})]

ParseUna(k, una) ==
    [k EXCEPT !.snd_buf = Kept(@, {s \in Range(@) : s.sn >= una})]

ShrinkBuf(k) ==
    [k EXCEPT !.snd_una = IF k.snd_buf = <<>> THEN k.snd_nxt
                          ELSE k.snd_buf[1].sn]

Unacknowledged(k, sn) == k.snd_una <= sn /\ sn < k.snd_nxt

ParseAck(k, sn) ==
    IF Unacknowledged(k, sn)
    THEN [k EXCEPT !.snd_buf = Kept(@, {s \in Range(@) : s.sn # sn})] ELSE k

(* parse_fastack(): the segments that a later one has overtaken.           *)
Overtaken(s, sn) ==
    IF s.sn < sn THEN [s EXCEPT !.fastack = AtMost(FastResend, @ + 1)] ELSE s

ParseFastack(k, sn) ==
    IF Unacknowledged(k, sn)
    THEN [k EXCEPT !.snd_buf = [i \in DOMAIN @ |-> Overtaken(@[i], sn)]] ELSE k

ParseData(k, seg) ==
    IF seg.sn \notin k.rcv_nxt .. k.rcv_nxt + RcvWnd - 1 THEN k
    ELSE MoveRcvBufToQueue(
             IF \E i \in DOMAIN k.rcv_buf : k.rcv_buf[i].sn = seg.sn THEN k
             ELSE [k EXCEPT !.rcv_buf =
                      Kept(@, {s \in Range(@) : s.sn < seg.sn}) \o <<seg>> \o
                      Kept(@, {s \in Range(@) : s.sn > seg.sn})])

(* input(): every segment of a datagram carries the window and una; then   *)
(* an acknowledgement, a push within the window (acknowledged also when it *)
(* is an old one), or a question about the window.                         *)
InputSegment(k0, seg) ==
    LET k == ShrinkBuf(ParseUna([k0 EXCEPT !.rmt_wnd = seg.wnd], seg.una)) IN
    CASE seg.cmd = "ACK" -> ShrinkBuf(ParseAck(k, seg.sn))
      [] seg.cmd = "PUSH" ->
            IF seg.sn >= k.rcv_nxt + RcvWnd THEN k
            ELSE ParseData([k EXCEPT !.acklist = Append(@, seg.sn)],
                           [sn |-> seg.sn, frg |-> seg.frg,
                            data |-> seg.data])
      [] seg.cmd = "WASK" -> [k EXCEPT !.probe = @ \cup {"TELL"}]
      [] seg.cmd = "WINS" -> k

Input(k, segs) ==
    LET input[i \in 0 .. Len(segs)] ==
          IF i = 0 THEN k ELSE InputSegment(input[i - 1], segs[i])
        after == input[Len(segs)]
        acked == {segs[i].sn : i \in {j \in DOMAIN segs :
                                        segs[j].cmd = "ACK"}} IN
    IF acked = {} THEN after ELSE ParseFastack(after, Max(acked))

-----------------------------------------------------------------------------
(* flush(): the acknowledgements; the window probe, whose timer is armed   *)
(* by the first flush that sees a closed window.                           *)
Acks(k) == [i \in DOMAIN k.acklist |->
               [Header(k, "ACK") EXCEPT !.sn = k.acklist[i]]]

ProbeWindow(k, due) ==
    IF k.rmt_wnd # 0 THEN [k EXCEPT !.probe_wait = FALSE]
    ELSE [k EXCEPT !.probe_wait = TRUE,
                   !.probe = IF k.probe_wait /\ due THEN @ \cup {"SEND"} ELSE @]

Probes(k) == (IF "SEND" \in k.probe THEN <<Header(k, "WASK")>> ELSE <<>>) \o
             (IF "TELL" \in k.probe THEN <<Header(k, "WINS")>> ELSE <<>>)

(* The segments that the two windows let through move to snd_buf.          *)
FillWindow(k) ==
    LET wnd == AtMost(SndWnd, k.rmt_wnd)
        room == k.snd_una + wnd - k.snd_nxt
        n == IF room <= 0 THEN 0 ELSE AtMost(Len(k.snd_queue), room) IN
    [k EXCEPT !.snd_buf = @ \o [i \in 1..n |->
                 [sn |-> k.snd_nxt + i - 1, frg |-> k.snd_queue[i].frg,
                  data |-> k.snd_queue[i].data, xmit |-> 0, fastack |-> 0]],
              !.snd_queue = SubSeq(@, n + 1, Len(@)),
              !.snd_nxt = @ + n]

(* MUTANT: a segment sent DeadLink times is not sent again.                *)
NeedSendUntilDead(seg, late) ==
    /\ seg.xmit < DeadLink
    /\ seg.xmit = 0 \/ seg.sn \in late

(* First transmission, timeout, or fast retransmission.                    *)
NeedSend(seg, late) ==
    \/ seg.xmit = 0
    \/ seg.sn \in late
    \/ /\ seg.fastack >= FastResend
       /\ seg.xmit <= FastLimit

Transmitted(seg) == [seg EXCEPT !.xmit = AtMost(DeadLink, @ + 1), !.fastack = 0]

Pushes(k, late) ==
    LET due == Kept(k.snd_buf, {s \in Range(k.snd_buf) : NeedSend(s, late)}) IN
    [i \in DOMAIN due |-> [Header(k, "PUSH") EXCEPT
        !.sn = due[i].sn, !.frg = due[i].frg, !.data = due[i].data]]

Transmit(k, late) ==
    LET buf == [i \in DOMAIN k.snd_buf |->
                   IF NeedSend(k.snd_buf[i], late)
                   THEN Transmitted(k.snd_buf[i]) ELSE k.snd_buf[i]] IN
    [k EXCEPT !.snd_buf = buf,
              !.state = IF \E i \in DOMAIN buf : buf[i].xmit >= DeadLink
                        THEN -1 ELSE @]

Flushed(k, late, due) ==
    LET filled == FillWindow(ProbeWindow(k, due)) IN
    [next |-> [Transmit(filled, late) EXCEPT !.acklist = <<>>, !.probe = {}],
     out  |-> Acks(k) \o Probes(filled) \o Pushes(filled, late)]

-----------------------------------------------------------------------------
(* The number of the segment after the first n messages.                   *)
EndOf(msgs, n) == IF n = 0 THEN 0 ELSE msgs[n].first + msgs[n].frags

(* drain_send_q(): a message of too many fragments is refused.             *)
DrainSendQ(e) ==
    /\ said[e] < Len(Messages[e])
    /\ said' = [said EXCEPT ![e] = @ + 1]
    /\ LET n == Messages[e][said[e] + 1] IN
       IF n > MaxFragments THEN UNCHANGED <<kcp, taken>>
       ELSE /\ kcp' = [kcp EXCEPT ![e] = SendMessage(@, said[e] + 1, n)]
            /\ taken' = [taken EXCEPT ![e] = Append(@,
                  [id |-> said[e] + 1, frags |-> n, first |-> EndOf(@, Len(@))])]
    /\ UNCHANGED <<datagrams, heard>>

(* MUTANT deliver_received() that takes one message a datagram.            *)
DeliverOne(k) ==
    IF MessageReady(k) THEN [kcp |-> RecvMessage(k), msgs |-> <<FrontMessage(k)>>]
    ELSE [kcp |-> k, msgs |-> <<>>]

(* deliver_received(): every message that is complete, in a loop.          *)
DeliverNext(d) ==
    IF ~MessageReady(d.kcp) THEN d
    ELSE [kcp |-> RecvMessage(d.kcp), msgs |-> Append(d.msgs, FrontMessage(d.kcp))]

DeliverReceived(k) ==
    LET most == Len(k.rcv_queue) + Len(k.rcv_buf)
        delivered[i \in 0 .. most] ==
          IF i = 0 THEN [kcp |-> k, msgs |-> <<>>] ELSE DeliverNext(delivered[i - 1])
    IN delivered[most]

(* on_raw_packet(): a datagram arrives, and may arrive again.              *)
OnDatagram(e) ==
    \E d \in datagrams :
       /\ d.to = e
       /\ Len(kcp[e].acklist) + Len(d.segs) <= AckRoom
       /\ LET r == DeliverReceived(Input(kcp[e], d.segs)) IN
          /\ kcp' = [kcp EXCEPT ![e] = r.kcp]
          /\ heard' = [heard EXCEPT ![e] = @ \o
                          [i \in DOMAIN r.msgs |->
                             [j \in DOMAIN r.msgs[i] |-> r.msgs[i][j].data]]]
       /\ UNCHANGED <<datagrams, said, taken>>

(* update_all_kcp(): one flush, with the timers that have passed.          *)
Update(e) ==
    \E late \in SUBSET {kcp[e].snd_buf[i].sn : i \in DOMAIN kcp[e].snd_buf},
       due \in BOOLEAN :
       LET f == Flushed(kcp[e], late, due)
           sent == datagrams \cup {[to |-> Other(e), segs |-> f.out]} IN
       /\ kcp' = [kcp EXCEPT ![e] = f.next]
       /\ datagrams' = IF f.out = <<>> \/ Cardinality(sent) > ArqWireRoom
                       THEN datagrams ELSE sent
       /\ UNCHANGED <<said, taken, heard>>

LoseDatagram == /\ \E d \in datagrams : datagrams' = datagrams \ {d}
                /\ UNCHANGED <<kcp, said, taken, heard>>

ArqNext == (\E e \in Ends : DrainSendQ(e) \/ OnDatagram(e) \/ Update(e)) \/ LoseDatagram
ArqSpec == ArqInit /\ [][ArqNext]_arqvars

-----------------------------------------------------------------------------
(* The session is given the messages of its peer, whole and in order, each *)
(* once, whatever the wire does (parse_data, move_rcv_buf_to_queue, recv). *)
Whole(m) == [i \in 1..m.frags |-> <<m.id, i>>]
HeardInOrder ==
    \A e \in Ends :
       LET from == taken[Other(e)] IN
       /\ Len(heard[e]) <= Len(from)
       /\ \A i \in DOMAIN heard[e] : heard[e][i] = Whole(from[i])

(* A segment that its sender has forgotten is at the receiver: it was      *)
(* delivered on, or waits in one of its buffers (parse_una, parse_ack).    *)
NothingForgotten ==
    \A e \in Ends :
       LET here == kcp[e]  there == kcp[Other(e)] IN
       \A sn \in 0 .. here.snd_nxt - 1 :
          \/ \E i \in DOMAIN here.snd_buf : here.snd_buf[i].sn = sn
          \/ sn < there.rcv_nxt
          \/ \E i \in DOMAIN there.rcv_buf : there.rcv_buf[i].sn = sn

(* A message that is whole does not wait for the next datagram, and the    *)
(* receive window never closes, as long as no message has more fragments   *)
(* than the window (send() allows 255, the window is 128: beyond it the    *)
(* queue fills with part of a message that can never be completed).        *)
ReceiverOpen ==
    \A e \in Ends : ~MessageReady(kcp[e]) /\ Wnd(kcp[e]) > 0

(* An end that would send nothing even if every timer passed, over an      *)
(* empty wire, has nothing left to send: no segment waits for an event     *)
(* that is not to come (flush: the dead_link state stops nothing).         *)
AllLate(k) == Flushed(k, {k.snd_buf[i].sn : i \in DOMAIN k.snd_buf}, TRUE)
SilentIsDone ==
    (datagrams = {} /\ \A e \in Ends : AllLate(kcp[e]).out = <<>>) =>
       \A e \in Ends : /\ kcp[e].snd_queue = <<>> /\ kcp[e].snd_buf = <<>>
                       /\ Len(heard[e]) = Len(taken[Other(e)])
=============================================================================
