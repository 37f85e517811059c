------------------------------- MODULE TcpFraming -------------------------------
(***************************************************************************)
(* The receiving side of a tcp session: packet_buffer, a ring that readv   *)
(* fills in whatever pieces the stream comes in, and the unpackers that    *)
(* take frames out of it.  A byte is its position in the stream, so the    *)
(* ring can be seen to hold, and the unpacker to copy, the right bytes.    *)
(***************************************************************************)
EXTENDS Integers, Sequences, FiniteSets, SequencesExt

CONSTANTS
  Size,       \* recv_buffer_size, a power of two
  Streams     \* what a peer may send: sequences of payload lengths

\* Any ring, and any sequences of lengths.
ASSUME FramingAssumption == Size \in Nat \ {0} /\ Streams \subseteq Seq(Nat)

HeaderSize == 4   \* sizeof(uint32_t)

VARIABLES
  unpacker,      \* "length_prefix" or "stream"
  lens,          \* the payloads the peer sends
  ring,          \* packet_buffer::_data: the byte in each cell, 0 for none yet
  head, tail,    \* packet_buffer::_head, _tail: they only grow
  frames,        \* frames handed to on_frame, each a sequence of bytes
  given_up       \* the scheduler took the stream for closed

framingVars == <<unpacker, lens, ring, head, tail, frames, given_up>>

-----------------------------------------------------------------------------
(* The stream.  prepare_send puts the length before every payload. *)

Lead == IF unpacker = "length_prefix" THEN HeaderSize ELSE 0

\* The first byte of the k-th frame; behind the last one, the next to come.
StartOf(k) ==
  LET start[i \in 1 .. Len(lens) + 1] ==
        IF i = 1 THEN 1 ELSE start[i - 1] + Lead + lens[i - 1]
  IN start[k]

Total        == StartOf(Len(lens) + 1) - 1
PayloadOf(k) == [i \in 1 .. lens[k] |-> StartOf(k) + Lead + i - 1]

-----------------------------------------------------------------------------
(* packet_buffer.  b = [ring, head, tail]. *)

Cell(i)      == (i % Size) + 1
UsedBytes(b) == b.tail - b.head
Available(b) == Size - UsedBytes(b)

\* make_iovec, readv and forward_tail: n bytes of the stream, in two pieces
\* where the ring ends.
Fill(b, n) ==
  LET filled == {b.tail + i : i \in 0 .. n - 1}
  IN [b EXCEPT !.ring = [c \in DOMAIN @ |->
                  IF \E i \in filled : Cell(i) = c
                  THEN 1 + CHOOSE i \in filled : Cell(i) = c ELSE @[c]],
               !.tail = @ + n]

\* Mutant: the bytes past the end of the ring are not taken from its start.
HandleDataUnwrapped(b, n) ==
  [i \in 1 .. n |-> LET c == (b.head % Size) + i IN IF c <= Size THEN b.ring[c] ELSE 0]

\* handle_data: the next n bytes, in one piece or two.
HandleData(b, n) == [i \in 1 .. n |-> b.ring[Cell(b.head + i - 1)]]

Forward(b, n) == [b EXCEPT !.head = @ + n]

\* read_pkt_len: header bytes that do not stand together are no length.
PacketLen(bytes) ==
  IF \E k \in DOMAIN lens : bytes = [i \in 1 .. HeaderSize |-> StartOf(k) + i - 1]
  THEN HeaderSize + lens[CHOOSE k \in DOMAIN lens : StartOf(k) = bytes[1]]
  ELSE HeaderSize

\* Mutant: a frame is copied before all of it is there.
CopyOutEarly(b) ==
  LET n == PacketLen(HandleData(b, HeaderSize))
      t == Forward(b, HeaderSize)
      m == IF UsedBytes(t) < n - HeaderSize THEN UsedBytes(t) ELSE n - HeaderSize
  IN IF UsedBytes(b) < HeaderSize THEN [b |-> b, frame |-> <<>>]
     ELSE [b |-> Forward(t, m), frame |-> HandleData(t, m)]

\* copy_out_frame: [b, frame]; an empty frame says that there is none.
CopyOutFrame(b) ==
  LET n == PacketLen(HandleData(b, HeaderSize))
      t == Forward(b, HeaderSize)
  IN IF UsedBytes(b) < HeaderSize \/ UsedBytes(b) < n THEN [b |-> b, frame |-> <<>>]
     ELSE [b |-> Forward(t, n - HeaderSize), frame |-> HandleData(t, n - HeaderSize)]

\* stream_unpacker: everything there is.
TakeAll(b) == [b |-> Forward(b, UsedBytes(b)), frame |-> HandleData(b, UsedBytes(b))]

Unpack(b) == IF unpacker = "stream" THEN TakeAll(b) ELSE CopyOutFrame(b)

\* Mutant: one frame for every read.
UnpackOnce(b) == LET u == Unpack(b) IN [b |-> u.b, out |-> IF u.frame = <<>> THEN <<>> ELSE <<u.frame>>]

\* on_recv: unpack until an empty frame comes out; at most one a byte.
UnpackNext(x) ==
  LET u == Unpack(x.b) IN
  IF ~x.more THEN x
  ELSE [b |-> u.b, more |-> u.frame # <<>>,
        out |-> IF u.frame # <<>> THEN Append(x.out, u.frame) ELSE x.out]

UnpackAll(b) ==
  LET loop[n \in 0 .. Size] ==
        IF n = 0 THEN [b |-> b, out |-> <<>>, more |-> TRUE] ELSE UnpackNext(loop[n - 1])
  IN loop[Size]

-----------------------------------------------------------------------------
\* readv of what there is room for, and on_recv.
Read ==
  LET b == [ring |-> ring, head |-> head, tail |-> tail] IN
  /\ ~given_up /\ tail < Total
  /\ \E n \in 1 .. Available(b) :
       /\ tail + n <= Total
       /\ LET r == UnpackAll(Fill(b, n)) IN
            /\ ring' = r.b.ring /\ head' = r.b.head /\ tail' = r.b.tail
            /\ frames' = frames \o r.out
  /\ UNCHANGED <<unpacker, lens, given_up>>

\* A full ring: readv has no room to read into, returns 0, and is taken for
\* the end of the stream.
ReadNothing ==
  /\ ~given_up /\ tail < Total
  /\ Available([ring |-> ring, head |-> head, tail |-> tail]) = 0
  /\ given_up' = TRUE
  /\ UNCHANGED <<unpacker, lens, ring, head, tail, frames>>

FramingInit ==
  /\ unpacker \in {"length_prefix", "stream"}
  /\ lens \in Streams
  /\ ring = [c \in 1 .. Size |-> 0]
  /\ head = 0 /\ tail = 0 /\ frames = <<>> /\ given_up = FALSE

FramingNext == Read \/ ReadNothing

FramingSpec == FramingInit /\ [][FramingNext]_framingVars

-----------------------------------------------------------------------------
(* Properties. *)

\* Which of the payloads that are not empty the k-th one is.
Nth(k) == Cardinality({j \in 1 .. k : lens[j] > 0})

(* However the stream is cut into reads, the frames handed on are the      *)
(* payloads that were sent, whole, in order and without the empty ones;    *)
(* with no framing, their bytes are the stream's.                          *)
FramesExact ==
  IF unpacker = "stream"
  THEN FlattenSeq(frames) = [i \in 1 .. tail |-> i]
  ELSE \A i \in DOMAIN frames :
         \E k \in DOMAIN lens : lens[k] > 0 /\ Nth(k) = i /\ frames[i] = PayloadOf(k)

(* A frame that is all there has been handed on, unless an empty one in    *)
(* front of it stopped the loop; and the stream is given up only for a     *)
(* frame that is larger than the ring.                                     *)
NoneHeldBack ==
  /\ unpacker = "length_prefix" =>
       \A k \in DOMAIN lens :
         (StartOf(k + 1) - 1 <= tail /\ head + 1 = StartOf(k))
           => k > 1 /\ lens[k - 1] = 0
  /\ given_up => \E k \in DOMAIN lens : Lead + lens[k] > Size

=============================================================================
