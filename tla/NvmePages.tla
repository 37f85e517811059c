------------------------------ MODULE NvmePages ------------------------------
(***************************************************************************)
(* The NVMe scheduler (src/env/scheduler/nvme/scheduler.hh): pages are     *)
(* written, read, trimmed and flushed through one queue pair.  Requests    *)
(* from other cores pass through per-core queues into bounded local rings  *)
(* and are submitted while the pair is not busy.  A read of a page that is *)
(* already being read rides on that read: merge_table, an open-addressing  *)
(* table with a probe limit and a bound on the riders of a slot.  The      *)
(* device executes what is in flight in any order, may refuse a submission *)
(* and may complete with an error.                                         *)
(***************************************************************************)
EXTENDS Integers, Sequences, FiniteSets, SequencesExt, FiniteSetsExt

CONSTANTS Request,      \* request -> [op, pos]; op: get, put, trim or flush
          Index,        \* page position -> the slot its probing starts at
          TableSize, ProbeLimit, MaxWaiters,
          QueueDepth,   \* places of a per-core request queue
          LocalDepth,   \* places of a local ring
          Depth         \* qpair::depth

ASSUME NvmeAssumption ==
    /\ \A r \in DOMAIN Request : /\ Request[r].op \in {"put", "get", "flush", "trim"}
                                 /\ Request[r].pos \in DOMAIN Index
    /\ \A p \in DOMAIN Index : Index[p] \in Nat
    /\ TableSize \in Nat \ {0} /\ ProbeLimit \in Nat /\ Depth \in Nat

VARIABLES req_queue,    \* op -> the requests that other cores have queued
          local_q,      \* op -> the local ring
          slots,        \* merge_table::slots_
          flying,       \* submitted commands, and what they have read
          used,         \* qpair::used
          content,      \* page position -> what the device holds
          held,         \* read in flight -> what its page held since submitted
          outcome,      \* request -> what its callback was given
          begun, unqueued  \* requests made; those a full queue dropped

nvmevars == <<req_queue, local_q, slots, flying, used, content, held, outcome,
              begun, unqueued>>

Requests == DOMAIN Request
Ops == {"put", "get", "flush", "trim"}
Positions == DOMAIN Index
SlotIds == 0 .. TableSize - 1
Blank == "blank"        \* a page never written, or trimmed
Page(p, by) == [page |-> p, by |-> by]      \* what a write or a trim leaves
NoPage == Page(0, Blank)
Error == Page(0, "status 1")
Empty == [state |-> "EMPTY", pos |-> 0, waiters |-> <<>>]

NvmeInit ==
    /\ req_queue = [o \in Ops |-> <<>>] /\ local_q = [o \in Ops |-> <<>>]
    /\ slots = [i \in SlotIds |-> Empty]
    /\ flying = {} /\ used = 0
    /\ content = [p \in Positions |-> Page(p, Blank)]
    /\ held = [r \in Requests |-> {}]
    /\ outcome = [r \in Requests |-> <<>>]
    /\ begun = {} /\ unqueued = {}

-----------------------------------------------------------------------------
(* merge_table.  Probe(p, i): the slot that the i-th probe looks at.       *)
Probe(p, i) == (Index[p] + i) % TableSize
Probes == 0 .. ProbeLimit - 1
None == -1

(* MUTANT find() that takes a deleted slot for the end of the chain.       *)
FindNoDeleted(p) ==
    LET hits == {i \in Probes : /\ slots[Probe(p, i)].state = "OCCUPIED"
                                /\ slots[Probe(p, i)].pos = p
                                /\ \A j \in 0 .. i - 1 :
                                      slots[Probe(p, j)].state = "OCCUPIED"} IN
    IF hits = {} THEN None ELSE Probe(p, Min(hits))

(* MUTANT find() that does not compare the position.                       *)
FindAnyPage(p) ==
    LET hits == {i \in Probes : slots[Probe(p, i)].state = "OCCUPIED"} IN
    IF hits = {} THEN None ELSE Probe(p, Min(hits))

(* find(): an empty slot ends the chain, a deleted one does not.           *)
Find(p) ==
    LET hits == {i \in Probes : /\ slots[Probe(p, i)].state = "OCCUPIED"
                                /\ slots[Probe(p, i)].pos = p
                                /\ \A j \in 0 .. i - 1 :
                                      slots[Probe(p, j)].state # "EMPTY"} IN
    IF hits = {} THEN None ELSE Probe(p, Min(hits))

(* insert(): the first slot not occupied; none within the limit, no entry. *)
Inserted(p) ==
    LET free == {i \in Probes : slots[Probe(p, i)].state # "OCCUPIED"} IN
    IF free = {} THEN slots
    ELSE [slots EXCEPT ![Probe(p, Min(free))] =
             [state |-> "OCCUPIED", pos |-> p, waiters |-> <<>>]]

(* MUTANT erase() that leaves the slot to later reads.                     *)
ErasedNot(s) == [slots EXCEPT ![s].waiters = <<>>]

Rideable(s) == s # None /\ Len(slots[s].waiters) < MaxWaiters

Erased(s) == [slots EXCEPT ![s].state = "DELETED"]

-----------------------------------------------------------------------------
(* start() of a sender: schedule() returns false on a full queue, and      *)
(* nobody looks.                                                           *)
Ask(r) ==
    LET o == Request[r].op IN
    /\ r \notin begun
    /\ begun' = begun \cup {r}
    /\ \/ /\ Len(req_queue[o]) < QueueDepth
          /\ req_queue' = [req_queue EXCEPT ![o] = Append(@, r)]
          /\ UNCHANGED unqueued
       \/ /\ Len(req_queue[o]) = QueueDepth
          /\ unqueued' = unqueued \cup {r}
          /\ UNCHANGED req_queue
    /\ UNCHANGED <<local_q, slots, flying, used, content, held, outcome>>

(* advance(): a request moves to the local ring while the ring has room.   *)
Refill(o) ==
    /\ req_queue[o] # <<>> /\ Len(local_q[o]) < LocalDepth
    /\ local_q' = [local_q EXCEPT ![o] = Append(@, Head(req_queue[o]))]
    /\ req_queue' = [req_queue EXCEPT ![o] = Tail(@)]
    /\ UNCHANGED <<slots, flying, used, content, held, outcome, begun,
                   unqueued>>

(* busy(): one more than depth is let in.                                  *)
Busy == used > Depth

(* spdk_put(), spdk_get(), spdk_flush(), spdk_trim(): the command is in    *)
(* flight, or the driver refuses it and it is answered on the spot.        *)
InFlight(r) ==
    /\ flying' = flying \cup {[req |-> r, done |-> FALSE, got |-> NoPage]}
    /\ used' = used + 1
    /\ held' = [held EXCEPT ![r] = IF Request[r].op = "get"
                                   THEN {content[Request[r].pos]} ELSE {}]
    /\ UNCHANGED outcome

(* MUTANT: the refused command still counts as used.                       *)
RefusedLeaks(r) ==
    /\ outcome' = [outcome EXCEPT ![r] = Append(@, Error)]
    /\ used' = used + 1
    /\ UNCHANGED <<flying, held>>

Refused(r) ==
    /\ outcome' = [outcome EXCEPT ![r] = Append(@, Error)]
    /\ UNCHANGED <<flying, held, used>>

(* handle_put_queue(), handle_flush_queue(), handle_trim_queue().          *)
HandleQueue(o) ==
    /\ local_q[o] # <<>> /\ ~Busy
    /\ local_q' = [local_q EXCEPT ![o] = Tail(@)]
    /\ InFlight(Head(local_q[o])) \/ Refused(Head(local_q[o]))
    /\ UNCHANGED <<req_queue, slots, content, begun, unqueued>>

(* handle_get_queue(): ride on a read of the same page, unless its slot is *)
(* full; else enter the table, if it has room, and read.                   *)
HandleGetQueue ==
    /\ local_q["get"] # <<>> /\ ~Busy
    /\ local_q' = [local_q EXCEPT !["get"] = Tail(@)]
    /\ LET r == Head(local_q["get"])
           s == Find(Request[r].pos) IN
       \/ /\ Rideable(s)
          /\ slots' = [slots EXCEPT ![s].waiters = Append(@, r)]
          /\ UNCHANGED <<flying, used, held, outcome>>
       \/ /\ ~Rideable(s)
          /\ slots' = Inserted(Request[r].pos)
          /\ InFlight(r)
       \/ /\ s = None       \* refused: the entry goes with its read
          /\ Refused(r)
          /\ UNCHANGED slots
       \/ /\ s # None /\ ~Rideable(s)
          /\ outcome' = [x \in Requests |->
                IF x = r \/ x \in Range(slots[s].waiters)
                THEN Append(outcome[x], Error) ELSE outcome[x]]
          /\ slots' = [Inserted(Request[r].pos) EXCEPT ![s].state = "DELETED"]
          /\ UNCHANGED <<flying, held, used>>
    /\ UNCHANGED <<req_queue, content, begun, unqueued>>

-----------------------------------------------------------------------------
(* The device executes a command some time while it is in flight.          *)
Execute ==
    \E c \in flying :
       LET q == Request[c.req] IN
       /\ ~c.done
       /\ flying' = (flying \ {c}) \cup
             {[c EXCEPT !.done = TRUE,
                        !.got = IF q.op = "get" THEN content[q.pos]
                                 ELSE NoPage]}
       /\ content' = CASE q.op = "put"  -> [content EXCEPT ![q.pos] = Page(@.page, c.req)]
                       [] q.op = "trim" -> [content EXCEPT ![q.pos] = Page(@.page, Blank)]
                       [] OTHER -> content
       /\ held' = [r \in Requests |->
             IF /\ Request[r].op = "get" /\ q.op \in {"put", "trim"}
                /\ Request[r].pos = q.pos
                /\ \E d \in flying : d.req = r
             THEN held[r] \cup {content'[q.pos]} ELSE held[r]]
       /\ UNCHANGED <<req_queue, local_q, slots, used, outcome, begun,
                      unqueued>>

(* on_get_data_done(): the riders of the slot found for the page get a     *)
(* copy of what this read has read, and the slot is erased.                *)
GetDone(c, ok) ==
    LET s == Find(Request[c.req].pos)
        riders == IF s = None THEN {} ELSE Range(slots[s].waiters)
        result == IF ok THEN c.got ELSE Error IN
    /\ outcome' = [r \in Requests |-> IF r = c.req \/ r \in riders
                                      THEN Append(outcome[r], result)
                                      ELSE outcome[r]]
    /\ slots' = IF s = None THEN slots ELSE Erased(s)
    /\ held' = [r \in Requests |-> IF r \in riders THEN held[c.req]
                                   ELSE held[r]]

(* spdk_poll(): a completion; it frees its place of the queue pair.        *)
Poll ==
    \E c \in flying, ok \in BOOLEAN :
       /\ c.done \/ ~ok
       /\ used # 0
       /\ flying' = flying \ {c}
       /\ used' = used - 1
       /\ \/ /\ Request[c.req].op = "get"
             /\ GetDone(c, ok)
          \/ /\ Request[c.req].op # "get"
             /\ outcome' = [outcome EXCEPT ![c.req] =
                               Append(@, IF ok THEN NoPage ELSE Error)]
             /\ UNCHANGED <<slots, held>>
       /\ UNCHANGED <<req_queue, local_q, content, begun, unqueued>>

NvmeAdvance == \/ \E o \in Ops : Refill(o)
               \/ \E o \in Ops \ {"get"} : HandleQueue(o)
               \/ HandleGetQueue
               \/ Execute \/ Poll

NvmeNext == (\E r \in Requests : Ask(r)) \/ NvmeAdvance
NvmeSpec == NvmeInit /\ [][NvmeNext]_nvmevars

-----------------------------------------------------------------------------
(* A slot of the table stands for a read that is in flight: for every page *)
(* at least as many reads are out as slots wait for one, though a full     *)
(* slot lets a second one for the page in, whose completion answers the    *)
(* riders of the first (insert, find, on_get_data_done).                   *)
Slots(p) == {s \in SlotIds : slots[s].state = "OCCUPIED" /\ slots[s].pos = p}
Reads(p) == {c \in flying : Request[c.req].op = "get" /\ Request[c.req].pos = p}
SlotsHaveReads == \A p \in Positions : Cardinality(Slots(p)) <= Cardinality(Reads(p))

(* What a read returns, its own or the one it rode on, is something that   *)
(* its page has held since that read was submitted, and never another      *)
(* page.  It may be older than the request itself: a rider that asks after *)
(* a write has completed can be given what was there before it.            *)
ReadsTrue ==
    \A r \in Requests :
       (Request[r].op = "get" /\ outcome[r] # <<>>) =>
          \/ outcome[r] = <<Error>>
          \/ /\ outcome[r][1] \in held[r]
             /\ outcome[r][1].page = Request[r].pos

PagesTrue == ReadsTrue /\ SlotsHaveReads

(* Every request that a queue took is answered once, and no place of the   *)
(* queue pair is lost: when the scheduler and the device have nothing left *)
(* to do, the queues and the queue pair are empty, and nobody waits.       *)
NvmeQuiet == flying = {} /\ \A o \in Ops : req_queue[o] = <<>> /\ local_q[o] = <<>>
AnsweredOnce ==
    /\ \A r \in Requests : Len(outcome[r]) <= 1
    /\ used = Cardinality(flying) /\ used <= Depth + 1
    /\ NvmeQuiet => \A r \in begun \ unqueued : outcome[r] # <<>>
NvmeAtRest == ~ENABLED NvmeAdvance
NvmeAnswered == AnsweredOnce /\ (NvmeAtRest => NvmeQuiet)

-----------------------------------------------------------------------------
(* Why PagesTrue holds.                                                    *)
Pages == [page : Positions \cup {0}, by : Requests \cup {Blank, "status 1"}]
States == {"EMPTY", "OCCUPIED", "DELETED"}

NvmeTypeOK ==
    /\ req_queue \in [Ops -> Seq(Requests)] /\ local_q \in [Ops -> Seq(Requests)]
    /\ slots \in [SlotIds -> [state : States, pos : Positions \cup {0}, waiters : Seq(Requests)]]
    /\ flying \subseteq [req : Requests, done : BOOLEAN, got : Pages] /\ IsFiniteSet(flying)
    /\ content \in [Positions -> Pages] /\ held \in [Requests -> SUBSET Pages]
    /\ outcome \in [Requests -> Seq(Pages)]

\* A request is in one place until its callback has run.
Unanswered(r) == r \in begun /\ outcome[r] = <<>>
Rides(r, s) == slots[s].state = "OCCUPIED" /\ r \in Range(slots[s].waiters)
Out(r) == (\E c \in flying : c.req = r) \/ (\E s \in SlotIds : Rides(r, s))
Queued(o) == Range(req_queue[o]) \cup Range(local_q[o])
QueueInv ==
    \A o \in Ops :
       /\ IsInjective(req_queue[o]) /\ IsInjective(local_q[o])
       /\ Range(req_queue[o]) \cap Range(local_q[o]) = {}
       /\ \A r \in Queued(o) : Request[r].op = o /\ Unanswered(r) /\ ~Out(r)

FlyInv ==
    \A c \in flying :
       /\ Unanswered(c.req) /\ \A s \in SlotIds : ~Rides(c.req, s)
       /\ \A d \in flying : d.req = c.req => d = c

RideInv ==
    \A r \in Requests : \A s \in SlotIds :
       Rides(r, s) => /\ Request[r].op = "get" /\ Request[r].pos = slots[s].pos
                      /\ Unanswered(r) /\ \A t \in SlotIds : Rides(r, t) => t = s

\* The page a read will return, or the one it has read, is one it may return.
ReadInv ==
    \A c \in flying :
       Request[c.req].op = "get" =>
          LET p == Request[c.req].pos IN
          IF c.done THEN c.got \in held[c.req] /\ c.got.page = p
                    ELSE content[p] \in held[c.req]

\* No probing for the page of a slot ends before that slot.
ChainInv ==
    \A s \in SlotIds :
       slots[s].state = "OCCUPIED" =>
          /\ slots[s].pos \in Positions
          /\ \E i \in Probes : /\ s = Probe(slots[s].pos, i)
                               /\ \A j \in 0 .. i - 1 : slots[Probe(slots[s].pos, j)].state # "EMPTY"

\* Requests that wait in no queue.
OutInv ==
    /\ FlyInv /\ RideInv /\ ReadInv /\ ReadsTrue
    /\ \A p \in Positions : content[p].page = p
    /\ \A r \in Requests : outcome[r] # <<>> => r \in begun

NvmeInv == NvmeTypeOK /\ QueueInv /\ OutInv /\ ChainInv /\ SlotsHaveReads
=============================================================================
