---------------------------- MODULE MpmcQueueProofs ----------------------------
(***************************************************************************)
(* Proofs about MpmcQueue: for every capacity above one, word width,       *)
(* number of producers and consumers and either kind of queue, no two      *)
(* calls are in one cell, a call fails only when it should, and the cells  *)
(* implement SlotQueue.                                                    *)
(*                                                                         *)
(* Everything is measured from tail_: the Capacity positions behind it are *)
(* the window, each cell belongs to one of them, and the cell's sequence   *)
(* number says how far that position has come.                             *)
(***************************************************************************)
EXTENDS MpmcQueue, FiniteSetTheorems, SequenceTheorems, TLAPS

\* With one cell, the numbers of a full and of a free cell are the same.
Several == Capacity > 1

-----------------------------------------------------------------------------
(* Positions: words that wrap at Width, and cells that wrap at Capacity.   *)

\* Width is a whole number of rounds.
LEMMA SizeFacts ==
  /\ Capacity \in Nat \ {0} /\ Width \in Nat \ {0} /\ MaxLag \in Nat
  /\ Width >= 2 * MaxLag + 2 * Capacity
  /\ \E n \in Nat : Width = n * Capacity
<1>1. Width % (2 * Capacity) = 0 /\ Capacity \in Nat \ {0} /\ Width \in Nat \ {0}
      /\ MaxLag \in Nat /\ Width >= 2 * MaxLag + 2 * Capacity
  BY QueueAssumption
<1> DEFINE h == Width \div (2 * Capacity)
<1>2. h \in Nat /\ Width = h * (2 * Capacity)
  BY <1>1
<1> HIDE DEF h
<1>3. 2 * h \in Nat /\ Width = (2 * h) * Capacity
  BY <1>1, <1>2
<1> QED BY <1>1, <1>3

\* The distance from b up to a.
LEMMA MinusFacts ==
  ASSUME NEW a \in Words, NEW b \in Words
  PROVE  /\ Minus(a, b) = IF a >= b THEN a - b ELSE a - b + Width
         /\ Minus(a, b) \in Words
<1>1. Minus(a, b) = IF a >= b THEN a - b ELSE a - b + Width
  BY SizeFacts DEF Minus, Words
<1> QED BY <1>1, SizeFacts DEF Words

\* Up to one round further, modulo Width.
LEMMA PlusFacts ==
  ASSUME NEW a \in Words, NEW n \in 0 .. Capacity
  PROVE  /\ Plus(a, n) = IF a + n < Width THEN a + n ELSE a + n - Width
         /\ Plus(a, n) \in Words
<1>0. n \in 0 .. Width - 1
  BY SizeFacts
<1>1. Plus(a, n) = IF a + n < Width THEN a + n ELSE a + n - Width
  BY <1>0, SizeFacts DEF Plus, Words
<1> QED BY <1>0, <1>1, SizeFacts DEF Words

\* A position is one further behind when the word it is measured from moves on.
LEMMA OneFurther ==
  ASSUME NEW a \in Words, NEW w \in Words
  PROVE  /\ Minus(Plus(a, 1), w) = IF Minus(a, w) = Width - 1 THEN 0 ELSE Minus(a, w) + 1
         /\ Minus(a, w) = 0 <=> w = a
         /\ Minus(a, w) # 0 => Minus(a, Plus(w, 1)) = Minus(a, w) - 1
<1>1. 1 \in 0 .. Capacity
  BY SizeFacts
<1>2. Plus(a, 1) = (IF a + 1 < Width THEN a + 1 ELSE a + 1 - Width) /\ Plus(a, 1) \in Words
  BY <1>1, PlusFacts
<1>3. Plus(w, 1) = (IF w + 1 < Width THEN w + 1 ELSE w + 1 - Width) /\ Plus(w, 1) \in Words
  BY <1>1, PlusFacts
<1>4. Minus(Plus(a, 1), w) = IF Plus(a, 1) >= w THEN Plus(a, 1) - w ELSE Plus(a, 1) - w + Width
  BY <1>2, MinusFacts
<1>5. Minus(a, Plus(w, 1)) = IF a >= Plus(w, 1) THEN a - Plus(w, 1) ELSE a - Plus(w, 1) + Width
  BY <1>3, MinusFacts
<1>6. Minus(a, w) = IF a >= w THEN a - w ELSE a - w + Width
  BY MinusFacts
<1> HIDE DEF Minus, Plus
<1> QED BY <1>2, <1>3, <1>4, <1>5, <1>6, SizeFacts DEF Words

\* A word as a number of rounds and a cell.
LEMMA CellFacts ==
  ASSUME NEW w \in Nat
  PROVE  CellOf(w) \in Cells /\ \E q \in Nat : w = q * Capacity + CellOf(w)
<1>1. CellOf(w) \in Cells
  BY SizeFacts DEF CellOf, Cells
<1>2. w = (w \div Capacity) * Capacity + CellOf(w) /\ w \div Capacity \in Nat
  BY SizeFacts DEF CellOf
<1> QED BY <1>1, <1>2

\* A word has one cell.
LEMMA CellIs ==
  ASSUME NEW w \in Nat, NEW q \in Int, NEW r \in Cells, w = q * Capacity + r
  PROVE  CellOf(w) = r
  BY SizeFacts DEF CellOf, Cells

\* Only a multiple of Capacity lies in the same cell.
LEMMA OneRound ==
  ASSUME NEW q \in Int, q * Capacity > 0 - Capacity, q * Capacity < Capacity
  PROVE  q = 0
<1> USE SizeFacts
<1>1. q >= 1 => q * Capacity >= Capacity
  OBVIOUS
<1>2. q <= -1 => q * Capacity <= 0 - Capacity
  OBVIOUS
<1> QED BY <1>1, <1>2

\* Two positions of one window of Capacity words are in different cells.
LEMMA SameCell ==
  ASSUME NEW t \in Words, NEW a \in Words, NEW b \in Words,
         Minus(t, a) \in 1 .. Capacity, Minus(t, b) \in 1 .. Capacity,
         CellOf(a) = CellOf(b)
  PROVE  a = b
<1>1. PICK i \in Nat : a = i * Capacity + CellOf(a)
  BY CellFacts DEF Words
<1>2. PICK j \in Nat : b = j * Capacity + CellOf(b)
  BY CellFacts DEF Words
<1>3. PICK n \in Nat : Width = n * Capacity
  BY SizeFacts
<1>4. CellOf(a) \in Nat /\ CellOf(b) \in Nat
  BY CellFacts, SizeFacts DEF Words, Cells
<1>5. /\ Minus(t, a) = IF t >= a THEN t - a ELSE t - a + Width
      /\ Minus(t, b) = IF t >= b THEN t - b ELSE t - b + Width
  BY MinusFacts
<1>6. \/ a - b > 0 - Capacity /\ a - b < Capacity
      \/ a - b + Width > 0 - Capacity /\ a - b + Width < Capacity
      \/ a - b - Width > 0 - Capacity /\ a - b - Width < Capacity
  BY <1>5, SizeFacts DEF Words
<1>7. /\ a - b = (i - j) * Capacity
      /\ a - b + Width = (i - j + n) * Capacity
      /\ a - b - Width = (i - j - n) * Capacity
  BY <1>1, <1>2, <1>3, <1>4, SizeFacts
<1>8. i - j \in Int /\ i - j + n \in Int /\ i - j - n \in Int
  OBVIOUS
<1>9. a - b > 0 - Capacity /\ a - b < Capacity => a - b = 0
  BY <1>7, <1>8, OneRound, SizeFacts
<1>10. a - b + Width > 0 - Capacity /\ a - b + Width < Capacity => a - b + Width = 0
  BY <1>7, <1>8, OneRound, SizeFacts
<1>11. a - b - Width > 0 - Capacity /\ a - b - Width < Capacity => a - b - Width = 0
  BY <1>7, <1>8, OneRound, SizeFacts
<1> QED BY <1>6, <1>9, <1>10, <1>11, SizeFacts DEF Words

\* One round later, the same cell.
LEMMA CellPlus ==
  ASSUME NEW a \in Words
  PROVE  CellOf(Plus(a, Capacity)) = CellOf(a)
<1>1. PICK i \in Nat : a = i * Capacity + CellOf(a)
  BY CellFacts DEF Words
<1>2. PICK n \in Nat : Width = n * Capacity
  BY SizeFacts
<1>3. CellOf(a) \in Cells
  BY CellFacts DEF Words
<1>4. Capacity \in 0 .. Capacity
  BY SizeFacts
<1>5. Plus(a, Capacity) \in Nat
      /\ (Plus(a, Capacity) = a + Capacity \/ Plus(a, Capacity) = a + Capacity - Width)
  BY <1>4, PlusFacts, SizeFacts DEF Words
<1>6. CellOf(a) \in Nat
  BY <1>3, SizeFacts DEF Cells
<1>7. \/ Plus(a, Capacity) = (i + 1) * Capacity + CellOf(a)
      \/ Plus(a, Capacity) = (i + 1 - n) * Capacity + CellOf(a)
  BY <1>1, <1>2, <1>5, <1>6, SizeFacts
<1> HIDE DEF Plus
<1> QED BY <1>3, <1>5, <1>7, CellIs

\* A position is known by its distance from a word.
LEMMA SameDistance ==
  ASSUME NEW t \in Words, NEW a \in Words, NEW b \in Words, Minus(t, a) = Minus(t, b)
  PROVE  a = b
<1>1. /\ Minus(t, a) = IF t >= a THEN t - a ELSE t - a + Width
      /\ Minus(t, b) = IF t >= b THEN t - b ELSE t - b + Width
  BY MinusFacts
<1>2. (IF t >= a THEN t - a ELSE t - a + Width) = (IF t >= b THEN t - b ELSE t - b + Width)
  BY <1>1
<1>3. a \in Int /\ b \in Int /\ t \in Int /\ Width \in Int
      /\ a >= 0 /\ a < Width /\ b >= 0 /\ b < Width /\ t >= 0 /\ t < Width
  BY SizeFacts DEF Words
<1> QED BY <1>2, <1>3

\* The position that the word t had one round ago.
LEMMA RoundAgo ==
  ASSUME NEW t \in Words
  PROVE  \E u \in Words : /\ Minus(t, u) = Capacity /\ Plus(u, Capacity) = t
                          /\ CellOf(u) = CellOf(t)
<1> DEFINE u == IF t >= Capacity THEN t - Capacity ELSE t - Capacity + Width
<1>1. u \in Words
  BY SizeFacts DEF Words
<1>2. Capacity \in 0 .. Capacity
  BY SizeFacts
<1>3. Plus(u, Capacity) = IF u + Capacity < Width THEN u + Capacity ELSE u + Capacity - Width
  BY <1>1, <1>2, PlusFacts
<1>4. Minus(t, u) = IF t >= u THEN t - u ELSE t - u + Width
  BY <1>1, MinusFacts
<1>5. Plus(u, Capacity) = t
  BY <1>3, SizeFacts DEF Words
<1>6. Minus(t, u) = Capacity
  BY <1>4, SizeFacts DEF Words
<1>7. CellOf(u) = CellOf(t)
  BY <1>1, <1>5, CellPlus
<1> QED BY <1>1, <1>5, <1>6, <1>7

\* The three numbers a cell can hold for a position are different.
LEMMA Numbers ==
  ASSUME Several, NEW w \in Words
  PROVE  /\ Plus(w, 1) # w /\ Plus(w, Capacity) # w /\ Plus(w, 1) # Plus(w, Capacity)
         /\ Plus(w, 1) \in Words /\ Plus(w, Capacity) \in Words
         /\ Minus(Plus(w, 1), w) = 1
         /\ Plus(w, 1) # Plus(Plus(w, Capacity), 1)
<1>1. 1 \in 0 .. Capacity /\ Capacity \in 0 .. Capacity
  BY SizeFacts
<1>2. /\ Plus(w, 1) = IF w + 1 < Width THEN w + 1 ELSE w + 1 - Width
      /\ Plus(w, 1) \in Words
  BY <1>1, PlusFacts
<1>3. /\ Plus(w, Capacity) = IF w + Capacity < Width THEN w + Capacity ELSE w + Capacity - Width
      /\ Plus(w, Capacity) \in Words
  BY <1>1, PlusFacts
<1>4. Plus(Plus(w, Capacity), 1) = IF Plus(w, Capacity) + 1 < Width THEN Plus(w, Capacity) + 1
                                    ELSE Plus(w, Capacity) + 1 - Width
  BY <1>1, <1>3, PlusFacts
<1>5. Minus(Plus(w, 1), w) = IF Plus(w, 1) >= w THEN Plus(w, 1) - w ELSE Plus(w, 1) - w + Width
  BY <1>2, MinusFacts
<1> HIDE DEF Plus, Minus
<1> QED BY <1>2, <1>3, <1>4, <1>5, SizeFacts DEF Words, Several
-----------------------------------------------------------------------------
(* The invariant of the cells.                                             *)

\* How far a position is behind tail_.
Off(w)     == Minus(tail_, w)
Writing(p) == pc[p] \in {"write", "publish"}
Reading(c) == pc[c] \in {"read", "recycle"}

MType ==
  /\ kind \in {"mpmc", "mpsc"}
  /\ tail_ \in Words /\ head_ \in Words
  /\ sequence \in [Cells -> Words]
  /\ cell \in [Cells -> Items \cup {Blank}]
  /\ pc \in [Procs -> {"idle", "seq", "cas", "write", "publish", "read", "recycle"}]
  /\ \A p \in Producers : ~Reading(p)
  /\ \A c \in Consumers : ~Writing(c)
  /\ pos \in [Procs -> Words]
  /\ value \in [Producers -> Items \cup {Blank}]
  /\ result \in [Consumers -> Items \cup {Blank}]

\* A claimed position has its one producer, or its item.
WriteInv ==
  /\ \A p \in Producers : Writing(p) =>
       Off(pos[p]) \in 1 .. Claimed /\ sequence[CellOf(pos[p])] = pos[p]
  /\ \A p, q \in Producers : Writing(p) /\ Writing(q) /\ pos[p] = pos[q] => p = q
  /\ \A w \in Words : Off(w) \in 1 .. Claimed =>
       Ready(w) \/ \E p \in Producers : Writing(p) /\ pos[p] = w

\* A taken position has its one consumer, or is free for the next round.
ReadInv ==
  /\ \A c \in Consumers : Reading(c) =>
       Off(pos[c]) \in Claimed + 1 .. Capacity /\ sequence[CellOf(pos[c])] = Plus(pos[c], 1)
  /\ \A c, d \in Consumers : Reading(c) /\ Reading(d) /\ pos[c] = pos[d] => c = d
  /\ \A w \in Words : Off(w) \in Claimed + 1 .. Capacity =>
       \/ sequence[CellOf(w)] = Plus(w, Capacity)
       \/ \E c \in Consumers : Reading(c) /\ pos[c] = w

CellInv == Claimed \in 0 .. Capacity /\ WriteInv /\ ReadInv

\* What a call has seen of the cell it is about to claim still holds, unless
\* another call was faster.
Enqueuing(p) ==
  /\ pc[p] \in {"seq", "cas"} => Minus(tail_, pos[p]) <= MaxLag
  /\ pc[p] = "cas" /\ pos[p] = tail_ => sequence[CellOf(tail_)] = tail_

Dequeuing(c) ==
  /\ pc[c] \in {"seq", "cas"} => Minus(head_, pos[c]) <= MaxLag
  /\ pc[c] = "cas" /\ pos[c] = head_ => Ready(head_)
  /\ Mpsc /\ pc[c] # "idle" => c = Sole
  /\ Mpsc /\ pc[c] \in {"seq", "cas"} => pos[c] = head_

CallInv == (\A p \in Producers : Enqueuing(p)) /\ (\A c \in Consumers : Dequeuing(c))

MqInv == MType /\ CellInv /\ CallInv

\* Every step keeps the types.
LEMMA TypeStep ==
  ASSUME MType, [Next]_vars
  PROVE  MType'
<1> USE SizeFacts DEF MType, Writing, Reading, Procs, Goto, At, Return
<1>0. Procs = Producers \cup Consumers /\ Producers \cap Consumers = {} /\ Sole \in Consumers
  BY QueueAssumption
<1>1. 0 \in Words
  BY DEF Words
<1>2. \A w \in Words : CellOf(w) \in Cells /\ Plus(w, 1) \in Words /\ Plus(w, Capacity) \in Words
  BY CellFacts, PlusFacts DEF Words
<1>3. ASSUME NEW p \in Producers, Producer(p)
      PROVE  MType'
  <2>0. p \in Procs /\ p \notin Consumers
    BY <1>0
  <2>1. CASE Enqueue(p)
    BY <2>0, <2>1, <1>0 DEF Enqueue
  <2>2. CASE CheckFree(p)
    BY <2>0, <2>2, <1>0, <1>1 DEF CheckFree
  <2>3. CASE ClaimTail(p)
    BY <2>0, <2>3, <1>0, <1>2 DEF ClaimTail
  <2>4. CASE Write(p)
    BY <2>0, <2>4, <1>0, <1>2 DEF Write
  <2>5. CASE Publish(p)
    BY <2>0, <2>5, <1>0, <1>1, <1>2 DEF Publish
  <2> QED BY <1>3, <2>1, <2>2, <2>3, <2>4, <2>5 DEF Producer
<1>4. ASSUME NEW c \in Consumers, Consumer(c)
      PROVE  MType'
  <2>0. c \in Procs /\ c \notin Producers
    BY <1>0
  <2>1. CASE Dequeue(c)
    BY <2>0, <2>1, <1>0 DEF Dequeue
  <2>2. CASE CheckReady(c)
    BY <2>0, <2>2, <1>0, <1>1 DEF CheckReady
  <2>3. CASE TakeHead(c)
    BY <2>0, <2>3, <1>0, <1>2 DEF TakeHead
  <2>4. CASE Read(c)
    BY <2>0, <2>4, <1>0, <1>2 DEF Read
  <2>5. CASE Recycle(c)
    BY <2>0, <2>5, <1>0, <1>1, <1>2 DEF Recycle
  <2> QED BY <1>4, <2>1, <2>2, <2>3, <2>4, <2>5 DEF Consumer
<1>5. CASE UNCHANGED vars
  BY <1>5 DEF vars
<1> QED BY <1>0, <1>3, <1>4, <1>5 DEF Next

\* Steps that move neither word, no number and no process across its claim.
LEMMA QuietStep ==
  ASSUME CellInv, UNCHANGED <<tail_, head_, sequence>>,
         \A p \in Procs : /\ Writing(p)' <=> Writing(p)
                          /\ Reading(p)' <=> Reading(p)
                          /\ Writing(p) \/ Reading(p) => pos'[p] = pos[p]
  PROVE  CellInv'
<1>1. \A w : Off(w)' = Off(w) /\ (Ready(w)' <=> Ready(w))
  BY DEF Off, Ready
<1>2. Claimed' = Claimed
  BY DEF Claimed
<1>3. \A p \in Producers : (Writing(p)' <=> Writing(p)) /\ (Writing(p) => pos'[p] = pos[p])
  BY DEF Procs
<1>4. \A c \in Consumers : (Reading(c)' <=> Reading(c)) /\ (Reading(c) => pos'[c] = pos[c])
  BY DEF Procs
<1>5. WriteInv'
  <2>1. ASSUME NEW p \in Producers, Writing(p)'
        PROVE  Off(pos[p])' \in (1 .. Claimed)' /\ (sequence[CellOf(pos[p])] = pos[p])'
    BY <2>1, <1>1, <1>2, <1>3 DEF CellInv, WriteInv, Off
  <2>2. ASSUME NEW p \in Producers, NEW q \in Producers, (Writing(p) /\ Writing(q) /\ pos[p] = pos[q])'
        PROVE  p = q
    BY <2>2, <1>3 DEF CellInv, WriteInv
  <2>3. ASSUME NEW w \in Words, Off(w)' \in (1 .. Claimed)'
        PROVE  (Ready(w) \/ \E p \in Producers : Writing(p) /\ pos[p] = w)'
    BY <2>3, <1>1, <1>2, <1>3 DEF CellInv, WriteInv
  <2> QED BY <2>1, <2>2, <2>3 DEF WriteInv
<1>6. ReadInv'
  <2>1. ASSUME NEW c \in Consumers, Reading(c)'
        PROVE  /\ Off(pos[c])' \in (Claimed + 1 .. Capacity)'
               /\ (sequence[CellOf(pos[c])] = Plus(pos[c], 1))'
    BY <2>1, <1>1, <1>2, <1>4 DEF CellInv, ReadInv, Off
  <2>2. ASSUME NEW c \in Consumers, NEW d \in Consumers, (Reading(c) /\ Reading(d) /\ pos[c] = pos[d])'
        PROVE  c = d
    BY <2>2, <1>4 DEF CellInv, ReadInv
  <2>3. ASSUME NEW w \in Words, Off(w)' \in (Claimed + 1 .. Capacity)'
        PROVE  (sequence[CellOf(w)] = Plus(w, Capacity) \/ \E c \in Consumers : Reading(c) /\ pos[c] = w)'
    BY <2>3, <1>1, <1>2, <1>4 DEF CellInv, ReadInv
  <2> QED BY <2>1, <2>2, <2>3 DEF ReadInv
<1> QED BY <1>2, <1>5, <1>6 DEF CellInv

\* Where the two words can be.
LEMMA CellFactsOf ==
  ASSUME MType, CellInv
  PROVE  /\ Claimed \in 0 .. Capacity
         /\ Off(head_) = Claimed
         /\ \A w \in Words : CellOf(w) \in Cells /\ Off(w) \in Words
  BY CellFacts, MinusFacts DEF MType, CellInv, Claimed, Off, Words

\* A cell that is free for tail_ belongs to no claimed and no taken position.
LEMMA FreeAtTail ==
  ASSUME Several, MType, CellInv, sequence[CellOf(tail_)] = tail_
  PROVE  /\ Claimed < Capacity
         /\ \A c \in Consumers : Reading(c) => Off(pos[c]) \in Claimed + 1 .. Capacity - 1
<1>1. PICK u \in Words : Off(u) = Capacity /\ Plus(u, Capacity) = tail_ /\ CellOf(u) = CellOf(tail_)
  BY RoundAgo DEF MType, Off
<1>2. u # tail_ /\ Plus(u, 1) # tail_
  BY <1>1, Numbers
<1>3. Claimed \in 0 .. Capacity /\ Capacity \in Nat \ {0}
  BY CellFactsOf, SizeFacts
<1>4. Claimed # Capacity
  <2> SUFFICES ASSUME Claimed = Capacity
               PROVE  FALSE
    OBVIOUS
  <2>1. Off(u) \in 1 .. Claimed
    BY <1>1, <1>3
  <2>2. CASE Ready(u)
    BY <2>2, <1>1, <1>2 DEF Ready
  <2>3. CASE \E p \in Producers : Writing(p) /\ pos[p] = u
    BY <2>3, <1>1, <1>2 DEF CellInv, WriteInv
  <2> QED BY <2>1, <2>2, <2>3 DEF CellInv, WriteInv
<1>5. ASSUME NEW c \in Consumers, Reading(c), Off(pos[c]) = Capacity
      PROVE  FALSE
  <2>1. pos[c] \in Words
    BY DEF MType, Procs
  <2>2. pos[c] = u
    BY <2>1, <1>1, <1>5, SameDistance DEF Off, MType
  <2> QED BY <2>2, <1>1, <1>2, <1>5 DEF CellInv, ReadInv
<1>6. ASSUME NEW c \in Consumers, Reading(c)
      PROVE  Off(pos[c]) \in Claimed + 1 .. Capacity - 1
  <2>1. Off(pos[c]) \in Claimed + 1 .. Capacity
    BY <1>6 DEF CellInv, ReadInv
  <2> QED BY <2>1, <1>3, <1>5, <1>6
<1> QED BY <1>3, <1>4, <1>6

\* A cell whose item is ready for head_ belongs to a claimed position that no
\* producer holds.
LEMMA ReadyAtHead ==
  ASSUME Several, MType, CellInv, Ready(head_)
  PROVE  /\ Claimed # 0
         /\ \A p \in Producers : Writing(p) => Off(pos[p]) \in 1 .. Claimed - 1
<1>1. PICK u \in Words : Off(u) = Capacity /\ Plus(u, Capacity) = tail_ /\ CellOf(u) = CellOf(tail_)
  BY RoundAgo DEF MType, Off
<1>2. Claimed \in 0 .. Capacity /\ Capacity \in Nat \ {0} /\ Off(head_) = Claimed
  BY CellFactsOf, SizeFacts
<1>3. head_ \in Words /\ tail_ \in Words
  BY DEF MType
<1>4. Claimed # 0
  <2> SUFFICES ASSUME Claimed = 0
               PROVE  FALSE
    OBVIOUS
  <2>1. head_ = tail_
    BY <1>3, OneFurther DEF Claimed
  <2>2. sequence[CellOf(u)] = Plus(Plus(u, Capacity), 1)
    BY <2>1, <1>1 DEF Ready
  <2>3. Off(u) \in Claimed + 1 .. Capacity
    BY <1>1, <1>2
  <2>4. CASE sequence[CellOf(u)] = Plus(u, Capacity)
    BY <2>2, <2>4, <1>1, <1>3, Numbers
  <2>5. CASE \E c \in Consumers : Reading(c) /\ pos[c] = u
    <3>1. sequence[CellOf(u)] = Plus(u, 1)
      BY <2>5 DEF CellInv, ReadInv
    <3> QED BY <3>1, <2>2, Numbers
  <2> QED BY <2>3, <2>4, <2>5 DEF CellInv, ReadInv
<1>5. ASSUME NEW p \in Producers, Writing(p)
      PROVE  Off(pos[p]) \in 1 .. Claimed - 1
  <2>1. Off(pos[p]) \in 1 .. Claimed /\ sequence[CellOf(pos[p])] = pos[p]
    BY <1>5 DEF CellInv, WriteInv
  <2>2. pos[p] \in Words
    BY DEF MType, Procs
  <2>3. Off(pos[p]) # Claimed
    <3> SUFFICES ASSUME Off(pos[p]) = Claimed
                 PROVE  FALSE
      OBVIOUS
    <3>1. pos[p] = head_
      BY <2>2, <1>2, <1>3, SameDistance DEF Off
    <3> QED BY <3>1, <2>1, <1>3, Numbers DEF Ready
  <2> QED BY <2>1, <2>3, <1>2
<1> QED BY <1>4, <1>5

\* A claim: every distance grows by one, and the new position is the claimer's.
LEMMA ClaimStep ==
  ASSUME Several, MType, MType', CellInv, NEW p \in Producers,
         ClaimTail(p), tail_ = pos[p], sequence[CellOf(tail_)] = tail_
  PROVE  CellInv'
<1>1. /\ Claimed \in 0 .. Capacity - 1 /\ Capacity \in Nat \ {0, 1} /\ Width \in Nat
      /\ Capacity < Width - 1
  BY CellFactsOf, FreeAtTail, SizeFacts DEF Several
<1>2. \A c \in Consumers : Reading(c) => Off(pos[c]) \in Claimed + 1 .. Capacity - 1
  BY FreeAtTail
<1>3. /\ tail_' = Plus(tail_, 1) /\ UNCHANGED <<head_, sequence, cell, pos>>
      /\ pc' = [pc EXCEPT ![p] = "write"] /\ pc[p] = "cas"
  BY DEF ClaimTail, Goto
<1>4. tail_ \in Words /\ head_ \in Words
  BY DEF MType
<1>5. \A w \in Words : /\ Minus(tail_', w) = IF Off(w) = Width - 1 THEN 0 ELSE Off(w) + 1
                       /\ Off(w) = 0 <=> w = tail_
                       /\ Off(w) \in 0 .. Width - 1
  <2> TAKE w \in Words
  <2>1. Minus(tail_', w) = IF Minus(tail_, w) = Width - 1 THEN 0 ELSE Minus(tail_, w) + 1
    BY <1>3, <1>4, OneFurther
  <2> QED BY <2>1, <1>4, OneFurther, MinusFacts DEF Off, Words
<1>6. Claimed' = Claimed + 1
  <2>1. Claimed = Off(head_) /\ Claimed' = Minus(tail_', head_)
    BY <1>3 DEF Claimed, Off
  <2> QED BY <2>1, <1>1, <1>4, <1>5
<1>7. DOMAIN pc = Procs /\ p \in Procs /\ p \notin Consumers /\ pos \in [Procs -> Words]
  BY QueueAssumption DEF MType, Procs
<1>8. /\ \A q \in Producers : (Writing(q)' <=> Writing(q) \/ q = p)
      /\ \A c \in Consumers : (Reading(c)' <=> Reading(c))
      /\ ~Writing(p)
  BY <1>3, <1>7 DEF Writing, Reading, Procs
<1>9. \A w \in Words : Ready(w)' <=> Ready(w)
  BY <1>3 DEF Ready
<1>10. WriteInv'
  <2>1. ASSUME NEW q \in Producers, Writing(q)'
        PROVE  /\ Off(pos[q])' \in 1 .. Claimed'
               /\ (sequence[CellOf(pos[q])] = pos[q])'
    <3>0. pos[q] \in Words /\ Off(pos[q])' = Minus(tail_', pos[q])
      BY <1>3, <1>7 DEF Procs, Off
    <3>1. CASE q = p
      <4>1. Minus(tail_', pos[q]) = 1
        BY <3>1, <1>1, <1>4, <1>5
      <4> QED BY <4>1, <3>0, <3>1, <1>1, <1>3, <1>6
    <3>2. CASE q # p
      <4>1. Off(pos[q]) \in 1 .. Claimed /\ sequence[CellOf(pos[q])] = pos[q]
        BY <2>1, <3>2, <1>8 DEF CellInv, WriteInv
      <4>2. Minus(tail_', pos[q]) = Off(pos[q]) + 1
        BY <4>1, <3>0, <1>1, <1>5, <1>3 DEF Off
      <4> QED BY <4>1, <4>2, <3>0, <1>1, <1>3, <1>6
    <3> QED BY <3>1, <3>2
  <2>2. ASSUME NEW q \in Producers, NEW r \in Producers, (Writing(q) /\ Writing(r) /\ pos[q] = pos[r])'
        PROVE  q = r
    <3>1. \A x \in Producers : Writing(x) => pos[x] # tail_
      <4> TAKE x \in Producers
      <4>1. Writing(x) => Off(pos[x]) \in 1 .. Claimed
        BY DEF CellInv, WriteInv
      <4> QED BY <4>1, <1>1, <1>4, <1>5
    <3>2. pos[q] = pos[r]
      BY <2>2, <1>3
    <3> QED BY <2>2, <3>1, <3>2, <1>8 DEF CellInv, WriteInv
  <2>3. ASSUME NEW w \in Words, Off(w)' \in 1 .. Claimed'
        PROVE  (Ready(w) \/ \E q \in Producers : Writing(q) /\ pos[q] = w)'
    <3>1. Off(w) \in 0 .. Claimed
      BY <2>3, <1>1, <1>5, <1>6 DEF Off
    <3>2. CASE Off(w) = 0
      BY <3>2, <1>3, <1>5, <1>8
    <3>3. CASE Off(w) \in 1 .. Claimed
      <4>1. Ready(w) \/ \E q \in Producers : Writing(q) /\ pos[q] = w
        BY <3>3 DEF CellInv, WriteInv
      <4> QED BY <4>1, <1>3, <1>8, <1>9
    <3> QED BY <3>1, <3>2, <3>3, <1>1
  <2> QED BY <2>1, <2>2, <2>3 DEF WriteInv
<1>11. ReadInv'
  <2>1. ASSUME NEW c \in Consumers, Reading(c)'
        PROVE  /\ Off(pos[c])' \in Claimed' + 1 .. Capacity
               /\ (sequence[CellOf(pos[c])] = Plus(pos[c], 1))'
    <3>0. pos[c] \in Words /\ Off(pos[c])' = Minus(tail_', pos[c])
      BY <1>3, <1>7 DEF Procs, Off
    <3>1. Off(pos[c]) \in Claimed + 1 .. Capacity - 1 /\ sequence[CellOf(pos[c])] = Plus(pos[c], 1)
      BY <2>1, <1>2, <1>8 DEF CellInv, ReadInv
    <3>2. Minus(tail_', pos[c]) = Off(pos[c]) + 1
      BY <3>0, <3>1, <1>1, <1>5 DEF Off
    <3> QED BY <3>0, <3>1, <3>2, <1>1, <1>3, <1>6
  <2>2. ASSUME NEW c \in Consumers, NEW d \in Consumers, (Reading(c) /\ Reading(d) /\ pos[c] = pos[d])'
        PROVE  c = d
    BY <2>2, <1>3, <1>8 DEF CellInv, ReadInv
  <2>3. ASSUME NEW w \in Words, Off(w)' \in Claimed' + 1 .. Capacity
        PROVE  (sequence[CellOf(w)] = Plus(w, Capacity) \/ \E c \in Consumers : Reading(c) /\ pos[c] = w)'
    <3>1. Off(w) \in Claimed + 1 .. Capacity
      BY <2>3, <1>1, <1>5, <1>6 DEF Off
    <3>2. sequence[CellOf(w)] = Plus(w, Capacity) \/ \E c \in Consumers : Reading(c) /\ pos[c] = w
      BY <3>1 DEF CellInv, ReadInv
    <3> QED BY <3>2, <1>3, <1>8
  <2> QED BY <2>1, <2>2, <2>3 DEF ReadInv
<1>12. Claimed' \in 0 .. Capacity
  BY <1>1, <1>6
<1> QED BY <1>10, <1>11, <1>12 DEF CellInv

\* The cells of the window are different.
LEMMA WindowCell ==
  ASSUME MType, NEW a \in Words, NEW b \in Words,
         Off(a) \in 1 .. Capacity, Off(b) \in 1 .. Capacity, CellOf(a) = CellOf(b)
  PROVE  a = b
  BY SameCell DEF MType, Off

\* Where a process that holds a cell is.
LEMMA Holders ==
  ASSUME MType, CellInv
  PROVE  /\ \A p \in Producers : Writing(p) =>
              /\ pos[p] \in Words /\ Off(pos[p]) \in 1 .. Claimed /\ Off(pos[p]) \in 1 .. Capacity
              /\ sequence[CellOf(pos[p])] = pos[p]
         /\ \A c \in Consumers : Reading(c) =>
              /\ pos[c] \in Words /\ Off(pos[c]) \in Claimed + 1 .. Capacity
              /\ Off(pos[c]) \in 1 .. Capacity
              /\ sequence[CellOf(pos[c])] = Plus(pos[c], 1)
<1>1. Claimed \in 0 .. Capacity /\ Capacity \in Nat
  BY SizeFacts DEF CellInv
<1>2. \A p \in Procs : pos[p] \in Words
  BY DEF MType
<1> QED BY <1>1, <1>2 DEF CellInv, WriteInv, ReadInv, Procs

\* A publication: the position has its item instead of its producer.
LEMMA PublishStep ==
  ASSUME Several, MType, CellInv, NEW p \in Producers, Publish(p)
  PROVE  CellInv'
<1>1. /\ UNCHANGED <<tail_, head_, cell>> /\ pc[p] = "publish"
      /\ sequence' = [sequence EXCEPT ![CellOf(pos[p])] = Plus(pos[p], 1)]
      /\ pc' = [pc EXCEPT ![p] = "idle"] /\ pos' = [pos EXCEPT ![p] = 0]
  BY DEF Publish, Return, Goto, At
<1>2. /\ DOMAIN pc = Procs /\ DOMAIN pos = Procs /\ DOMAIN sequence = Cells
      /\ p \in Procs /\ p \notin Consumers
  BY QueueAssumption DEF MType, Procs
<1>3. Writing(p) /\ pos[p] \in Words /\ Off(pos[p]) \in 1 .. Capacity
      /\ Off(pos[p]) \in 1 .. Claimed /\ CellOf(pos[p]) \in Cells
  BY <1>1, Holders, CellFactsOf DEF Writing
<1>4. /\ \A q \in Producers : (Writing(q)' <=> Writing(q) /\ q # p) /\ (q # p => pos'[q] = pos[q])
      /\ \A c \in Consumers : (Reading(c)' <=> Reading(c)) /\ pos'[c] = pos[c]
  BY <1>1, <1>2 DEF Writing, Reading, Procs
<1>5. \A w \in Words : Off(w) \in 1 .. Capacity /\ w # pos[p] => sequence'[CellOf(w)] = sequence[CellOf(w)]
  <2> SUFFICES ASSUME NEW w \in Words, Off(w) \in 1 .. Capacity, w # pos[p]
               PROVE  sequence'[CellOf(w)] = sequence[CellOf(w)]
    OBVIOUS
  <2>1. CellOf(w) # CellOf(pos[p])
    BY <1>3, WindowCell
  <2> QED BY <2>1, <1>1
<1>6. sequence'[CellOf(pos[p])] = Plus(pos[p], 1)
  BY <1>1, <1>2, <1>3
<1>7. Claimed' = Claimed /\ \A w \in Words : Minus(tail_', w) = Off(w)
  BY <1>1 DEF Claimed, Off
<1>8. Claimed \in 0 .. Capacity /\ Capacity \in Nat
  BY SizeFacts DEF CellInv
<1>9. WriteInv'
  <2>1. ASSUME NEW q \in Producers, Writing(q)'
        PROVE  /\ Off(pos[q])' \in 1 .. Claimed'
               /\ (sequence[CellOf(pos[q])] = pos[q])'
    <3>1. Writing(q) /\ q # p /\ pos'[q] = pos[q]
      BY <2>1, <1>4
    <3>2. pos[q] # pos[p]
      BY <3>1, <1>3 DEF CellInv, WriteInv
    <3>3. /\ pos[q] \in Words /\ Off(pos[q]) \in 1 .. Claimed /\ Off(pos[q]) \in 1 .. Capacity
          /\ sequence[CellOf(pos[q])] = pos[q]
      BY <3>1, Holders
    <3> QED BY <3>1, <3>2, <3>3, <1>5, <1>7 DEF Off
  <2>2. ASSUME NEW q \in Producers, NEW r \in Producers, (Writing(q) /\ Writing(r) /\ pos[q] = pos[r])'
        PROVE  q = r
    BY <2>2, <1>4 DEF CellInv, WriteInv
  <2>3. ASSUME NEW w \in Words, Off(w)' \in 1 .. Claimed'
        PROVE  (Ready(w) \/ \E q \in Producers : Writing(q) /\ pos[q] = w)'
    <3>1. Off(w) \in 1 .. Claimed /\ Off(w) \in 1 .. Capacity
      BY <2>3, <1>7, <1>8 DEF Off
    <3>2. CASE w = pos[p]
      BY <3>2, <1>6 DEF Ready
    <3>3. CASE w # pos[p]
      <4>1. CASE Ready(w)
        BY <4>1, <3>1, <3>3, <1>5 DEF Ready
      <4>2. CASE \E q \in Producers : Writing(q) /\ pos[q] = w
        BY <4>2, <3>3, <1>4
      <4> QED BY <4>1, <4>2, <3>1 DEF CellInv, WriteInv
    <3> QED BY <3>2, <3>3
  <2> QED BY <2>1, <2>2, <2>3 DEF WriteInv
<1>10. ReadInv'
  <2>1. ASSUME NEW c \in Consumers, Reading(c)'
        PROVE  /\ Off(pos[c])' \in Claimed' + 1 .. Capacity
               /\ (sequence[CellOf(pos[c])] = Plus(pos[c], 1))'
    <3>1. Reading(c) /\ pos'[c] = pos[c]
      BY <2>1, <1>4
    <3>2. /\ pos[c] \in Words /\ Off(pos[c]) \in Claimed + 1 .. Capacity
          /\ Off(pos[c]) \in 1 .. Capacity /\ sequence[CellOf(pos[c])] = Plus(pos[c], 1)
      BY <3>1, Holders
    <3>3. pos[c] # pos[p]
      BY <3>2, <1>3, <1>8
    <3> QED BY <3>1, <3>2, <3>3, <1>5, <1>7 DEF Off
  <2>2. ASSUME NEW c \in Consumers, NEW d \in Consumers, (Reading(c) /\ Reading(d) /\ pos[c] = pos[d])'
        PROVE  c = d
    BY <2>2, <1>4 DEF CellInv, ReadInv
  <2>3. ASSUME NEW w \in Words, Off(w)' \in Claimed' + 1 .. Capacity
        PROVE  (sequence[CellOf(w)] = Plus(w, Capacity) \/ \E c \in Consumers : Reading(c) /\ pos[c] = w)'
    <3>1. Off(w) \in Claimed + 1 .. Capacity /\ Off(w) \in 1 .. Capacity
      BY <2>3, <1>7, <1>8 DEF Off
    <3>2. w # pos[p]
      BY <3>1, <1>3, <1>8
    <3>3. sequence[CellOf(w)] = Plus(w, Capacity) \/ \E c \in Consumers : Reading(c) /\ pos[c] = w
      BY <3>1 DEF CellInv, ReadInv
    <3> QED BY <3>1, <3>2, <3>3, <1>4, <1>5
  <2> QED BY <2>1, <2>2, <2>3 DEF ReadInv
<1> QED BY <1>7, <1>8, <1>9, <1>10 DEF CellInv

\* A consumer takes the oldest position: it passes from claimed to taken.
LEMMA TakeStep ==
  ASSUME Several, MType, CellInv, NEW c \in Consumers,
         TakeHead(c), head_ = pos[c], Ready(head_)
  PROVE  CellInv'
<1>1. /\ Claimed \in 1 .. Capacity /\ Capacity \in Nat /\ Off(head_) = Claimed
      /\ \A p \in Producers : Writing(p) => Off(pos[p]) \in 1 .. Claimed - 1
  BY CellFactsOf, ReadyAtHead, SizeFacts
<1>2. /\ head_' = Plus(head_, 1) /\ UNCHANGED <<tail_, sequence, cell, pos>>
      /\ pc' = [pc EXCEPT ![c] = "read"] /\ pc[c] = "cas"
  BY DEF TakeHead, Goto
<1>3. /\ DOMAIN pc = Procs /\ c \in Procs /\ c \notin Producers
      /\ tail_ \in Words /\ head_ \in Words /\ pos \in [Procs -> Words]
  BY QueueAssumption DEF MType, Procs
<1>4. /\ \A p \in Producers : Writing(p)' <=> Writing(p)
      /\ \A d \in Consumers : Reading(d)' <=> Reading(d) \/ d = c
      /\ ~Reading(c)
  BY <1>2, <1>3 DEF Writing, Reading, Procs
<1>5. Claimed' = Claimed - 1
  BY <1>1, <1>2, <1>3, OneFurther DEF Claimed
<1>6. \A w \in Words : Minus(tail_', w) = Off(w) /\ (Ready(w)' <=> Ready(w))
  BY <1>2 DEF Off, Ready
<1>7. \A w \in Words : Off(w) = Claimed => w = head_
  BY <1>1, <1>3, SameDistance DEF Off
<1>8. WriteInv'
  <2>1. ASSUME NEW q \in Producers, Writing(q)'
        PROVE  /\ Off(pos[q])' \in 1 .. Claimed'
               /\ (sequence[CellOf(pos[q])] = pos[q])'
    <3>1. Writing(q) /\ pos'[q] = pos[q]
      BY <2>1, <1>2, <1>4
    <3>2. /\ pos[q] \in Words /\ Off(pos[q]) \in 1 .. Claimed - 1 /\ sequence[CellOf(pos[q])] = pos[q]
      BY <3>1, <1>1, Holders
    <3> QED BY <3>1, <3>2, <1>2, <1>5, <1>6 DEF Off
  <2>2. ASSUME NEW q \in Producers, NEW r \in Producers, (Writing(q) /\ Writing(r) /\ pos[q] = pos[r])'
        PROVE  q = r
    BY <2>2, <1>2, <1>4 DEF CellInv, WriteInv
  <2>3. ASSUME NEW w \in Words, Off(w)' \in 1 .. Claimed'
        PROVE  (Ready(w) \/ \E q \in Producers : Writing(q) /\ pos[q] = w)'
    <3>1. Off(w) \in 1 .. Claimed
      BY <2>3, <1>1, <1>5, <1>6 DEF Off
    <3>2. Ready(w) \/ \E q \in Producers : Writing(q) /\ pos[q] = w
      BY <3>1 DEF CellInv, WriteInv
    <3> QED BY <3>2, <1>2, <1>4, <1>6
  <2> QED BY <2>1, <2>2, <2>3 DEF WriteInv
<1>9. ReadInv'
  <2>1. ASSUME NEW d \in Consumers, Reading(d)'
        PROVE  /\ Off(pos[d])' \in Claimed' + 1 .. Capacity
               /\ (sequence[CellOf(pos[d])] = Plus(pos[d], 1))'
    <3>1. CASE d = c
      <4>1. Off(pos[d])' = Claimed
        BY <3>1, <1>1, <1>2, <1>3, <1>6 DEF Off
      <4>2. sequence[CellOf(pos[d])] = Plus(pos[d], 1)
        BY <3>1 DEF Ready
      <4> QED BY <4>1, <4>2, <1>1, <1>2, <1>5
    <3>2. CASE d # c
      <4>1. /\ pos[d] \in Words /\ Off(pos[d]) \in Claimed + 1 .. Capacity
            /\ sequence[CellOf(pos[d])] = Plus(pos[d], 1)
        BY <2>1, <3>2, <1>4, Holders
      <4> QED BY <4>1, <1>1, <1>2, <1>5, <1>6 DEF Off
    <3> QED BY <3>1, <3>2
  <2>2. ASSUME NEW d \in Consumers, NEW e \in Consumers, (Reading(d) /\ Reading(e) /\ pos[d] = pos[e])'
        PROVE  d = e
    <3>1. \A x \in Consumers : Reading(x) => pos[x] # head_
      <4> TAKE x \in Consumers
      <4>1. Reading(x) => Off(pos[x]) \in Claimed + 1 .. Capacity
        BY Holders
      <4> QED BY <4>1, <1>1
    <3> QED BY <2>2, <3>1, <1>2, <1>4 DEF CellInv, ReadInv
  <2>3. ASSUME NEW w \in Words, Off(w)' \in Claimed' + 1 .. Capacity
        PROVE  (sequence[CellOf(w)] = Plus(w, Capacity) \/ \E d \in Consumers : Reading(d) /\ pos[d] = w)'
    <3>1. Off(w) \in Claimed .. Capacity
      BY <2>3, <1>1, <1>5, <1>6 DEF Off
    <3>2. CASE Off(w) = Claimed
      BY <3>2, <1>2, <1>4, <1>7
    <3>3. CASE Off(w) \in Claimed + 1 .. Capacity
      <4>1. sequence[CellOf(w)] = Plus(w, Capacity) \/ \E d \in Consumers : Reading(d) /\ pos[d] = w
        BY <3>3 DEF CellInv, ReadInv
      <4> QED BY <4>1, <1>2, <1>4
    <3> QED BY <3>1, <3>2, <3>3, <1>1
  <2> QED BY <2>1, <2>2, <2>3 DEF ReadInv
<1>10. Claimed' \in 0 .. Capacity
  BY <1>1, <1>5
<1> QED BY <1>8, <1>9, <1>10 DEF CellInv

\* A recycled cell is free for the next round.
LEMMA RecycleStep ==
  ASSUME Several, MType, CellInv, NEW c \in Consumers, Recycle(c)
  PROVE  CellInv'
<1>1. /\ UNCHANGED <<tail_, head_, cell>> /\ pc[c] = "recycle"
      /\ sequence' = [sequence EXCEPT ![CellOf(pos[c])] = Plus(pos[c], Capacity)]
      /\ pc' = [pc EXCEPT ![c] = "idle"] /\ pos' = [pos EXCEPT ![c] = 0]
  BY DEF Recycle, Return, Goto, At
<1>2. /\ DOMAIN pc = Procs /\ DOMAIN pos = Procs /\ DOMAIN sequence = Cells
      /\ c \in Procs /\ c \notin Producers
  BY QueueAssumption DEF MType, Procs
<1>3. Reading(c) /\ pos[c] \in Words /\ Off(pos[c]) \in 1 .. Capacity
      /\ Off(pos[c]) \in Claimed + 1 .. Capacity /\ CellOf(pos[c]) \in Cells
  BY <1>1, Holders, CellFactsOf DEF Reading
<1>4. /\ \A q \in Producers : (Writing(q)' <=> Writing(q)) /\ pos'[q] = pos[q]
      /\ \A d \in Consumers : (Reading(d)' <=> Reading(d) /\ d # c) /\ (d # c => pos'[d] = pos[d])
  BY <1>1, <1>2 DEF Writing, Reading, Procs
<1>5. \A w \in Words : Off(w) \in 1 .. Capacity /\ w # pos[c] => sequence'[CellOf(w)] = sequence[CellOf(w)]
  <2> SUFFICES ASSUME NEW w \in Words, Off(w) \in 1 .. Capacity, w # pos[c]
               PROVE  sequence'[CellOf(w)] = sequence[CellOf(w)]
    OBVIOUS
  <2>1. CellOf(w) # CellOf(pos[c])
    BY <1>3, WindowCell
  <2> QED BY <2>1, <1>1
<1>6. sequence'[CellOf(pos[c])] = Plus(pos[c], Capacity)
  BY <1>1, <1>2, <1>3
<1>7. Claimed' = Claimed /\ \A w \in Words : Minus(tail_', w) = Off(w)
  BY <1>1 DEF Claimed, Off
<1>8. Claimed \in 0 .. Capacity /\ Capacity \in Nat
  BY SizeFacts DEF CellInv
<1>9. WriteInv'
  <2>1. ASSUME NEW q \in Producers, Writing(q)'
        PROVE  /\ Off(pos[q])' \in 1 .. Claimed'
               /\ (sequence[CellOf(pos[q])] = pos[q])'
    <3>1. Writing(q) /\ pos'[q] = pos[q]
      BY <2>1, <1>4
    <3>2. /\ pos[q] \in Words /\ Off(pos[q]) \in 1 .. Claimed /\ Off(pos[q]) \in 1 .. Capacity
          /\ sequence[CellOf(pos[q])] = pos[q]
      BY <3>1, Holders
    <3>3. pos[q] # pos[c]
      BY <3>2, <1>3, <1>8
    <3> QED BY <3>1, <3>2, <3>3, <1>5, <1>7 DEF Off
  <2>2. ASSUME NEW q \in Producers, NEW r \in Producers, (Writing(q) /\ Writing(r) /\ pos[q] = pos[r])'
        PROVE  q = r
    BY <2>2, <1>4 DEF CellInv, WriteInv
  <2>3. ASSUME NEW w \in Words, Off(w)' \in 1 .. Claimed'
        PROVE  (Ready(w) \/ \E q \in Producers : Writing(q) /\ pos[q] = w)'
    <3>1. Off(w) \in 1 .. Claimed /\ Off(w) \in 1 .. Capacity
      BY <2>3, <1>7, <1>8 DEF Off
    <3>2. w # pos[c]
      BY <3>1, <1>3, <1>8
    <3>3. Ready(w) \/ \E q \in Producers : Writing(q) /\ pos[q] = w
      BY <3>1 DEF CellInv, WriteInv
    <3> QED BY <3>1, <3>2, <3>3, <1>4, <1>5 DEF Ready
  <2> QED BY <2>1, <2>2, <2>3 DEF WriteInv
<1>10. ReadInv'
  <2>1. ASSUME NEW d \in Consumers, Reading(d)'
        PROVE  /\ Off(pos[d])' \in Claimed' + 1 .. Capacity
               /\ (sequence[CellOf(pos[d])] = Plus(pos[d], 1))'
    <3>1. Reading(d) /\ d # c /\ pos'[d] = pos[d]
      BY <2>1, <1>4
    <3>2. /\ pos[d] \in Words /\ Off(pos[d]) \in Claimed + 1 .. Capacity
          /\ Off(pos[d]) \in 1 .. Capacity /\ sequence[CellOf(pos[d])] = Plus(pos[d], 1)
      BY <3>1, Holders
    <3>3. pos[d] # pos[c]
      BY <3>1, <1>3 DEF CellInv, ReadInv
    <3> QED BY <3>1, <3>2, <3>3, <1>5, <1>7 DEF Off
  <2>2. ASSUME NEW d \in Consumers, NEW e \in Consumers, (Reading(d) /\ Reading(e) /\ pos[d] = pos[e])'
        PROVE  d = e
    BY <2>2, <1>4 DEF CellInv, ReadInv
  <2>3. ASSUME NEW w \in Words, Off(w)' \in Claimed' + 1 .. Capacity
        PROVE  (sequence[CellOf(w)] = Plus(w, Capacity) \/ \E d \in Consumers : Reading(d) /\ pos[d] = w)'
    <3>1. Off(w) \in Claimed + 1 .. Capacity /\ Off(w) \in 1 .. Capacity
      BY <2>3, <1>7, <1>8 DEF Off
    <3>2. CASE w = pos[c]
      BY <3>2, <1>6
    <3>3. CASE w # pos[c]
      <4>1. sequence[CellOf(w)] = Plus(w, Capacity) \/ \E d \in Consumers : Reading(d) /\ pos[d] = w
        BY <3>1 DEF CellInv, ReadInv
      <4> QED BY <4>1, <3>1, <3>3, <1>4, <1>5
    <3> QED BY <3>2, <3>3
  <2> QED BY <2>1, <2>2, <2>3 DEF ReadInv
<1> QED BY <1>7, <1>8, <1>9, <1>10 DEF CellInv

\* A number compares equal only to itself.
LEMMA SignedZero ==
  ASSUME NEW a \in Words, NEW b \in Words
  PROVE  Signed(a, b) = 0 <=> a = b
<1>1. Minus(a, b) \in Words /\ (Minus(a, b) = 0 <=> a = b)
  BY MinusFacts, OneFurther
<1>2. Width \in Nat \ {0} /\ Width \div 2 \in Nat /\ (Width > 1 => 0 < Width \div 2)
  BY SizeFacts
<1>3. Width > 1
  BY SizeFacts
<1> QED BY <1>1, <1>2, <1>3 DEF Signed, Words

\* A word is at no distance from itself.
LEMMA NoDistance ==
  ASSUME NEW a \in Words
  PROVE  Minus(a, a) = 0 /\ Minus(a, a) <= MaxLag
  BY OneFurther, SizeFacts

\* A word that moves on passes no call that it has not overtaken too often.
LEMMA NotOvertaken ==
  ASSUME NEW t \in Words, NEW w \in Words, Minus(t, w) < MaxLag
  PROVE  Minus(Plus(t, 1), w) <= MaxLag /\ w # Plus(t, 1)
<1>1. Minus(t, w) \in Nat /\ MaxLag \in Nat /\ MaxLag < Width - 1 /\ Width \in Nat
  BY MinusFacts, SizeFacts DEF Words
<1>2. Minus(Plus(t, 1), w) = Minus(t, w) + 1
  BY <1>1, OneFurther
<1>3. Plus(t, 1) \in Words
  BY PlusFacts, SizeFacts
<1>4. Minus(Plus(t, 1), w) # 0
  BY <1>1, <1>2
<1> QED BY <1>1, <1>2, <1>3, <1>4, OneFurther

\* What a producer has seen survives the steps of producers ...
LEMMA EnqueuingStep ==
  ASSUME Several, MqInv, MType', NEW p \in Producers, Producer(p), NEW q \in Producers
  PROVE  Enqueuing(q)'
<1>1. /\ DOMAIN pc = Procs /\ DOMAIN pos = Procs /\ DOMAIN sequence = Cells
      /\ p \in Procs /\ q \in Procs /\ tail_ \in Words /\ pos[p] \in Words /\ pos[q] \in Words
  BY DEF MqInv, MType, Procs
<1>2. Enqueuing(p) /\ Enqueuing(q)
  BY DEF MqInv, CallInv
<1>3. Minus(tail_, tail_) <= MaxLag
  BY <1>1, NoDistance
<1>4. CASE Enqueue(p)
  BY <1>1, <1>2, <1>3, <1>4 DEF Enqueue, Goto, At, Enqueuing
<1>5. CASE CheckFree(p)
  <2>1. Signed(sequence[CellOf(pos[p])], pos[p]) = 0 => sequence[CellOf(pos[p])] = pos[p]
    <3>1. CellOf(pos[p]) \in Cells /\ sequence[CellOf(pos[p])] \in Words
      BY <1>1, CellFactsOf DEF MqInv, MType
    <3> QED BY <1>1, <3>1, SignedZero
  <2>2. CASE Signed(sequence[CellOf(pos[p])], pos[p]) = 0 /\ Goto(p, "cas") /\ UNCHANGED <<pos, value>>
    BY <1>1, <1>2, <1>5, <2>1, <2>2 DEF CheckFree, Goto, Enqueuing
  <2>3. CASE Return(p)
    BY <1>1, <1>2, <1>5, <2>3 DEF CheckFree, Return, Goto, At, Enqueuing
  <2>4. CASE At(p, tail_) /\ UNCHANGED <<pc, value>>
    BY <1>1, <1>2, <1>3, <1>5, <2>4 DEF CheckFree, At, Enqueuing
  <2> QED BY <1>5, <2>2, <2>3, <2>4 DEF CheckFree
<1>6. CASE ClaimTail(p) /\ tail_ = pos[p]
  <2>1. /\ tail_' = Plus(tail_, 1) /\ UNCHANGED <<pos, sequence>>
        /\ pc' = [pc EXCEPT ![p] = "write"] /\ InTime(p, tail_)
    BY <1>6 DEF ClaimTail, Goto
  <2>2. CASE q = p
    BY <2>1, <2>2, <1>1 DEF Enqueuing
  <2>3. CASE q # p /\ pc[q] \in {"seq", "cas"}
    <3>1. Minus(tail_, pos[q]) < MaxLag
      BY <2>1, <2>3, <1>1 DEF InTime
    <3> QED BY <3>1, <2>1, <2>3, <1>1, NotOvertaken DEF Enqueuing
  <2>4. CASE q # p /\ pc[q] \notin {"seq", "cas"}
    BY <2>1, <2>4, <1>1 DEF Enqueuing
  <2> QED BY <2>2, <2>3, <2>4
<1>7. CASE ClaimTail(p) /\ tail_ # pos[p]
  BY <1>1, <1>2, <1>3, <1>7 DEF ClaimTail, Goto, At, Enqueuing
<1>8. CASE Write(p)
  BY <1>1, <1>2, <1>8 DEF Write, Goto, Enqueuing
<1>9. CASE Publish(p)
  <2>1. /\ UNCHANGED tail_ /\ pc' = [pc EXCEPT ![p] = "idle"] /\ pos' = [pos EXCEPT ![p] = 0]
        /\ sequence' = [sequence EXCEPT ![CellOf(pos[p])] = Plus(pos[p], 1)] /\ Writing(p)
    BY <1>9 DEF Publish, Return, Goto, At, Writing
  <2>2. Off(pos[p]) \in 1 .. Claimed /\ sequence[CellOf(pos[p])] = pos[p]
    BY <2>1, Holders DEF MqInv
  <2>3. pos[p] # tail_
    BY <2>2, <1>1, OneFurther, CellFactsOf, SizeFacts DEF Off, MqInv
  <2>4. sequence[CellOf(tail_)] = tail_ => sequence'[CellOf(tail_)] = tail_
    BY <2>1, <2>2, <2>3
  <2> QED BY <2>1, <2>4, <1>1, <1>2 DEF Enqueuing
<1> QED BY <1>4, <1>5, <1>6, <1>7, <1>8, <1>9 DEF Producer

\* ... and those of consumers.
LEMMA EnqueuingStays ==
  ASSUME Several, MqInv, MType', NEW c \in Consumers, Consumer(c), NEW q \in Producers
  PROVE  Enqueuing(q)'
<1>1. /\ DOMAIN pc = Procs /\ DOMAIN pos = Procs /\ DOMAIN sequence = Cells
      /\ c \in Procs /\ q \in Procs /\ q # c /\ tail_ \in Words
  BY QueueAssumption DEF MqInv, MType, Procs
<1>2. Enqueuing(q)
  BY DEF MqInv, CallInv
<1>3. UNCHANGED tail_ /\ pc'[q] = pc[q] /\ pos'[q] = pos[q]
  BY <1>1 DEF Consumer, Dequeue, CheckReady, TakeHead, Read, Recycle, Return, Goto, At
<1>4. CASE Recycle(c)
  <2>1. /\ sequence' = [sequence EXCEPT ![CellOf(pos[c])] = Plus(pos[c], Capacity)]
        /\ Reading(c)
    BY <1>4 DEF Recycle, Reading
  <2>2. /\ pos[c] \in Words /\ Off(pos[c]) \in Claimed + 1 .. Capacity
        /\ sequence[CellOf(pos[c])] = Plus(pos[c], 1)
    BY <2>1, Holders DEF MqInv
  <2>3. ASSUME sequence[CellOf(tail_)] = tail_
        PROVE  sequence'[CellOf(tail_)] = tail_
    <3>1. Off(pos[c]) \in Claimed + 1 .. Capacity - 1
      BY <2>1, <2>3, FreeAtTail DEF MqInv
    <3>2. CellOf(pos[c]) # CellOf(tail_)
      <4> SUFFICES ASSUME CellOf(pos[c]) = CellOf(tail_)
                   PROVE  FALSE
        OBVIOUS
      <4>1. PICK u \in Words : Off(u) = Capacity /\ CellOf(u) = CellOf(tail_)
        BY <1>1, RoundAgo DEF Off
      <4>2. Claimed \in 0 .. Capacity /\ Capacity \in Nat \ {0}
        BY CellFactsOf, SizeFacts DEF MqInv
      <4>3. Off(u) \in 1 .. Capacity /\ Off(pos[c]) \in 1 .. Capacity
        BY <3>1, <4>1, <4>2
      <4>4. u = pos[c]
        BY <2>2, <4>1, <4>3, WindowCell DEF MqInv
      <4> QED BY <4>1, <4>2, <4>4, <3>1
    <3> QED BY <2>1, <2>3, <3>2
  <2> QED BY <2>3, <1>2, <1>3 DEF Enqueuing
<1>5. CASE ~Recycle(c)
  <2>1. UNCHANGED sequence
    BY <1>5 DEF Consumer, Dequeue, CheckReady, TakeHead, Read
  <2> QED BY <2>1, <1>2, <1>3 DEF Enqueuing
<1> QED BY <1>4, <1>5

\* What a consumer has seen survives the steps of producers ...
LEMMA DequeuingStays ==
  ASSUME Several, MqInv, MType', NEW p \in Producers, Producer(p), NEW d \in Consumers
  PROVE  Dequeuing(d)'
<1>1. /\ DOMAIN pc = Procs /\ DOMAIN pos = Procs /\ DOMAIN sequence = Cells
      /\ p \in Procs /\ d \in Procs /\ d # p /\ tail_ \in Words /\ head_ \in Words
  BY QueueAssumption DEF MqInv, MType, Procs
<1>2. Dequeuing(d)
  BY DEF MqInv, CallInv
<1>3. UNCHANGED <<head_, kind>> /\ pc'[d] = pc[d] /\ pos'[d] = pos[d]
  BY <1>1 DEF Producer, Enqueue, CheckFree, ClaimTail, Write, Publish, Return, Goto, At
<1>4. CASE Publish(p)
  <2>1. /\ sequence' = [sequence EXCEPT ![CellOf(pos[p])] = Plus(pos[p], 1)]
        /\ Writing(p)
    BY <1>4 DEF Publish, Writing
  <2>2. /\ pos[p] \in Words /\ Off(pos[p]) \in 1 .. Claimed /\ Off(pos[p]) \in 1 .. Capacity
    BY <2>1, Holders DEF MqInv
  <2>3. ASSUME Ready(head_)
        PROVE  Ready(head_)'
    <3>1. Claimed # 0 /\ Off(pos[p]) \in 1 .. Claimed - 1
      BY <2>1, <2>3, ReadyAtHead DEF MqInv
    <3>2. Off(head_) = Claimed /\ Claimed \in 0 .. Capacity /\ Capacity \in Nat
      BY CellFactsOf, SizeFacts DEF MqInv
    <3>3. CellOf(pos[p]) # CellOf(head_)
      <4>1. Off(head_) \in 1 .. Capacity /\ pos[p] # head_
        BY <3>1, <3>2
      <4> QED BY <4>1, <2>2, <1>1, WindowCell DEF MqInv
    <3> QED BY <2>1, <2>3, <3>3, <1>3 DEF Ready
  <2> QED BY <2>3, <1>2, <1>3 DEF Dequeuing, Mpsc
<1>5. CASE ~Publish(p)
  <2>1. UNCHANGED sequence
    BY <1>5 DEF Producer, Enqueue, CheckFree, ClaimTail, Write
  <2> QED BY <2>1, <1>2, <1>3 DEF Dequeuing, Ready, Mpsc
<1> QED BY <1>4, <1>5

\* ... and those of consumers.
LEMMA DequeuingStep ==
  ASSUME Several, MqInv, MType', NEW c \in Consumers, Mpsc => c = Sole, Consumer(c), NEW d \in Consumers
  PROVE  Dequeuing(d)'
<1>1. /\ DOMAIN pc = Procs /\ DOMAIN pos = Procs /\ DOMAIN sequence = Cells
      /\ c \in Procs /\ d \in Procs /\ head_ \in Words /\ pos[c] \in Words /\ pos[d] \in Words
  BY DEF MqInv, MType, Procs
<1>2. Dequeuing(c) /\ Dequeuing(d)
  BY DEF MqInv, CallInv
<1>3. Minus(head_, head_) <= MaxLag
  BY <1>1, NoDistance
<1>4. UNCHANGED kind
  BY DEF Consumer, Dequeue, CheckReady, TakeHead, Read, Recycle
<1>5. CASE Dequeue(c)
  BY <1>1, <1>2, <1>3, <1>4, <1>5 DEF Dequeue, Goto, At, Dequeuing, Ready, Mpsc
<1>6. CASE CheckReady(c)
  <2>1. Signed(sequence[CellOf(pos[c])], Plus(pos[c], 1)) = 0 => Ready(pos[c])
    <3>1. CellOf(pos[c]) \in Cells /\ sequence[CellOf(pos[c])] \in Words
      BY <1>1, CellFactsOf DEF MqInv, MType
    <3>2. Plus(pos[c], 1) \in Words
      BY <1>1, PlusFacts, SizeFacts
    <3> QED BY <1>1, <3>1, <3>2, SignedZero DEF Ready
  <2>2. CASE Signed(sequence[CellOf(pos[c])], Plus(pos[c], 1)) = 0 /\ Goto(c, "cas") /\ UNCHANGED <<pos, value>>
    <3>1. pc[c] = "seq" /\ UNCHANGED <<head_, sequence, pos>> /\ pc' = [pc EXCEPT ![c] = "cas"]
      BY <2>2, <1>6 DEF CheckReady, Goto
    <3> QED BY <1>1, <1>2, <1>4, <2>1, <2>2, <3>1 DEF Dequeuing, Ready, Mpsc
  <2>3. CASE Return(c)
    <3>1. UNCHANGED <<head_, sequence>> /\ pc' = [pc EXCEPT ![c] = "idle"] /\ pos' = [pos EXCEPT ![c] = 0]
      BY <2>3, <1>6 DEF CheckReady, Return, Goto, At
    <3> QED BY <1>1, <1>2, <1>4, <3>1 DEF Dequeuing, Ready, Mpsc
  <2>4. CASE At(c, head_) /\ UNCHANGED <<pc, value>>
    <3>1. pc[c] = "seq" /\ UNCHANGED <<head_, sequence, pc>> /\ pos' = [pos EXCEPT ![c] = head_]
      BY <2>4, <1>6 DEF CheckReady, At
    <3> QED BY <1>1, <1>2, <1>3, <1>4, <3>1 DEF Dequeuing, Ready, Mpsc
  <2> QED BY <1>6, <2>2, <2>3, <2>4 DEF CheckReady
<1>7. CASE TakeHead(c) /\ (head_ = pos[c] \/ Mpsc)
  <2>1. /\ head_' = Plus(head_, 1) /\ UNCHANGED <<pos, sequence>>
        /\ pc' = [pc EXCEPT ![c] = "read"] /\ InTime(c, head_)
    BY <1>2, <1>7 DEF TakeHead, Goto, Dequeuing
  <2>2. CASE d = c
    <3>1. pc'[d] = "read" /\ (Mpsc' => d = Sole)
      BY <2>1, <2>2, <1>1, <1>4 DEF Mpsc
    <3> QED BY <3>1 DEF Dequeuing
  <2>3. CASE d # c /\ pc[d] \in {"seq", "cas"}
    <3>1. Minus(head_, pos[d]) < MaxLag
      <4>1. d \notin Producers /\ c \notin Producers
        BY QueueAssumption
      <4> QED BY <2>1, <2>3, <4>1, <1>1 DEF InTime
    <3>2. ~Mpsc'
      BY <2>3, <1>2, <1>4 DEF Dequeuing, Mpsc
    <3>3. Minus(head_', pos'[d]) <= MaxLag /\ pos'[d] # head_'
      BY <3>1, <2>1, <1>1, NotOvertaken
    <3> QED BY <3>2, <3>3 DEF Dequeuing
  <2>4. CASE d # c /\ pc[d] \notin {"seq", "cas"}
    BY <2>1, <2>4, <1>1, <1>2, <1>4 DEF Dequeuing, Mpsc
  <2> QED BY <2>2, <2>3, <2>4
<1>8. CASE TakeHead(c) /\ ~(head_ = pos[c] \/ Mpsc)
  <2>1. /\ UNCHANGED <<head_, sequence>> /\ pc' = [pc EXCEPT ![c] = "seq"] /\ pos' = [pos EXCEPT ![c] = head_]
    BY <1>8 DEF TakeHead, Goto, At
  <2> QED BY <2>1, <1>1, <1>2, <1>3, <1>4, <1>8 DEF Dequeuing, Ready, Mpsc
<1>9. CASE Read(c)
  <2>1. /\ UNCHANGED <<head_, sequence, pos>> /\ pc' = [pc EXCEPT ![c] = "recycle"] /\ pc[c] = "read"
    BY <1>9 DEF Read, Goto
  <2> QED BY <2>1, <1>1, <1>2, <1>4 DEF Dequeuing, Ready, Mpsc
<1>10. CASE Recycle(c)
  <2>1. /\ sequence' = [sequence EXCEPT ![CellOf(pos[c])] = Plus(pos[c], Capacity)] /\ Reading(c)
        /\ UNCHANGED head_ /\ pc' = [pc EXCEPT ![c] = "idle"] /\ pos' = [pos EXCEPT ![c] = 0]
    BY <1>10 DEF Recycle, Reading, Return, Goto, At
  <2>2. /\ pos[c] \in Words /\ Off(pos[c]) \in Claimed + 1 .. Capacity /\ Off(pos[c]) \in 1 .. Capacity
    BY <2>1, Holders DEF MqInv
  <2>3. ASSUME Ready(head_)
        PROVE  Ready(head_)'
    <3>1. Claimed # 0
      BY <2>3, ReadyAtHead DEF MqInv
    <3>2. Off(head_) = Claimed /\ Claimed \in 0 .. Capacity /\ Capacity \in Nat
      BY CellFactsOf, SizeFacts DEF MqInv
    <3>3. CellOf(pos[c]) # CellOf(head_)
      <4>1. Off(head_) \in 1 .. Capacity /\ pos[c] # head_
        BY <3>1, <3>2, <2>2
      <4> QED BY <4>1, <2>2, <1>1, WindowCell DEF MqInv
    <3> QED BY <2>1, <2>3, <3>3 DEF Ready
  <2> QED BY <2>1, <2>3, <1>1, <1>2, <1>4 DEF Dequeuing, Mpsc
<1> QED BY <1>5, <1>6, <1>7, <1>8, <1>9, <1>10 DEF Consumer

\* Every step keeps the window.
LEMMA CellStep ==
  ASSUME Several, MqInv, MType', [Next]_vars
  PROVE  CellInv'
<1>1. DOMAIN pc = Procs /\ DOMAIN pos = Procs /\ Producers \cap Consumers = {} /\ MType /\ CellInv
  BY QueueAssumption DEF MqInv, MType
<1>2. ASSUME NEW p \in Producers, Producer(p)
      PROVE  CellInv'
  <2>1. p \in Procs
    BY DEF Procs
  <2>2. CASE Enqueue(p)
    BY <2>1, <2>2, <1>1, QuietStep DEF Enqueue, Goto, At, Writing, Reading
  <2>3. CASE CheckFree(p)
    BY <2>1, <2>3, <1>1, QuietStep DEF CheckFree, Return, Goto, At, Writing, Reading
  <2>4. CASE ClaimTail(p) /\ tail_ = pos[p]
    <3>1. sequence[CellOf(tail_)] = tail_
      BY <2>4 DEF ClaimTail, MqInv, CallInv, Enqueuing
    <3> QED BY <2>4, <3>1, <1>1, ClaimStep
  <2>5. CASE ClaimTail(p) /\ tail_ # pos[p]
    BY <2>1, <2>5, <1>1, QuietStep DEF ClaimTail, Goto, At, Writing, Reading
  <2>6. CASE Write(p)
    BY <2>1, <2>6, <1>1, QuietStep DEF Write, Goto, Writing, Reading
  <2>7. CASE Publish(p)
    BY <2>7, <1>1, PublishStep
  <2> QED BY <1>2, <2>2, <2>3, <2>4, <2>5, <2>6, <2>7 DEF Producer
<1>3. ASSUME NEW c \in Consumers, Consumer(c)
      PROVE  CellInv'
  <2>1. c \in Procs
    BY DEF Procs
  <2>2. CASE Dequeue(c)
    BY <2>1, <2>2, <1>1, QuietStep DEF Dequeue, Goto, At, Writing, Reading
  <2>3. CASE CheckReady(c)
    BY <2>1, <2>3, <1>1, QuietStep DEF CheckReady, Return, Goto, At, Writing, Reading
  <2>4. CASE TakeHead(c) /\ (head_ = pos[c] \/ Mpsc)
    <3>1. head_ = pos[c] /\ Ready(head_)
      BY <2>4 DEF TakeHead, MqInv, CallInv, Dequeuing
    <3> QED BY <2>4, <3>1, <1>1, TakeStep
  <2>5. CASE TakeHead(c) /\ ~(head_ = pos[c] \/ Mpsc)
    BY <2>1, <2>5, <1>1, QuietStep DEF TakeHead, Goto, At, Writing, Reading
  <2>6. CASE Read(c)
    BY <2>1, <2>6, <1>1, QuietStep DEF Read, Goto, Writing, Reading
  <2>7. CASE Recycle(c)
    BY <2>7, <1>1, RecycleStep
  <2> QED BY <1>3, <2>2, <2>3, <2>4, <2>5, <2>6, <2>7 DEF Consumer
<1>4. CASE UNCHANGED vars
  BY <1>4, <1>1, QuietStep DEF vars, Writing, Reading
<1> QED BY <1>2, <1>3, <1>4, QueueAssumption DEF Next

\* Every step keeps what the calls have seen.
LEMMA CallStep ==
  ASSUME Several, MqInv, MType', [Next]_vars
  PROVE  CallInv'
<1>1. CASE \E p \in Producers : Producer(p)
  BY <1>1, EnqueuingStep, DequeuingStays DEF CallInv
<1>2. CASE \E c \in IF Mpsc THEN {Sole} ELSE Consumers : Consumer(c)
  <2>1. PICK c \in Consumers : Consumer(c) /\ (Mpsc => c = Sole)
    BY <1>2, QueueAssumption
  <2> QED BY <2>1, EnqueuingStays, DequeuingStep DEF CallInv
<1>3. CASE UNCHANGED vars
  BY <1>3 DEF vars, MqInv, CallInv, Enqueuing, Dequeuing, Ready, Mpsc
<1> QED BY <1>1, <1>2, <1>3 DEF Next

\* In the new queue every cell is free for its first position.
LEMMA InitMq ==
  ASSUME Init
  PROVE  MqInv
<1>1. 0 \in Words /\ Cells \subseteq Words /\ Capacity \in Nat \ {0} /\ Width \in Nat
  BY SizeFacts DEF Words, Cells
<1>2. MType
  BY <1>1 DEF Init, MType, Writing, Reading, Procs
<1>3. Claimed = 0
  BY <1>1, NoDistance DEF Init, Claimed
<1>4. (\A p \in Producers : ~Writing(p)) /\ (\A c \in Consumers : ~Reading(c))
  BY DEF Init, Writing, Reading, Procs
<1>5. ASSUME NEW w \in Words, Off(w) \in 1 .. Capacity
      PROVE  sequence[CellOf(w)] = Plus(w, Capacity)
  <2>1. Minus(0, w) = IF 0 >= w THEN 0 - w ELSE 0 - w + Width
    BY <1>1, MinusFacts
  <2>2. Width - w \in 1 .. Capacity
    BY <2>1, <1>1, <1>5, SizeFacts DEF Init, Off, Words
  <2>3. Capacity \in 0 .. Capacity
    BY <1>1
  <2>4. Plus(w, Capacity) = w + Capacity - Width /\ Plus(w, Capacity) \in Cells
    BY <2>2, <2>3, <1>1, PlusFacts, SizeFacts DEF Words, Cells
  <2>5. CellOf(Plus(w, Capacity)) = Plus(w, Capacity)
    <3> DEFINE r == Plus(w, Capacity)
    <3>1. r \in Cells /\ r \in Nat /\ r = 0 * Capacity + r
      BY <2>4, <1>1 DEF Cells
    <3> HIDE DEF r
    <3>2. CellOf(r) = r
      BY <3>1, CellIs
    <3> QED BY <3>2 DEF r
  <2>6. CellOf(w) = Plus(w, Capacity)
    BY <2>5, CellPlus
  <2> QED BY <2>4, <2>6 DEF Init
<1>6. CellInv
  BY <1>1, <1>3, <1>4, <1>5 DEF CellInv, WriteInv, ReadInv
<1>7. CallInv
  BY DEF Init, CallInv, Enqueuing, Dequeuing, Procs
<1> QED BY <1>2, <1>6, <1>7 DEF MqInv

(* The invariant holds in every state, for every capacity above one and    *)
(* every number of producers and consumers: each position of the window is *)
(* free, written by its one producer, filled, or emptied by its one        *)
(* consumer, and the sequence number of its cell says which.               *)
THEOREM MqInvHolds == ASSUME Several PROVE Spec => []MqInv
<1>1. Init => MqInv
  BY InitMq
<1>2. MqInv /\ [Next]_vars => MqInv'
  <2>1. MqInv /\ [Next]_vars => MType'
    BY TypeStep DEF MqInv
  <2> QED BY <2>1, CellStep, CallStep DEF MqInv
<1> QED BY <1>1, <1>2, PTL DEF Spec

\* Two processes that hold a cell hold different ones.
LEMMA HoldersApart ==
  ASSUME MqInv, NEW p \in Procs, NEW q \in Procs, p # q,
         Writing(p) \/ Reading(p), Writing(q) \/ Reading(q)
  PROVE  CellOf(pos[p]) # CellOf(pos[q])
<1> SUFFICES ASSUME CellOf(pos[p]) = CellOf(pos[q])
             PROVE  FALSE
  OBVIOUS
<1>1. MType /\ CellInv /\ Claimed \in 0 .. Capacity /\ Capacity \in Nat
  BY SizeFacts DEF MqInv, CellInv
<1>2. /\ (p \in Producers /\ Writing(p)) \/ (p \in Consumers /\ Reading(p))
      /\ (q \in Producers /\ Writing(q)) \/ (q \in Consumers /\ Reading(q))
  BY <1>1 DEF MType, Procs
<1>3. pos[p] = pos[q]
  BY <1>1, <1>2, Holders, WindowCell
<1> QED BY <1>1, <1>2, <1>3, Holders DEF CellInv, WriteInv, ReadInv

(* The cells are plain memory: in every state of an execution, a producer  *)
(* between its compare-and-swap and its release store, and a consumer      *)
(* likewise, is alone in its cell.                                         *)
THEOREM NoTwoInOneCell == ASSUME Several PROVE Spec => []NoCellRace
<1>1. MqInv => NoCellRace
  BY HoldersApart DEF NoCellRace, Writing, Reading
<1> QED BY <1>1, MqInvHolds, PTL

-----------------------------------------------------------------------------
(* A call fails only when it should.                                       *)

\* A distance is a number below Width.
LEMMA MinusNat ==
  ASSUME NEW a \in Words, NEW b \in Words
  PROVE  Minus(a, b) \in Nat /\ Minus(a, b) < Width
  BY MinusFacts, SizeFacts DEF Words

\* A position that is behind, and the one of the last round in its cell.
LEMMA LastRound ==
  ASSUME NEW t \in Words, NEW w \in Words, Minus(t, w) # 0
  PROVE  \E u \in Words : /\ CellOf(u) = CellOf(w) /\ Minus(t, u) \in 1 .. Capacity
                          /\ Minus(u, w) = Minus(t, w) - Minus(t, u)
<1>0. Capacity \in Nat \ {0} /\ Width \in Nat \ {0}
  BY SizeFacts
<1>1. PICK e \in 1 .. Width - 1 : e = Minus(t, w) /\ e = (IF t >= w THEN t - w ELSE t - w + Width)
  <2>1. Minus(t, w) = (IF t >= w THEN t - w ELSE t - w + Width)
    BY MinusFacts
  <2>2. Minus(t, w) \in 1 .. Width - 1
    <3>1. Minus(t, w) \in Nat /\ Minus(t, w) < Width
      BY MinusNat
    <3> HIDE DEF Minus
    <3> QED BY <3>1, <1>0
  <2> QED BY <2>1, <2>2
<1>2. PICK k \in Nat, r \in Nat : r < Capacity /\ e - 1 = k * Capacity + r
  <2>1. \A x \in Nat : /\ x \div Capacity \in Nat /\ x % Capacity \in Nat /\ x % Capacity < Capacity
                       /\ x = (x \div Capacity) * Capacity + (x % Capacity)
    BY <1>0
  <2>2. e - 1 \in Nat
    BY <1>0
  <2> QED BY <2>1, <2>2
<1>3. PICK m \in Nat : m = k * Capacity
  BY <1>0
<1>4. e = m + r + 1
  BY <1>0, <1>2, <1>3
<1>5. PICK u \in Words : u = IF w + m < Width THEN w + m ELSE w + m - Width
  <2>1. (IF w + m < Width THEN w + m ELSE w + m - Width) \in Words
    BY <1>0, <1>4 DEF Words
  <2> QED BY <2>1
<1>6. Minus(t, u) = r + 1
  <2>1. Minus(t, u) = IF t >= u THEN t - u ELSE t - u + Width
    BY MinusFacts
  <2> HIDE DEF Minus
  <2> QED BY <2>1, <1>0, <1>1, <1>4, <1>5 DEF Words
<1>7. Minus(u, w) = m
  <2>1. Minus(u, w) = IF u >= w THEN u - w ELSE u - w + Width
    BY MinusFacts
  <2> QED BY <2>1, <1>0, <1>1, <1>4, <1>5 DEF Words
<1>8. CellOf(u) = CellOf(w)
  <2>1. PICK i \in Nat : w = i * Capacity + CellOf(w)
    BY CellFacts DEF Words
  <2>2. PICK n \in Nat : Width = n * Capacity
    BY SizeFacts
  <2>3. CellOf(w) \in Cells /\ CellOf(w) \in Nat /\ u \in Nat
    BY CellFacts, <1>0 DEF Words, Cells
  <2>4. u = (i + k) * Capacity + CellOf(w) \/ u = (i + k - n) * Capacity + CellOf(w)
    BY <2>1, <2>2, <2>3, <1>0, <1>3, <1>5
  <2>5. i + k \in Int /\ i + k - n \in Int
    OBVIOUS
  <2> QED BY <2>3, <2>4, <2>5, CellIs
<1>9. Minus(t, u) \in 1 .. Capacity /\ Minus(u, w) = Minus(t, w) - Minus(t, u)
  BY <1>0, <1>1, <1>2, <1>4, <1>6, <1>7
<1> QED BY <1>8, <1>9

\* Below half of Width, a number that is ahead compares greater.
LEMMA NotBehind ==
  ASSUME NEW a \in Words, NEW b \in Words, Minus(a, b) < MaxLag + Capacity
  PROVE  Signed(a, b) \in Int /\ Signed(a, b) >= 0
<1>1. Minus(a, b) \in Nat
  BY MinusNat
<1>2. MaxLag + Capacity <= Width \div 2
  BY SizeFacts
<1> QED BY <1>1, <1>2, SizeFacts DEF Signed

\* How far the numbers of a cell are ahead of a position behind it.
LEMMA Ahead ==
  ASSUME NEW w \in Words, NEW u \in Words, Minus(u, w) + Capacity < Width
  PROVE  /\ Minus(Plus(u, 1), w) = Minus(u, w) + 1
         /\ Minus(Plus(u, Capacity), w) = Minus(u, w) + Capacity
<1>1. 1 \in 0 .. Capacity /\ Capacity \in 0 .. Capacity
  BY SizeFacts
<1>2. \A n \in 0 .. Capacity : Minus(Plus(u, n), w) = Minus(u, w) + n
  <2> TAKE n \in 0 .. Capacity
  <2>1. /\ Plus(u, n) = IF u + n < Width THEN u + n ELSE u + n - Width
        /\ Plus(u, n) \in Words
    BY PlusFacts
  <2>2. Minus(Plus(u, n), w) = IF Plus(u, n) >= w THEN Plus(u, n) - w ELSE Plus(u, n) - w + Width
    BY <2>1, MinusFacts
  <2>3. Minus(u, w) = IF u >= w THEN u - w ELSE u - w + Width
    BY MinusFacts
  <2> HIDE DEF Minus, Plus
  <2> QED BY <2>1, <2>2, <2>3, SizeFacts DEF Words
<1> QED BY <1>1, <1>2

\* A negative difference means that the cell at tail_ itself is taken.
LEMMA FullWhenFailing ==
  ASSUME Several, MqInv, NEW p \in Producers, pc[p] = "seq",
         Signed(sequence[CellOf(pos[p])], pos[p]) < 0
  PROVE  Claimed = Capacity \/ \E c \in Recycling : CellOf(pos[c]) = CellOf(tail_)
<1>1. /\ pos[p] \in Words /\ tail_ \in Words /\ MType /\ CellInv
      /\ Claimed \in 0 .. Capacity /\ Capacity \in Nat \ {0} /\ Width \in Nat /\ MaxLag \in Nat
      /\ Width >= 2 * MaxLag + 2 * Capacity
  BY CellFactsOf, SizeFacts DEF MqInv, MType, Procs
<1>2. Minus(tail_, pos[p]) <= MaxLag
  BY DEF MqInv, CallInv, Enqueuing
<1>3. CASE Minus(tail_, pos[p]) # 0
  <2>1. PICK u \in Words : /\ CellOf(u) = CellOf(pos[p]) /\ Off(u) \in 1 .. Capacity
                           /\ Minus(u, pos[p]) = Minus(tail_, pos[p]) - Off(u)
    BY <1>1, <1>3, LastRound DEF Off
  <2>2. /\ Minus(u, pos[p]) \in Nat /\ Minus(u, pos[p]) < MaxLag /\ Minus(u, pos[p]) + Capacity < Width
    <3>1. Minus(u, pos[p]) \in Nat /\ Minus(tail_, pos[p]) \in Nat
      BY <1>1, MinusNat
    <3> HIDE DEF Minus
    <3> QED BY <3>1, <2>1, <1>1, <1>2
  <2>3. /\ Minus(Plus(u, 1), pos[p]) = Minus(u, pos[p]) + 1
        /\ Minus(Plus(u, Capacity), pos[p]) = Minus(u, pos[p]) + Capacity
    BY <2>2, <1>1, Ahead
  <2>4. /\ Minus(u, pos[p]) < MaxLag + Capacity /\ Minus(Plus(u, 1), pos[p]) < MaxLag + Capacity
        /\ Minus(Plus(u, Capacity), pos[p]) < MaxLag + Capacity
    BY <2>2, <2>3, <1>1 DEF Several
  <2>5. sequence[CellOf(u)] \in {u, Plus(u, 1), Plus(u, Capacity)}
    <3>1. CASE Off(u) \in 1 .. Claimed
      BY <3>1 DEF CellInv, WriteInv, MqInv, Ready
    <3>2. CASE Off(u) \in Claimed + 1 .. Capacity
      BY <3>2 DEF CellInv, ReadInv, MqInv
    <3> QED BY <3>1, <3>2, <2>1, <1>1
  <2>6. sequence[CellOf(pos[p])] \in Words /\ Minus(sequence[CellOf(pos[p])], pos[p]) < MaxLag + Capacity
    BY <2>1, <2>4, <2>5, <1>1, PlusFacts
  <2>7. /\ Signed(sequence[CellOf(pos[p])], pos[p]) \in Int
        /\ Signed(sequence[CellOf(pos[p])], pos[p]) >= 0
    BY <2>6, <1>1, NotBehind
  <2> QED BY <2>7
<1>4. CASE Minus(tail_, pos[p]) = 0
  <2>1. pos[p] = tail_
    BY <1>1, <1>4, OneFurther
  <2>2. PICK u \in Words : Off(u) = Capacity /\ Plus(u, Capacity) = tail_ /\ CellOf(u) = CellOf(tail_)
    BY <1>1, RoundAgo DEF Off
  <2>3. sequence[CellOf(tail_)] # tail_
    <3>1. Signed(tail_, tail_) = 0
      BY <1>1, SignedZero
    <3> QED BY <3>1, <2>1
  <2>4. Claimed = Capacity \/ Off(u) \in Claimed + 1 .. Capacity
    BY <2>2, <1>1
  <2>5. ASSUME Off(u) \in Claimed + 1 .. Capacity
        PROVE  \E c \in Recycling : CellOf(pos[c]) = CellOf(tail_)
    <3>1. \E c \in Consumers : Reading(c) /\ pos[c] = u
      BY <2>2, <2>3, <2>5 DEF MqInv, CellInv, ReadInv
    <3> QED BY <3>1, <2>2 DEF Recycling, Reading
  <2> QED BY <2>4, <2>5
<1> QED BY <1>3, <1>4

\* A negative difference, or any but zero in an mpsc queue, means that the
\* cell at head_ is not published.
LEMMA EmptyWhenFailing ==
  ASSUME Several, MqInv, NEW c \in Consumers, pc[c] = "seq",
         \/ Signed(sequence[CellOf(pos[c])], Plus(pos[c], 1)) < 0
         \/ Signed(sequence[CellOf(pos[c])], Plus(pos[c], 1)) > 0 /\ Mpsc
  PROVE  ~Ready(head_)
<1>1. /\ pos[c] \in Words /\ tail_ \in Words /\ head_ \in Words /\ MType /\ CellInv
      /\ Claimed \in 0 .. Capacity /\ Capacity \in Nat \ {0} /\ Width \in Nat /\ MaxLag \in Nat
      /\ Width >= 2 * MaxLag + 2 * Capacity
  BY CellFactsOf, SizeFacts DEF MqInv, MType, Procs
<1>2. Minus(head_, pos[c]) <= MaxLag /\ (Mpsc => pos[c] = head_)
  BY DEF MqInv, CallInv, Dequeuing
<1>3. CASE pos[c] = head_
  <2>1. Plus(head_, 1) \in Words
    BY <1>1, PlusFacts
  <2>2. Signed(Plus(head_, 1), Plus(head_, 1)) = 0
    BY <2>1, SignedZero
  <2> QED BY <2>2, <1>3 DEF Ready
<1>4. CASE pos[c] # head_
  <2> DEFINE lag == Minus(head_, pos[c])
             w   == Plus(pos[c], 1)
  <2>0. lag \in 1 .. MaxLag
    <3>1. lag \in Nat /\ lag # 0 /\ lag <= MaxLag
      BY <1>1, <1>2, <1>4, MinusNat, OneFurther
    <3> HIDE DEF lag
    <3> QED BY <3>1, <1>1
  <2>1. Minus(tail_, pos[c]) = Claimed + lag
    <3>1. Minus(tail_, head_) = IF tail_ >= head_ THEN tail_ - head_ ELSE tail_ - head_ + Width
      BY <1>1, MinusFacts
    <3>2. Minus(head_, pos[c]) = IF head_ >= pos[c] THEN head_ - pos[c] ELSE head_ - pos[c] + Width
      BY <1>1, MinusFacts
    <3>3. Minus(tail_, pos[c]) = IF tail_ >= pos[c] THEN tail_ - pos[c] ELSE tail_ - pos[c] + Width
      BY <1>1, MinusFacts
    <3>4. Minus(tail_, head_) \in 0 .. Capacity /\ Minus(head_, pos[c]) \in 1 .. MaxLag
      BY <1>1, <2>0 DEF Claimed
    <3> HIDE DEF Minus, Plus
    <3> QED BY <3>1, <3>2, <3>3, <3>4, <1>1 DEF Words, Claimed
  <2>2. PICK u \in Words : /\ CellOf(u) = CellOf(pos[c]) /\ Off(u) \in 1 .. Capacity
                           /\ Minus(u, pos[c]) = Minus(tail_, pos[c]) - Off(u)
    <3>1. Minus(tail_, pos[c]) # 0
      BY <2>0, <2>1, <1>1
    <3> QED BY <3>1, <1>1, LastRound DEF Off
  <2> DEFINE x == Minus(u, pos[c])
  <2>3. x \in Nat /\ x = Claimed + lag - Off(u)
    BY <2>1, <2>2, <1>1, MinusNat
  <2>4. x + Capacity < Width
    BY <2>0, <2>2, <2>3, <1>1
  <2>5. /\ Minus(Plus(u, 1), pos[c]) = x + 1
        /\ Minus(Plus(u, Capacity), pos[c]) = x + Capacity
    BY <2>4, <1>1, Ahead
  <2> DEFINE s == sequence[CellOf(u)]
  <2>6. s \in Words /\ s = sequence[CellOf(pos[c])]
    BY <2>2, <1>1, CellFactsOf DEF MType
  <2>7. Minus(s, pos[c]) \in 1 .. MaxLag + Capacity
    <3>1. CASE Off(u) \in 1 .. Claimed
      <4>1. s \in {u, Plus(u, 1)}
        BY <3>1 DEF CellInv, WriteInv, MqInv, Ready
      <4>2. Minus(s, pos[c]) \in {x, x + 1}
        BY <4>1, <2>5
      <4>3. x >= 1
        BY <3>1, <2>0, <2>3, <1>1
      <4> HIDE DEF x, lag, s
      <4> QED BY <4>2, <4>3, <3>1, <2>0, <2>3, <1>1
    <3>2. CASE Off(u) \in Claimed + 1 .. Capacity
      <4>1. s \in {Plus(u, 1), Plus(u, Capacity)}
        BY <3>2 DEF CellInv, ReadInv, MqInv
      <4>2. Minus(s, pos[c]) \in {x + 1, x + Capacity}
        BY <4>1, <2>5
      <4> HIDE DEF x, lag, s
      <4> QED BY <4>2, <3>2, <2>0, <2>3, <1>1
    <3> QED BY <3>1, <3>2, <2>2, <1>1
  <2>8. w \in Words /\ Minus(s, w) = Minus(s, pos[c]) - 1
    <3>1. w \in Words
      BY <1>1, PlusFacts
    <3>2. Minus(s, pos[c]) # 0
      BY <2>7
    <3> QED BY <3>1, <3>2, <2>6, <1>1, OneFurther
  <2>9. Minus(s, w) < MaxLag + Capacity
    <3> HIDE DEF s, w
    <3> QED BY <2>7, <2>8, <1>1
  <2>10. Signed(s, w) \in Int /\ Signed(s, w) >= 0
    BY <2>6, <2>8, <2>9, NotBehind
  <2>11. ~Mpsc
    BY <1>2, <1>4
  <2> QED BY <2>6, <2>10, <2>11
<1> QED BY <1>3, <1>4

(* try_enqueue returns false only when the cell next in turn is claimed or *)
(* still being emptied, and try_dequeue only when nothing is published at  *)
(* head_, also for a call that has fallen behind other calls.              *)
THEOREM FailuresAreDue == ASSUME Several PROVE Spec => FailsOnlyWhenDue
<1>1. MqInv /\ [Next]_vars =>
        [/\ \A p \in Producers : pc[p] = "seq" /\ pc'[p] = "idle" =>
              \/ Claimed = Capacity
              \/ \E c \in Recycling : CellOf(pos[c]) = CellOf(tail_)
         /\ \A c \in Consumers : pc[c] = "seq" /\ pc'[c] = "idle" =>
              Claimed = 0 \/ ~Ready(head_)]_vars
  <2> SUFFICES ASSUME MqInv, [Next]_vars
               PROVE  /\ \A p \in Producers : pc[p] = "seq" /\ pc'[p] = "idle" =>
                            \/ Claimed = Capacity
                            \/ \E c \in Recycling : CellOf(pos[c]) = CellOf(tail_)
                      /\ \A c \in Consumers : pc[c] = "seq" /\ pc'[c] = "idle" =>
                            Claimed = 0 \/ ~Ready(head_)
    OBVIOUS
  <2>1. DOMAIN pc = Procs /\ Producers \cap Consumers = {} /\ Sole \in Consumers
    BY QueueAssumption DEF MqInv, MType
  <2>2. ASSUME NEW q \in Procs, pc[q] = "seq", pc'[q] = "idle"
        PROVE  \/ q \in Producers /\ Signed(sequence[CellOf(pos[q])], pos[q]) < 0
               \/ q \in Consumers /\ \/ Signed(sequence[CellOf(pos[q])], Plus(pos[q], 1)) < 0
                                     \/ Signed(sequence[CellOf(pos[q])], Plus(pos[q], 1)) > 0 /\ Mpsc
    <3>1. CASE \E p \in Producers : Producer(p)
      <4>1. PICK p \in Producers : Producer(p)
        BY <3>1
      <4>2. q = p /\ CheckFree(p)
        BY <4>1, <2>1, <2>2 DEF Producer, Enqueue, CheckFree, ClaimTail, Write, Publish, Return, Goto, Procs
      <4>3. Signed(sequence[CellOf(pos[p])], pos[p]) < 0
        BY <4>2, <2>1, <2>2 DEF CheckFree, Goto, Procs
      <4> QED BY <4>2, <4>3
    <3>2. CASE \E c \in IF Mpsc THEN {Sole} ELSE Consumers : Consumer(c)
      <4>1. PICK c \in Consumers : Consumer(c)
        BY <3>2, <2>1
      <4>2. q = c /\ CheckReady(c)
        BY <4>1, <2>1, <2>2 DEF Consumer, Dequeue, CheckReady, TakeHead, Read, Recycle, Return, Goto, Procs
      <4>3. \/ Signed(sequence[CellOf(pos[c])], Plus(pos[c], 1)) < 0
            \/ Signed(sequence[CellOf(pos[c])], Plus(pos[c], 1)) > 0 /\ Mpsc
        BY <4>2, <2>1, <2>2 DEF CheckReady, Goto, Procs
      <4> QED BY <4>2, <4>3
    <3>3. CASE UNCHANGED vars
      BY <3>3, <2>2 DEF vars
    <3> QED BY <3>1, <3>2, <3>3 DEF Next
  <2>3. ASSUME NEW p \in Producers, pc[p] = "seq", pc'[p] = "idle"
        PROVE  Claimed = Capacity \/ \E c \in Recycling : CellOf(pos[c]) = CellOf(tail_)
    BY <2>1, <2>2, <2>3, FullWhenFailing DEF Procs
  <2>4. ASSUME NEW c \in Consumers, pc[c] = "seq", pc'[c] = "idle"
        PROVE  ~Ready(head_)
    BY <2>1, <2>2, <2>4, EmptyWhenFailing DEF Procs
  <2> QED BY <2>3, <2>4
<1> QED BY <1>1, MqInvHolds, PTL DEF Spec, FailsOnlyWhenDue

-----------------------------------------------------------------------------
(* The cells implement a queue of slots.                                   *)

\* A function on 1 .. n is a sequence; one element more or less.
LEMMA AsSequence ==
  ASSUME NEW n \in Nat, NEW s, s = [k \in 1 .. n |-> s[k]]
  PROVE  s \in Seq({s[k] : k \in 1 .. n}) /\ Len(s) = n
<1> DEFINE T == {s[k] : k \in 1 .. n}
<1>1. \A k \in 1 .. n : s[k] \in T
  OBVIOUS
<1>2. s \in [1 .. n -> T]
  BY <1>1
<1> HIDE DEF T
<1>3. s \in Seq(T)
  BY <1>2
<1>4. DOMAIN s = 1 .. n /\ DOMAIN s = 1 .. Len(s) /\ Len(s) \in Nat
  BY <1>2, <1>3, LenProperties
<1>5. Len(s) = n
  BY <1>4
<1> QED BY <1>3, <1>5 DEF T

\* A function on one number more is the sequence with one element more ...
LEMMA OneMore ==
  ASSUME NEW n \in Nat, NEW s, NEW t, NEW e,
         s = [k \in 1 .. n |-> s[k]], t = [k \in 1 .. n + 1 |-> t[k]],
         \A k \in 1 .. n : t[k] = s[k], t[n + 1] = e
  PROVE  Len(s) = n /\ t = Append(s, e)
<1> DEFINE T == {s[k] : k \in 1 .. n} \cup {t[k] : k \in 1 .. n + 1}
<1>1. s \in Seq({s[k] : k \in 1 .. n}) /\ Len(s) = n
  BY AsSequence
<1>2. t \in Seq({t[k] : k \in 1 .. n + 1}) /\ Len(t) = n + 1
  BY AsSequence
<1>3. s \in [1 .. n -> T] /\ t \in [1 .. n + 1 -> T] /\ e \in T
  OBVIOUS
<1> HIDE DEF T
<1>4. s \in Seq(T) /\ t \in Seq(T)
  BY <1>3
<1>5. /\ Append(s, e) \in Seq(T) /\ Len(Append(s, e)) = n + 1
      /\ \A i \in 1 .. n : Append(s, e)[i] = s[i]
      /\ Append(s, e)[n + 1] = e
  BY <1>1, <1>3, <1>4
<1>6. \A i \in 1 .. Len(t) : t[i] = Append(s, e)[i]
  <2> TAKE i \in 1 .. Len(t)
  <2>1. i \in 1 .. n \/ i = n + 1
    BY <1>2
  <2> QED BY <2>1, <1>5
<1>7. t = Append(s, e)
  BY <1>2, <1>4, <1>5, <1>6, SeqEqual
<1> QED BY <1>1, <1>7

\* ... and on one number less, its tail.
LEMMA OneLess ==
  ASSUME NEW n \in Nat, NEW s, NEW t,
         s = [k \in 1 .. n + 1 |-> s[k]], t = [k \in 1 .. n |-> t[k]],
         \A k \in 1 .. n : t[k] = s[k + 1]
  PROVE  s # <<>> /\ Head(s) = s[1] /\ t = Tail(s)
<1> DEFINE T == {s[k] : k \in 1 .. n + 1} \cup {t[k] : k \in 1 .. n}
<1>1. s \in Seq({s[k] : k \in 1 .. n + 1}) /\ Len(s) = n + 1
  BY AsSequence
<1>2. t \in Seq({t[k] : k \in 1 .. n}) /\ Len(t) = n
  BY AsSequence
<1>3. s \in [1 .. n + 1 -> T] /\ t \in [1 .. n -> T]
  OBVIOUS
<1> HIDE DEF T
<1>4. s \in Seq(T) /\ t \in Seq(T)
  BY <1>3
<1>5. s # <<>>
  BY <1>1
<1>6. Tail(s) \in Seq(T) /\ Len(Tail(s)) = n /\ \A i \in 1 .. n : Tail(s)[i] = s[i + 1]
  <2>1. Len(s) - 1 = n
    BY <1>1
  <2> QED BY <2>1, <1>4, <1>5, HeadTailProperties
<1>7. \A i \in 1 .. Len(t) : t[i] = Tail(s)[i]
  BY <1>2, <1>6
<1>8. t = Tail(s)
  BY <1>2, <1>4, <1>6, <1>7, SeqEqual
<1>9. Head(s) = s[1]
  OBVIOUS
<1> QED BY <1>5, <1>8, <1>9

\* The one element that a choice can mean.
LEMMA TheOnly ==
  ASSUME NEW f, NEW g, NEW w, NEW p \in Producers,
         f[p] \in {"write", "publish"}, g[p] = w,
         \A q \in Producers : f[q] \in {"write", "publish"} /\ g[q] = w => q = p
  PROVE  (CHOOSE q \in Producers : f[q] \in {"write", "publish"} /\ g[q] = w) = p
  OBVIOUS

\* The k-th claimed position and its slot.
Place(k)  == Plus(head_, k - 1)
SlotAt(w) == [owner |-> Owner(w),
              item  |-> IF Ready(w) THEN cell[CellOf(w)] ELSE Blank,
              ready |-> Ready(w)]

\* The words that n steps and one more step lead to.
LEMMA PlusPlus ==
  ASSUME NEW a \in Words, NEW n \in 0 .. Capacity - 1
  PROVE  Plus(Plus(a, 1), n) = Plus(a, n + 1)
<1>1. 1 \in 0 .. Capacity /\ n \in 0 .. Capacity /\ n + 1 \in 0 .. Capacity
  BY SizeFacts
<1>2. /\ Plus(a, 1) = (IF a + 1 < Width THEN a + 1 ELSE a + 1 - Width) /\ Plus(a, 1) \in Words
      /\ Plus(a, n + 1) = (IF a + (n + 1) < Width THEN a + (n + 1) ELSE a + (n + 1) - Width)
  BY <1>1, PlusFacts
<1>3. Plus(Plus(a, 1), n) = (IF Plus(a, 1) + n < Width THEN Plus(a, 1) + n ELSE Plus(a, 1) + n - Width)
  BY <1>1, <1>2, PlusFacts
<1> HIDE DEF Plus
<1> QED BY <1>2, <1>3, SizeFacts DEF Words

\* The places from a word h up to a word t.
LEMMA Places ==
  ASSUME NEW h \in Words, NEW t \in Words, Minus(t, h) <= Capacity
  PROVE  /\ \A k \in 1 .. Minus(t, h) :
              Plus(h, k - 1) \in Words /\ Minus(t, Plus(h, k - 1)) = Minus(t, h) - k + 1
         /\ Plus(h, Minus(t, h)) = t
         /\ Plus(h, 0) = h
<1>1. Minus(t, h) = (IF t >= h THEN t - h ELSE t - h + Width) /\ Minus(t, h) \in Nat
  BY MinusFacts, MinusNat
<1>2. ASSUME NEW k \in 1 .. Minus(t, h)
      PROVE  Plus(h, k - 1) \in Words /\ Minus(t, Plus(h, k - 1)) = Minus(t, h) - k + 1
  <2>1. k - 1 \in 0 .. Capacity
    BY <1>1, SizeFacts
  <2>2. /\ Plus(h, k - 1) = IF h + (k - 1) < Width THEN h + (k - 1) ELSE h + (k - 1) - Width
        /\ Plus(h, k - 1) \in Words
    BY <2>1, PlusFacts
  <2>3. Minus(t, Plus(h, k - 1)) = IF t >= Plus(h, k - 1) THEN t - Plus(h, k - 1) ELSE t - Plus(h, k - 1) + Width
    BY <2>2, MinusFacts
  <2> HIDE DEF Minus, Plus
  <2> QED BY <2>2, <2>3, <1>1, SizeFacts DEF Words
<1>3. Plus(h, Minus(t, h)) = t
  <2>1. Minus(t, h) \in 0 .. Capacity
    BY <1>1, SizeFacts
  <2>2. Plus(h, Minus(t, h)) = IF h + Minus(t, h) < Width THEN h + Minus(t, h) ELSE h + Minus(t, h) - Width
    BY <2>1, PlusFacts
  <2> HIDE DEF Minus, Plus
  <2> QED BY <2>2, <1>1, SizeFacts DEF Words
<1>4. Plus(h, 0) = h
  <2>1. 0 \in 0 .. Capacity
    BY SizeFacts
  <2>2. Plus(h, 0) = IF h + 0 < Width THEN h + 0 ELSE h + 0 - Width
    BY <2>1, PlusFacts
  <2> QED BY <2>2, SizeFacts DEF Words
<1> QED BY <1>2, <1>3, <1>4

\* The slots are a sequence of Claimed slots, at their places.
LEMMA SlotsAre ==
  /\ Slots = [k \in 1 .. Claimed |-> Slots[k]]
  /\ \A k \in 1 .. Claimed : Slots[k] = SlotAt(Place(k))
  BY DEF Slots, SlotAt, Place

\* The same after a step.
LEMMA SlotsAreNext ==
  /\ Slots' = [k \in 1 .. Claimed' |-> Slots'[k]]
  /\ \A k \in 1 .. Claimed' : Slots'[k] = SlotAt(Place(k))'
  BY DEF Slots, SlotAt, Place

\* What a producer is about to publish is what it was given.
ValueInv ==
  \A p \in Producers :
    /\ pc[p] # "idle" => value[p] \in Items
    /\ pc[p] = "publish" => cell[CellOf(pos[p])] = value[p]

\* Every step keeps the values.
LEMMA ValueStep ==
  ASSUME MqInv, ValueInv, [Next]_vars
  PROVE  ValueInv'
<1>1. /\ DOMAIN pc = Procs /\ DOMAIN pos = Procs /\ DOMAIN value = Producers /\ DOMAIN cell = Cells
      /\ Producers \cap Consumers = {} /\ Producers \subseteq Procs /\ Consumers \subseteq Procs
      /\ \A p \in Procs : CellOf(pos[p]) \in Cells
  BY QueueAssumption, CellFactsOf DEF MqInv, MType, Procs
<1>2. ASSUME NEW p \in Producers, Producer(p), NEW q \in Producers
      PROVE  /\ pc'[q] # "idle" => value'[q] \in Items
             /\ pc'[q] = "publish" => cell'[CellOf(pos'[q])] = value'[q]
  <2>1. CASE Enqueue(p)
    BY <2>1, <1>1 DEF Enqueue, Goto, At, ValueInv
  <2>2. CASE CheckFree(p)
    BY <2>2, <1>1 DEF CheckFree, Return, Goto, At, ValueInv
  <2>3. CASE ClaimTail(p)
    BY <2>3, <1>1 DEF ClaimTail, Goto, At, ValueInv
  <2>4. CASE Write(p)
    <3>1. pc[q] = "publish" /\ q # p => CellOf(pos[q]) # CellOf(pos[p])
      BY <2>4, <1>1, HoldersApart DEF Write, Writing
    <3> QED BY <2>4, <3>1, <1>1 DEF Write, Goto, ValueInv
  <2>5. CASE Publish(p)
    BY <2>5, <1>1 DEF Publish, Return, Goto, At, ValueInv
  <2> QED BY <1>2, <2>1, <2>2, <2>3, <2>4, <2>5 DEF Producer
<1>3. ASSUME NEW c \in Consumers, Consumer(c), NEW q \in Producers
      PROVE  /\ pc'[q] # "idle" => value'[q] \in Items
             /\ pc'[q] = "publish" => cell'[CellOf(pos'[q])] = value'[q]
  <2>1. q # c /\ UNCHANGED cell
    BY <1>1, <1>3 DEF Consumer, Dequeue, CheckReady, TakeHead, Read, Recycle
  <2>2. pc'[q] = pc[q] /\ pos'[q] = pos[q] /\ value'[q] = value[q]
    BY <2>1, <1>1, <1>3 DEF Consumer, Dequeue, CheckReady, TakeHead, Read, Recycle, Return, Goto, At
  <2> QED BY <2>1, <2>2 DEF ValueInv
<1>4. CASE UNCHANGED vars
  BY <1>4 DEF vars, ValueInv
<1> QED BY <1>1, <1>2, <1>3, <1>4, QueueAssumption DEF Next, ValueInv

\* The owner of a claimed place is the producer writing there.
LEMMA OwnerIs ==
  ASSUME Several, MqInv, NEW p \in Producers, Writing(p)
  PROVE  Owner(pos[p]) = p /\ ~Ready(pos[p])
<1>1. pos[p] \in Words /\ sequence[CellOf(pos[p])] = pos[p]
  BY Holders DEF MqInv
<1>2. ~Ready(pos[p])
  BY <1>1, Numbers DEF Ready
<1>3. \A q \in Producers : pc[q] \in {"write", "publish"} /\ pos[q] = pos[p] => q = p
  BY DEF MqInv, CellInv, WriteInv, Writing
<1>4. (CHOOSE q \in Producers : pc[q] \in {"write", "publish"} /\ pos[q] = pos[p]) = p
  BY <1>3, TheOnly DEF Writing
<1> QED BY <1>2, <1>4 DEF Owner

\* A slot whose number, item and producer stay is the same slot.
LEMMA SameSlot ==
  ASSUME Several, MqInv, NEW w \in Words, Off(w) \in 1 .. Claimed,
         sequence'[CellOf(w)] = sequence[CellOf(w)],
         Ready(w) => cell'[CellOf(w)] = cell[CellOf(w)],
         \A q \in Producers : (Writing(q) /\ pos[q] = w)' <=> Writing(q) /\ pos[q] = w
  PROVE  SlotAt(w)' = SlotAt(w)
<1>1. CASE Ready(w)
  BY <1>1 DEF SlotAt, Owner, Ready
<1>2. CASE ~Ready(w)
  <2>1. PICK p \in Producers : Writing(p) /\ pos[p] = w
    BY <1>2 DEF MqInv, CellInv, WriteInv
  <2>2. Owner(w) = p
    BY <2>1, OwnerIs
  <2>3. \A q \in Producers : pc'[q] \in {"write", "publish"} /\ pos'[q] = w => q = p
    BY <2>1 DEF MqInv, CellInv, WriteInv, Writing
  <2>4. pc'[p] \in {"write", "publish"} /\ pos'[p] = w
    BY <2>1 DEF Writing
  <2>5. (CHOOSE q \in Producers : pc'[q] \in {"write", "publish"} /\ pos'[q] = w) = p
    BY <2>3, <2>4, TheOnly
  <2>6. ~Ready(w)'
    BY <1>2 DEF Ready
  <2>7. Owner(w)' = p
    BY <2>5, <2>6 DEF Owner
  <2>8. Ready(w) = FALSE /\ Ready(w)' = FALSE
    BY <1>2, <2>6 DEF Ready
  <2> QED BY <2>2, <2>7, <2>8 DEF SlotAt
<1> QED BY <1>1, <1>2

\* The places between head_ and tail_.
LEMMA PlaceFacts ==
  ASSUME MqInv
  PROVE  /\ \A k \in 1 .. Claimed : Place(k) \in Words /\ Off(Place(k)) = Claimed - k + 1
         /\ Place(Claimed + 1) = tail_
         /\ Place(1) = head_
         /\ Claimed \in 0 .. Capacity /\ Capacity \in Nat /\ Claimed \in Nat
<1>1. head_ \in Words /\ tail_ \in Words /\ Claimed \in 0 .. Capacity /\ Capacity \in Nat
  BY SizeFacts DEF MqInv, MType, CellInv
<1>2. Claimed + 1 - 1 = Claimed /\ Minus(tail_, head_) <= Capacity /\ 1 - 1 = 0 /\ Claimed \in Nat
  BY <1>1 DEF Claimed
<1> QED BY <1>1, <1>2, Places DEF Place, Off, Claimed

\* The place of a position in the window.
LEMMA PlaceOf ==
  ASSUME MqInv, NEW w \in Words, Off(w) \in 1 .. Claimed
  PROVE  \E k \in 1 .. Claimed : Place(k) = w
<1>1. PICK k \in 1 .. Claimed : k = Claimed - Off(w) + 1
  BY PlaceFacts
<1>2. Off(Place(k)) = Off(w) /\ Place(k) \in Words
  BY <1>1, PlaceFacts
<1>3. Place(k) = w
  BY <1>2, SameDistance DEF Off, MqInv, MType
<1> QED BY <1>3

\* The slots stay when the words, the numbers and the items in them do.
LEMMA SlotsStay ==
  ASSUME Several, MqInv, UNCHANGED <<tail_, head_, sequence>>,
         \A q \in Producers : (Writing(q)' <=> Writing(q)) /\ (Writing(q) => pos'[q] = pos[q]),
         \A w \in Words : Off(w) \in 1 .. Claimed /\ Ready(w) => cell'[CellOf(w)] = cell[CellOf(w)]
  PROVE  Slots' = Slots
<1>1. Claimed' = Claimed
  BY DEF Claimed
<1>2. ASSUME NEW k \in 1 .. Claimed
      PROVE  Slots'[k] = Slots[k]
  <2>1. Place(k) \in Words /\ Off(Place(k)) \in 1 .. Claimed
    BY PlaceFacts
  <2>2. PICK w \in Words : w = Place(k) /\ Off(w) \in 1 .. Claimed
    BY <2>1
  <2>3. SlotAt(w)' = SlotAt(w)
    BY <2>2, SameSlot
  <2>4. Place(k)' = w
    BY <2>2 DEF Place
  <2> QED BY <1>1, <2>2, <2>3, <2>4, SlotsAre, SlotsAreNext DEF SlotAt
<1> QED BY <1>1, <1>2, SlotsAre, SlotsAreNext

\* Readers stand on different places among the taken ones.
LEMMA FewRecycling ==
  ASSUME Several, MqInv, sequence[CellOf(tail_)] = tail_
  PROVE  Claimed + Cardinality(Recycling) < Capacity
<1>1. Claimed \in Nat /\ Capacity \in Nat /\ Claimed < Capacity
  BY PlaceFacts, FreeAtTail DEF MqInv
<1>2. \A c \in Recycling : c \in Consumers /\ Reading(c) /\ pos[c] \in Words
                          /\ Off(pos[c]) \in Claimed + 1 .. Capacity - 1
  BY FreeAtTail, Holders DEF Recycling, Reading, MqInv
<1> DEFINE f == [c \in Recycling |-> Off(pos[c])]
           T == Claimed + 1 .. Capacity - 1
<1>3. f \in [Recycling -> T]
  BY <1>2
<1>4. \A c, d \in Recycling : f[c] = f[d] => c = d
  <2> TAKE c, d \in Recycling
  <2>1. HAVE f[c] = f[d]
  <2>2. Off(pos[c]) = Off(pos[d])
    BY <2>1
  <2>3. pos[c] = pos[d]
    BY <2>2, <1>2, SameDistance DEF Off, MqInv, MType
  <2> QED BY <2>3, <1>2 DEF MqInv, CellInv, ReadInv
<1>5. f \in Injection(Recycling, T)
  <2> HIDE DEF f, T
  <2> QED BY <1>3, <1>4 DEF Injection, IsInjective
<1>6. IsFiniteSet(T) /\ Cardinality(T) = Capacity - 1 - Claimed
  <2>1. Claimed + 1 \in Int /\ Capacity - 1 \in Int
    BY <1>1
  <2>2. IsFiniteSet(T) /\ Cardinality(T) = IF Claimed + 1 > Capacity - 1 THEN 0
                                           ELSE Capacity - 1 - (Claimed + 1) + 1
    BY <2>1, FS_Interval
  <2> QED BY <2>2, <1>1
<1> HIDE DEF f, T
<1>7. IsFiniteSet(Recycling) /\ Cardinality(Recycling) <= Capacity - 1 - Claimed
  BY <1>5, <1>6, FS_Injection
<1>8. Cardinality(Recycling) \in Nat
  BY <1>7, FS_CardinalityType
<1> QED BY <1>1, <1>7, <1>8

\* The instance's Cardinality is the one of FiniteSets.
LEMMA SameCardinality ==
  Abstract!Cardinality(Recycling) = Cardinality(Recycling)
  BY DEF Abstract!Cardinality, Cardinality

\* A claim appends a slot of the claimer.
LEMMA RefinesClaim ==
  ASSUME Several, MqInv, MqInv', NEW p \in Producers, ClaimTail(p), tail_ = pos[p]
  PROVE  Abstract!ClaimSlot(p)
<1>1. /\ tail_' = Plus(tail_, 1) /\ UNCHANGED <<head_, sequence, cell, pos, result>>
      /\ pc' = [pc EXCEPT ![p] = "write"] /\ pc[p] = "cas" /\ sequence[CellOf(tail_)] = tail_
  BY DEF ClaimTail, Goto, MqInv, CallInv, Enqueuing
<1>2. /\ DOMAIN pc = Procs /\ p \in Procs /\ p \notin Consumers /\ tail_ \in Words /\ head_ \in Words
      /\ Consumers \subseteq Procs /\ Producers \subseteq Procs
  BY QueueAssumption DEF MqInv, MType, Procs
<1>3. Claimed' = Claimed + 1 /\ Claimed \in Nat
  <2>1. Claimed < Capacity /\ Claimed \in Nat
    BY <1>1, FreeAtTail, PlaceFacts DEF MqInv
  <2>2. Claimed # Width - 1
    BY <2>1, SizeFacts
  <2>3. Claimed' = Minus(Plus(tail_, 1), head_)
    BY <1>1 DEF Claimed
  <2> QED BY <2>1, <2>2, <2>3, <1>2, OneFurther DEF Claimed
<1>4. Recycling' = Recycling /\ Taken' = Taken
  BY <1>1, <1>2 DEF Recycling, Taken
<1>5. ASSUME NEW k \in 1 .. Claimed
      PROVE  Slots'[k] = Slots[k]
  <2>1. PICK w \in Words : w = Place(k) /\ Off(w) \in 1 .. Claimed
    BY PlaceFacts
  <2>2. w # tail_
    BY <2>1, <1>2, <1>3, OneFurther DEF Off
  <2>3. \A q \in Producers : (Writing(q) /\ pos[q] = w)' <=> Writing(q) /\ pos[q] = w
    BY <2>2, <1>1, <1>2 DEF Writing
  <2>4. SlotAt(w)' = SlotAt(w)
    BY <2>1, <2>3, <1>1, SameSlot
  <2>5. Place(k)' = w /\ k \in 1 .. Claimed'
    BY <2>1, <1>1, <1>3 DEF Place
  <2> QED BY <2>1, <2>4, <2>5, SlotsAre, SlotsAreNext DEF SlotAt
<1>6. Slots'[Claimed + 1] = [owner |-> p, item |-> Blank, ready |-> FALSE]
  <2>1. PICK w \in Words, n \in Nat : w = tail_ /\ n = Claimed
    BY <1>2, <1>3
  <2>2. n + 1 \in 1 .. Claimed' /\ Place(n + 1)' = w
    <3>1. Place(n + 1) = w
      BY <2>1, PlaceFacts
    <3> QED BY <2>1, <3>1, <1>1, <1>3 DEF Place
  <2>3. Ready(w)' = FALSE
    BY <2>1, <1>1, <1>2, Numbers DEF Ready
  <2>4. pc'[p] \in {"write", "publish"} /\ pos'[p] = w
    BY <2>1, <1>1, <1>2
  <2>5. \A q \in Producers : pc'[q] \in {"write", "publish"} /\ pos'[q] = w => q = p
    BY <2>4 DEF MqInv, CellInv, WriteInv, Writing
  <2>6. (CHOOSE q \in Producers : pc'[q] \in {"write", "publish"} /\ pos'[q] = w) = p
    BY <2>4, <2>5, TheOnly
  <2>7. SlotAt(w)' = [owner |-> p, item |-> Blank, ready |-> FALSE]
    BY <2>3, <2>6 DEF SlotAt, Owner
  <2>8. Slots'[n + 1] = SlotAt(w)'
    BY <2>2, SlotsAreNext DEF SlotAt
  <2> QED BY <2>1, <2>7, <2>8
<1>7. Len(Slots) = Claimed /\ Slots' = Append(Slots, [owner |-> p, item |-> Blank, ready |-> FALSE])
  BY <1>3, <1>5, <1>6, SlotsAre, SlotsAreNext, OneMore
<1>8. Claimed + Cardinality(Recycling) < Capacity
  BY <1>1, FewRecycling
<1>9. Len(Slots) + Abstract!Cardinality(Recycling) < Capacity
  BY <1>7, <1>8, SameCardinality
<1> QED BY <1>4, <1>7, <1>9 DEF Abstract!ClaimSlot

\* A publication fills the slot that its producer owns.
LEMMA RefinesPublish ==
  ASSUME Several, MqInv, ValueInv, NEW p \in Producers, Publish(p)
  PROVE  \E v \in Items : Abstract!PublishItem(p, v)
<1>1. /\ UNCHANGED <<tail_, head_, cell, result>> /\ pc[p] = "publish" /\ Writing(p)
      /\ sequence' = [sequence EXCEPT ![CellOf(pos[p])] = Plus(pos[p], 1)]
      /\ pc' = [pc EXCEPT ![p] = "idle"] /\ pos' = [pos EXCEPT ![p] = 0]
  BY DEF Publish, Return, Goto, At, Writing
<1>2. /\ DOMAIN pc = Procs /\ DOMAIN pos = Procs /\ DOMAIN sequence = Cells
      /\ p \in Procs /\ p \notin Consumers
      /\ Consumers \subseteq Procs /\ Producers \subseteq Procs
  BY QueueAssumption DEF MqInv, MType, Procs
<1>3. pos[p] \in Words /\ Off(pos[p]) \in 1 .. Claimed /\ CellOf(pos[p]) \in Cells
  BY <1>1, Holders, CellFactsOf DEF MqInv
<1>4. Claimed' = Claimed /\ Claimed \in 0 .. Capacity /\ Capacity \in Nat
  BY <1>1, PlaceFacts DEF Claimed
<1>5. Recycling' = Recycling /\ Taken' = Taken
  <2>1. \A c \in Consumers : pc'[c] = pc[c] /\ pos'[c] = pos[c]
    BY <1>1, <1>2
  <2> QED BY <2>1, <1>1 DEF Recycling, Taken
<1>6. PICK k \in 1 .. Claimed : Place(k) = pos[p]
  BY <1>3, PlaceOf
<1>7. PICK v \in Items : v = value[p] /\ cell[CellOf(pos[p])] = v
  BY <1>1 DEF ValueInv
<1>8. Slots[k].owner = p /\ ~Slots[k].ready
  <2>1. Slots[k] = SlotAt(pos[p])
    BY <1>6, SlotsAre
  <2>2. Owner(pos[p]) = p /\ ~Ready(pos[p])
    BY <1>1, OwnerIs
  <2> QED BY <2>1, <2>2 DEF SlotAt
<1>9. Slots'[k] = [owner |-> Nobody, item |-> v, ready |-> TRUE]
  <2>1. PICK w \in Words : w = pos[p]
    BY <1>3
  <2>2. Place(k)' = w /\ k \in 1 .. Claimed'
    BY <2>1, <1>1, <1>4, <1>6 DEF Place
  <2>3. Ready(w)' = TRUE
    BY <2>1, <1>1, <1>2, <1>3 DEF Ready
  <2>4. SlotAt(w)' = [owner |-> Nobody, item |-> v, ready |-> TRUE]
    BY <2>1, <2>3, <1>1, <1>7 DEF SlotAt, Owner
  <2> QED BY <2>2, <2>4, SlotsAreNext DEF SlotAt
<1>10. ASSUME NEW j \in 1 .. Claimed, j # k
       PROVE  Slots'[j] = Slots[j]
  <2>1. PICK w \in Words : w = Place(j) /\ Off(w) = Claimed - j + 1
    BY PlaceFacts
  <2>2. Off(pos[p]) = Claimed - k + 1
    BY <1>6, PlaceFacts
  <2>3. w # pos[p] /\ Off(w) \in 1 .. Claimed /\ Off(w) \in 1 .. Capacity /\ Off(pos[p]) \in 1 .. Capacity
    BY <2>1, <2>2, <1>3, <1>4, <1>10
  <2>4. CellOf(w) # CellOf(pos[p])
    BY <2>3, <1>3, WindowCell DEF MqInv
  <2>5. sequence'[CellOf(w)] = sequence[CellOf(w)] /\ cell'[CellOf(w)] = cell[CellOf(w)]
    BY <2>4, <1>1
  <2>6. \A q \in Producers : (Writing(q) /\ pos[q] = w)' <=> Writing(q) /\ pos[q] = w
    BY <2>3, <1>1, <1>2 DEF Writing
  <2>7. SlotAt(w)' = SlotAt(w)
    BY <2>3, <2>5, <2>6, SameSlot
  <2>8. Place(j)' = w /\ j \in 1 .. Claimed'
    BY <2>1, <1>1, <1>4 DEF Place
  <2> QED BY <2>1, <2>7, <2>8, SlotsAre, SlotsAreNext DEF SlotAt
<1>11. k \in DOMAIN Slots /\ Slots' = [Slots EXCEPT ![k] = [owner |-> Nobody, item |-> v, ready |-> TRUE]]
  BY <1>4, <1>9, <1>10, SlotsAre, SlotsAreNext
<1>12. Abstract!PublishItem(p, v)
  BY <1>5, <1>8, <1>11 DEF Abstract!PublishItem
<1> QED BY <1>12

\* A claim at the head takes the oldest slot.
LEMMA RefinesTake ==
  ASSUME Several, MqInv, NEW c \in Consumers, TakeHead(c), head_ = pos[c] \/ Mpsc
  PROVE  Abstract!TakeItem(c)
<1>1. /\ head_' = Plus(head_, 1) /\ UNCHANGED <<tail_, sequence, cell, pos, result>>
      /\ pc' = [pc EXCEPT ![c] = "read"] /\ pc[c] = "cas" /\ pos[c] = head_ /\ Ready(head_)
  BY DEF TakeHead, Goto, MqInv, CallInv, Dequeuing
<1>2. /\ DOMAIN pc = Procs /\ c \in Procs /\ c \notin Producers /\ tail_ \in Words /\ head_ \in Words
      /\ Consumers \subseteq Procs /\ Producers \subseteq Procs
  BY QueueAssumption DEF MqInv, MType, Procs
<1>3. PICK n \in Nat : Claimed = n + 1 /\ Claimed' = n /\ n + 1 <= Capacity
  <2>1. Claimed # 0 /\ Claimed \in 0 .. Capacity /\ Capacity \in Nat
    BY <1>1, ReadyAtHead, PlaceFacts DEF MqInv
  <2>2. Claimed' = Claimed - 1
    BY <2>1, <1>1, <1>2, OneFurther DEF Claimed
  <2>3. Claimed - 1 \in Nat /\ Claimed = (Claimed - 1) + 1
    BY <2>1
  <2> QED BY <2>1, <2>2, <2>3
<1>4. Slots[1] = [owner |-> Nobody, item |-> cell[CellOf(head_)], ready |-> TRUE]
  <2>1. 1 \in 1 .. Claimed /\ Place(1) = head_
    BY <1>3, PlaceFacts
  <2>2. Ready(head_) = TRUE
    BY <1>1 DEF Ready
  <2> QED BY <2>1, <2>2, SlotsAre DEF SlotAt, Owner
<1>5. ASSUME NEW k \in 1 .. n
      PROVE  Slots'[k] = Slots[k + 1]
  <2>1. k + 1 \in 1 .. Claimed
    BY <1>3
  <2>2. PICK w \in Words : w = Place(k + 1) /\ Off(w) \in 1 .. Claimed
    <3>1. Place(k + 1) \in Words /\ Off(Place(k + 1)) = Claimed - (k + 1) + 1
      BY <2>1, PlaceFacts
    <3> QED BY <3>1, <2>1, <1>3
  <2>3. Place(k)' = w
    <3>1. k - 1 \in 0 .. Capacity - 1 /\ k - 1 + 1 = k /\ k + 1 - 1 = k
      BY <1>3, SizeFacts
    <3>2. Plus(Plus(head_, 1), k - 1) = Plus(head_, k)
      BY <3>1, <1>2, PlusPlus
    <3> QED BY <3>1, <3>2, <2>2, <1>1 DEF Place
  <2>4. \A q \in Producers : (Writing(q) /\ pos[q] = w)' <=> Writing(q) /\ pos[q] = w
    BY <1>1, <1>2 DEF Writing
  <2>5. SlotAt(w)' = SlotAt(w)
    BY <2>2, <2>4, <1>1, SameSlot
  <2> QED BY <2>1, <2>2, <2>3, <2>5, <1>3, SlotsAre, SlotsAreNext DEF SlotAt
<1>6. Slots # <<>> /\ Head(Slots) = Slots[1] /\ Slots' = Tail(Slots)
  <2>1. Slots = [k \in 1 .. n + 1 |-> Slots[k]] /\ Slots' = [k \in 1 .. n |-> Slots'[k]]
    BY <1>3, SlotsAre, SlotsAreNext
  <2> QED BY <2>1, <1>5, OneLess
<1>7. c \notin Recycling /\ Recycling' = Recycling \cup {c}
  BY <1>1, <1>2 DEF Recycling
<1>8. Taken' = [Taken EXCEPT ![c] = cell[CellOf(head_)]]
  BY <1>1, <1>2 DEF Taken
<1>9. Head(Slots).ready /\ Head(Slots).item = cell[CellOf(head_)]
  BY <1>4, <1>6
<1> QED BY <1>6, <1>7, <1>8, <1>9 DEF Abstract!TakeItem

\* A recycled cell is an emptied slot.
LEMMA RefinesRecycle ==
  ASSUME Several, MqInv, NEW c \in Consumers, Recycle(c)
  PROVE  Abstract!EmptySlot(c)
<1>1. /\ UNCHANGED <<tail_, head_, cell, result>> /\ pc[c] = "recycle" /\ Reading(c)
      /\ sequence' = [sequence EXCEPT ![CellOf(pos[c])] = Plus(pos[c], Capacity)]
      /\ pc' = [pc EXCEPT ![c] = "idle"] /\ pos' = [pos EXCEPT ![c] = 0]
  BY DEF Recycle, Return, Goto, At, Reading
<1>2. /\ DOMAIN pc = Procs /\ DOMAIN pos = Procs /\ c \in Procs /\ c \notin Producers
      /\ Consumers \subseteq Procs /\ Producers \subseteq Procs
  BY QueueAssumption DEF MqInv, MType, Procs
<1>3. /\ pos[c] \in Words /\ Off(pos[c]) \in Claimed + 1 .. Capacity /\ Off(pos[c]) \in 1 .. Capacity
      /\ Claimed \in 0 .. Capacity /\ Capacity \in Nat
  BY <1>1, Holders, PlaceFacts DEF MqInv
<1>4. Claimed' = Claimed
  BY <1>1 DEF Claimed
<1>5. ASSUME NEW k \in 1 .. Claimed
      PROVE  Slots'[k] = Slots[k]
  <2>1. PICK w \in Words : w = Place(k) /\ Off(w) \in 1 .. Claimed
    BY PlaceFacts
  <2>2. w # pos[c] /\ Off(w) \in 1 .. Capacity
    BY <2>1, <1>3
  <2>3. CellOf(w) # CellOf(pos[c])
    BY <2>2, <1>3, WindowCell DEF MqInv
  <2>4. sequence'[CellOf(w)] = sequence[CellOf(w)] /\ cell'[CellOf(w)] = cell[CellOf(w)]
    BY <2>3, <1>1
  <2>5. \A q \in Producers : (Writing(q) /\ pos[q] = w)' <=> Writing(q) /\ pos[q] = w
    BY <1>1, <1>2 DEF Writing
  <2>6. SlotAt(w)' = SlotAt(w)
    BY <2>1, <2>4, <2>5, SameSlot
  <2>7. Place(k)' = w /\ k \in 1 .. Claimed'
    BY <2>1, <1>1, <1>4 DEF Place
  <2> QED BY <2>1, <2>6, <2>7, SlotsAre, SlotsAreNext DEF SlotAt
<1>6. Slots' = Slots
  BY <1>4, <1>5, SlotsAre, SlotsAreNext
<1>7. c \in Recycling /\ Recycling' = Recycling \ {c}
  BY <1>1, <1>2 DEF Recycling
<1>8. Taken' = Taken
  <2>1. \A d \in Consumers : (pc'[d] = "read" <=> pc[d] = "read") /\ (pc[d] = "read" => pos'[d] = pos[d])
    BY <1>1, <1>2
  <2> QED BY <2>1, <1>1 DEF Taken
<1> QED BY <1>6, <1>7, <1>8 DEF Abstract!EmptySlot

\* The steps between claims, publications and recyclings change no slot.
LEMMA RefinesQuiet ==
  ASSUME Several, MqInv,
         UNCHANGED <<tail_, head_, sequence>>,
         \A q \in Procs : /\ Writing(q)' <=> Writing(q)
                          /\ Reading(q)' <=> Reading(q)
                          /\ Writing(q) \/ Reading(q) => pos'[q] = pos[q],
         \A w \in Words : Off(w) \in 1 .. Claimed /\ Ready(w) => cell'[CellOf(w)] = cell[CellOf(w)],
         Taken' = Taken
  PROVE  UNCHANGED Abstract!svars
<1>1. \A q \in Producers : (Writing(q)' <=> Writing(q)) /\ (Writing(q) => pos'[q] = pos[q])
  BY DEF Procs
<1>2. Slots' = Slots
  BY <1>1, SlotsStay
<1>3. Recycling' = Recycling
  BY DEF Recycling, Reading, Procs
<1> QED BY <1>2, <1>3 DEF Abstract!svars

\* Every step is a step of the slots, or none.
LEMMA RefinesNext ==
  ASSUME Several, MqInv, MqInv', ValueInv, [Next]_vars
  PROVE  [Abstract!SNext]_Abstract!svars
<1>1. /\ DOMAIN pc = Procs /\ DOMAIN pos = Procs /\ DOMAIN result = Consumers
      /\ Producers \cap Consumers = {} /\ Producers \subseteq Procs /\ Consumers \subseteq Procs
      /\ \A p \in Procs : pos[p] \in Words
  BY QueueAssumption DEF MqInv, MType, Procs
<1>2. ASSUME NEW p \in Producers, Producer(p)
      PROVE  [Abstract!SNext]_Abstract!svars
  <2>1. p \in Procs /\ p \notin Consumers
    BY <1>1
  <2>2. CASE Enqueue(p) \/ CheckFree(p) \/ (ClaimTail(p) /\ tail_ # pos[p])
    <3>1. /\ UNCHANGED <<tail_, head_, sequence, cell, result>>
          /\ \A q \in Procs : /\ q # p => pc'[q] = pc[q] /\ pos'[q] = pos[q]
                              /\ q = p => pc[q] \in {"idle", "seq", "cas"} /\ pc'[q] \in {"idle", "seq", "cas"}
      BY <2>1, <2>2, <1>1 DEF Enqueue, CheckFree, ClaimTail, Return, Goto, At
    <3>2. Taken' = Taken
      BY <2>1, <3>1, <1>1 DEF Taken
    <3>3. \A q \in Procs : /\ Writing(q)' <=> Writing(q)
                           /\ Reading(q)' <=> Reading(q)
                           /\ Writing(q) \/ Reading(q) => pos'[q] = pos[q]
      BY <3>1 DEF Writing, Reading
    <3> QED BY <3>1, <3>2, <3>3, RefinesQuiet
  <2>3. CASE ClaimTail(p) /\ tail_ = pos[p]
    BY <2>3, RefinesClaim DEF Abstract!SNext
  <2>4. CASE Write(p)
    <3>1. /\ UNCHANGED <<tail_, head_, sequence, pos, result>> /\ Writing(p)
          /\ cell' = [cell EXCEPT ![CellOf(pos[p])] = value[p]]
          /\ pc' = [pc EXCEPT ![p] = "publish"] /\ pc[p] = "write"
      BY <2>4 DEF Write, Goto, Writing
    <3>2. pos[p] \in Words /\ Off(pos[p]) \in 1 .. Capacity
      BY <3>1, Holders DEF MqInv
    <3>3. ASSUME NEW w \in Words, Off(w) \in 1 .. Claimed, Ready(w)
          PROVE  cell'[CellOf(w)] = cell[CellOf(w)]
      <4>1. w # pos[p]
        BY <3>1, <3>3, OwnerIs
      <4>2. Off(w) \in 1 .. Capacity
        BY <3>3, PlaceFacts
      <4>3. CellOf(w) # CellOf(pos[p])
        BY <4>1, <4>2, <3>2, WindowCell DEF MqInv
      <4> QED BY <4>3, <3>1
    <3>4. Taken' = Taken
      <4>1. \A c \in Consumers : /\ pc'[c] = pc[c]
                                /\ pc[c] = "read" => cell'[CellOf(pos[c])] = cell[CellOf(pos[c])]
        <5> TAKE c \in Consumers
        <5>1. c # p /\ c \in Procs
          BY <1>1
        <5>2. pc[c] = "read" => CellOf(pos[c]) # CellOf(pos[p])
          BY <5>1, <2>1, <3>1, HoldersApart DEF Reading
        <5> QED BY <5>1, <5>2, <3>1
      <4> QED BY <4>1, <3>1 DEF Taken
    <3>5. \A q \in Procs : (Writing(q)' <=> Writing(q)) /\ (Reading(q)' <=> Reading(q)) /\ pos'[q] = pos[q]
      BY <3>1, <1>1 DEF Writing, Reading
    <3> QED BY <3>1, <3>3, <3>4, <3>5, RefinesQuiet
  <2>5. CASE Publish(p)
    BY <2>5, RefinesPublish DEF Abstract!SNext
  <2> QED BY <1>2, <2>2, <2>3, <2>4, <2>5 DEF Producer
<1>3. ASSUME NEW c \in Consumers, Consumer(c)
      PROVE  [Abstract!SNext]_Abstract!svars
  <2>1. c \in Procs
    BY <1>1
  <2>2. CASE Dequeue(c) \/ CheckReady(c) \/ (TakeHead(c) /\ ~(head_ = pos[c] \/ Mpsc))
    <3>1. /\ UNCHANGED <<tail_, head_, sequence, cell, result>>
          /\ \A q \in Procs : /\ q # c => pc'[q] = pc[q] /\ pos'[q] = pos[q]
                              /\ q = c => pc[q] \in {"idle", "seq", "cas"} /\ pc'[q] \in {"idle", "seq", "cas"}
      BY <2>1, <2>2, <1>1 DEF Dequeue, CheckReady, TakeHead, Return, Goto, At
    <3>2. Taken' = Taken
      <4>1. \A d \in Consumers : (pc'[d] = "read" <=> pc[d] = "read") /\ (pc[d] = "read" => pos'[d] = pos[d])
        BY <3>1, <1>1
      <4> QED BY <4>1, <3>1 DEF Taken
    <3>3. \A q \in Procs : /\ Writing(q)' <=> Writing(q)
                           /\ Reading(q)' <=> Reading(q)
                           /\ Writing(q) \/ Reading(q) => pos'[q] = pos[q]
      BY <3>1 DEF Writing, Reading
    <3> QED BY <3>1, <3>2, <3>3, RefinesQuiet
  <2>3. CASE TakeHead(c) /\ (head_ = pos[c] \/ Mpsc)
    BY <2>3, RefinesTake DEF Abstract!SNext
  <2>4. CASE Read(c)
    <3>1. /\ UNCHANGED <<tail_, head_, sequence, cell, pos>> /\ pc[c] = "read"
          /\ result' = [result EXCEPT ![c] = cell[CellOf(pos[c])]]
          /\ pc' = [pc EXCEPT ![c] = "recycle"]
      BY <2>4 DEF Read, Goto
    <3>2. Taken' = Taken
      BY <3>1, <1>1 DEF Taken
    <3>3. \A q \in Procs : (Writing(q)' <=> Writing(q)) /\ (Reading(q)' <=> Reading(q)) /\ pos'[q] = pos[q]
      BY <3>1, <1>1 DEF Writing, Reading
    <3> QED BY <3>1, <3>2, <3>3, RefinesQuiet
  <2>5. CASE Recycle(c)
    BY <2>5, RefinesRecycle DEF Abstract!SNext
  <2> QED BY <1>3, <2>2, <2>3, <2>4, <2>5 DEF Consumer
<1>4. CASE UNCHANGED vars
  BY <1>4, RefinesQuiet DEF vars, Writing, Reading, Taken
<1> QED BY <1>2, <1>3, <1>4, QueueAssumption DEF Next

\* The new queue has no slots.
LEMMA RefinesInit ==
  ASSUME Init
  PROVE  Abstract!SInit
<1>1. Claimed = 0
  BY NoDistance, SizeFacts DEF Init, Claimed, Words
<1>2. Slots = <<>>
  <2>1. Slots = [k \in 1 .. 0 |-> Slots[k]]
    BY <1>1, SlotsAre
  <2>2. Len(Slots) = 0 /\ Slots \in Seq({Slots[k] : k \in 1 .. 0})
    BY <2>1, AsSequence
  <2> QED BY <2>2, EmptySeq
<1>3. Recycling = {} /\ Taken = [c \in Consumers |-> Blank]
  BY DEF Init, Recycling, Taken, Procs
<1> QED BY <1>2, <1>3 DEF Abstract!SInit

(* The cells implement the abstract queue: slots are claimed and taken in  *)
(* order, a claim needs a cell that is neither claimed nor being emptied,  *)
(* and each item is read intact by one consumer.                           *)
THEOREM ImplementsSlotQueue == ASSUME Several PROVE Spec => IsSlotQueue
<1>1. Init => Abstract!SInit /\ ValueInv
  BY RefinesInit DEF Init, ValueInv, Procs
<1>2. MqInv /\ MqInv' /\ ValueInv /\ [Next]_vars => ValueInv' /\ [Abstract!SNext]_Abstract!svars
  BY ValueStep, RefinesNext
<1> QED BY <1>1, <1>2, MqInvHolds, PTL DEF Spec, IsSlotQueue, Abstract!SSpec
================================================================================
