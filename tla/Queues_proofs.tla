--------------------------- MODULE Queues_proofs ---------------------------
(***************************************************************************)
(* Proofs about the two queues that tasks and interrupts share.            *)
(*                                                                         *)
(* The ring buffer, for every size and every set of bytes: the indices     *)
(* stay inside the buffer, the byte popped is the oldest one, and the ring *)
(* implements a first-in first-out queue of Size - 1 bytes.  The           *)
(* refinement follows the contents of the queue through each operation;    *)
(* the arithmetic of the wrap-around is in three lemmas.                   *)
(*                                                                         *)
(* The task queues, for any set of priorities, any length and any choice   *)
(* of priorities that interrupt handlers post with.  The invariants of the *)
(* specification do not say enough about the value held between a load and *)
(* the store that follows it: interrupts may have counted events in the    *)
(* meantime.  What stays true is that the value about to be stored is not  *)
(* above the number of events there will be (StoreBounded) and, where      *)
(* interrupts do not interfere, that it is not stale (StoreFresh).         *)
(***************************************************************************)
EXTENDS RingQueue, TaskQueue, TLAPS

(* An index below the size is its own remainder.                           *)
LEMMA ModBelow ==
  ASSUME NEW x \in Nat, x < Size
  PROVE  x % Size = x
  BY SizeAssumption, SMT

(* An index at or just above the size wraps around once.                   *)
LEMMA ModAbove ==
  ASSUME NEW x \in Nat, Size <= x, x < 2 * Size
  PROVE  x % Size = x - Size
  BY SizeAssumption, SMT

(* Advancing an index leaves it inside the buffer.                         *)
LEMMA NextSlot ==
  ASSUME NEW s \in Slots
  PROVE  /\ (s + 1) % Size \in Slots
         /\ s + 1 < Size => (s + 1) % Size = s + 1
         /\ s + 1 = Size => (s + 1) % Size = 0
  BY ModBelow, ModAbove, SizeAssumption, SMT DEF Slots

(* queue_new, queue_push, queue_pop and queue_flush keep both indices      *)
(* inside the buffer.                                                      *)
THEOREM RingTypeCorrect == RingSpec => []RingTypeOK
<1>. USE DEF RingTypeOK, Queue
<1>1. 0 \in Slots
  BY SizeAssumption DEF Slots
<1>2. RingInit => RingTypeOK
  BY <1>1 DEF RingInit, queue_new
<1>3. RingTypeOK /\ [RingNext]_ringvars => RingTypeOK'
  <2> SUFFICES ASSUME RingTypeOK, [RingNext]_ringvars PROVE RingTypeOK'
    OBVIOUS
  <2>1. ASSUME NEW b \in Byte, Push(b) PROVE RingTypeOK'
    BY <2>1, NextSlot DEF Push, queue_push
  <2>2. CASE Pop
    BY <2>2, NextSlot DEF Pop, queue_pop
  <2>3. CASE Flush
    BY <1>1, <2>3 DEF Flush, queue_flush
  <2>4. CASE UNCHANGED ringvars
    BY <2>4 DEF ringvars
  <2>. QED BY <2>1, <2>2, <2>3, <2>4 DEF RingNext
<1>. QED BY <1>2, <1>3, PTL DEF RingSpec
-----------------------------------------------------------------------------
(* The slot k places after the oldest byte, without the remainder.         *)
LEMMA SlotOfValue ==
  ASSUME NEW q \in Queue, NEW k \in 0 .. Size - 1
  PROVE  /\ SlotOf(q, k) = IF q.out + k < Size
                           THEN q.out + k ELSE q.out + k - Size
         /\ SlotOf(q, k) \in Slots
<1>1. /\ q.out \in 0 .. Size - 1
      /\ k \in 0 .. Size - 1
      /\ Size \in Nat
  BY SizeAssumption DEF Queue, Slots
<1>2. CASE q.out + k < Size
  BY <1>1, <1>2, ModBelow DEF SlotOf, Slots
<1>3. CASE q.out + k >= Size
  BY <1>1, <1>3, ModAbove DEF SlotOf, Slots
<1>. QED BY <1>1, <1>2, <1>3

(* The number of bytes held, and that they form a sequence of bytes.       *)
LEMMA ContentsType ==
  ASSUME NEW q \in Queue
  PROVE  /\ Held(q) \in 0 .. Size - 1
         /\ Contents(q) \in Seq(Byte)
         /\ Len(Contents(q)) = Held(q)
         /\ \A i \in 1 .. Held(q) :
              /\ i - 1 \in 0 .. Size - 1
              /\ Contents(q)[i] = q.data[SlotOf(q, i - 1)]
<1>1. Held(q) \in 0 .. Size - 1
  BY SizeAssumption DEF Queue, Held, Slots
<1>2. \A i \in 1 .. Held(q) : i - 1 \in 0 .. Size - 1
  BY <1>1, SizeAssumption
<1>3. \A i \in 1 .. Held(q) : q.data[SlotOf(q, i - 1)] \in Byte
  BY <1>2, SlotOfValue DEF Queue
<1>. QED BY <1>1, <1>2, <1>3 DEF Contents

(* The byte queue_pop returns is the one that has been held longest.       *)
LEMMA OldestAtOut ==
  ASSUME NEW q \in Queue, ~queue_empty(q)
  PROVE  /\ Held(q) > 0
         /\ queue_pop(q).byte = Head(Contents(q))
<1>1. Held(q) > 0
  BY SizeAssumption DEF Held, Queue, Slots, queue_empty
<1>2. SlotOf(q, 0) = q.out
  BY SlotOfValue, SizeAssumption DEF Queue, Slots
<1>3. Contents(q)[1] = q.data[q.out]
  BY <1>1, <1>2, ContentsType
<1>. QED BY <1>1, <1>3, ContentsType DEF queue_pop

(* Users of the queue get the bytes oldest first.                          *)
THEOREM PopOrder == RingSpec => []PopsOldest
<1>1. RingTypeOK => PopsOldest
  BY OldestAtOut DEF RingTypeOK, PopsOldest
<1>. QED BY <1>1, RingTypeCorrect, PTL

(* Storing a byte in a queue that is not full appends it to the contents,  *)
(* and there is room: the slot kept free is not used up.                   *)
LEMMA PushContents ==
  ASSUME NEW q \in Queue, NEW b \in Byte, ~queue_full(q)
  PROVE  /\ Held(q) < Size - 1
         /\ Contents(queue_push(q, b)) = Append(Contents(q), b)
<1>. DEFINE r == queue_push(q, b)
<1>1. /\ r \in Queue
      /\ r.in = (q.in + 1) % Size
      /\ r.out = q.out
      /\ r.data = [q.data EXCEPT ![q.in] = b]
  BY NextSlot DEF queue_push, Queue
<1>. HIDE DEF r
<1>2. /\ q.in \in 0 .. Size - 1
      /\ q.out \in 0 .. Size - 1
      /\ Size \in Nat
  BY SizeAssumption DEF Queue, Slots
<1>3. /\ Held(q) < Size - 1
      /\ Held(r) = Held(q) + 1
  <2>1. q.out # r.in
    BY <1>1 DEF queue_full
  <2>2. r.in = IF q.in + 1 < Size THEN q.in + 1 ELSE 0
    BY <1>1, <1>2, NextSlot DEF Slots
  <2>. QED BY <1>1, <1>2, <2>1, <2>2 DEF Held
<1>4. /\ Held(q) \in 0 .. Size - 1
      /\ SlotOf(q, Held(q)) = q.in
  <2>1. Held(q) \in 0 .. Size - 1
    BY ContentsType
  <2>2. SlotOf(q, Held(q)) = IF q.out + Held(q) < Size
                     THEN q.out + Held(q) ELSE q.out + Held(q) - Size
    BY <2>1, SlotOfValue
  <2>. QED BY <1>2, <2>1, <2>2 DEF Held
<1>5. \A k \in 0 .. Held(q) - 1 : SlotOf(q, k) # q.in
  <2>. SUFFICES ASSUME NEW k \in 0 .. Held(q) - 1
                PROVE  SlotOf(q, k) # q.in
    OBVIOUS
  <2>1. SlotOf(q, k) = IF q.out + k < Size
                       THEN q.out + k ELSE q.out + k - Size
    BY <1>4, SlotOfValue, SizeAssumption
  <2>. QED BY <1>2, <1>3, <2>1 DEF Held
<1>6. \A k : SlotOf(r, k) = SlotOf(q, k)
  BY <1>1 DEF SlotOf
<1>7. ASSUME NEW i \in 1 .. Held(q) + 1
      PROVE  Contents(r)[i] = Append(Contents(q), b)[i]
  <2>0. i \in Nat \ {0} /\ Held(q) \in Nat
    BY <1>2, <1>4
  <2>1. Contents(r)[i] = r.data[SlotOf(q, i - 1)]
    BY <1>1, <1>3, <1>6, ContentsType
  <2>2. CASE i = Held(q) + 1
    <3>1. i - 1 = Held(q)
      BY <2>0, <2>2
    <3>2. Contents(r)[i] = b
      BY <1>1, <1>2, <1>4, <2>1, <3>1 DEF Queue, Slots
    <3>. QED BY <2>2, <3>2, ContentsType
  <2>3. CASE i \in 1 .. Held(q)
    <3>1. /\ i - 1 \in 0 .. Held(q) - 1
          /\ i - 1 \in 0 .. Size - 1
      BY <1>2, <1>4, <2>0, <2>3
    <3>2. /\ SlotOf(q, i - 1) # q.in
          /\ SlotOf(q, i - 1) \in Slots
      BY <1>5, <3>1, SlotOfValue
    <3>3. Contents(r)[i] = q.data[SlotOf(q, i - 1)]
      BY <1>1, <2>1, <3>2 DEF Queue
    <3>. QED BY <2>3, <3>3, ContentsType
  <2>4. i = Held(q) + 1 \/ i \in 1 .. Held(q)
    BY <2>0
  <2>. QED BY <2>2, <2>3, <2>4
<1>8. /\ Contents(r) \in Seq(Byte)
      /\ Append(Contents(q), b) \in Seq(Byte)
      /\ Len(Contents(r)) = Held(q) + 1
      /\ Len(Append(Contents(q), b)) = Held(q) + 1
  BY <1>1, <1>3, ContentsType
<1>9. Contents(r) = Append(Contents(q), b)
  BY <1>7, <1>8
<1>. QED BY <1>3, <1>9 DEF r

(* Taking a byte out of a queue that is not empty removes the oldest one.  *)
LEMMA PopContents ==
  ASSUME NEW q \in Queue, ~queue_empty(q)
  PROVE  Contents(queue_pop(q).queue) = Tail(Contents(q))
<1>. DEFINE r == queue_pop(q).queue
<1>1. /\ r \in Queue
      /\ r.out = (q.out + 1) % Size
      /\ r.in = q.in
      /\ r.data = q.data
  BY NextSlot DEF queue_pop, Queue
<1>. HIDE DEF r
<1>2. /\ q.in \in 0 .. Size - 1
      /\ q.out \in 0 .. Size - 1
      /\ Size \in Nat
      /\ r.out = IF q.out + 1 < Size THEN q.out + 1 ELSE 0
  BY <1>1, NextSlot, SizeAssumption DEF Queue, Slots
<1>3. /\ Held(q) > 0
      /\ Held(r) = Held(q) - 1
  BY <1>1, <1>2 DEF Held, queue_empty
<1>4. ASSUME NEW i \in 1 .. Held(r)
      PROVE  Contents(r)[i] = Tail(Contents(q))[i]
  <2>1. /\ i \in 1 .. Size - 1
        /\ i - 1 \in 0 .. Size - 1
        /\ i + 1 \in 1 .. Held(q)
        /\ (i + 1) - 1 = i
    BY <1>1, <1>2, <1>3, ContentsType
  <2>2. SlotOf(r, i - 1) = IF r.out + (i - 1) < Size
                     THEN r.out + (i - 1) ELSE r.out + (i - 1) - Size
    BY <1>1, <2>1, SlotOfValue
  <2>3. SlotOf(q, i) = IF q.out + i < Size
                       THEN q.out + i ELSE q.out + i - Size
    BY <2>1, SlotOfValue
  <2>4. SlotOf(r, i - 1) = SlotOf(q, i)
    BY <1>2, <2>1, <2>2, <2>3
  <2>5. Contents(r)[i] = q.data[SlotOf(q, i)]
    BY <1>1, <2>4, ContentsType
  <2>6. Contents(q)[i + 1] = q.data[SlotOf(q, i)]
    BY <2>1, ContentsType
  <2>. QED BY <1>3, <2>1, <2>5, <2>6, ContentsType
<1>5. /\ Contents(r) \in Seq(Byte)
      /\ Tail(Contents(q)) \in Seq(Byte)
      /\ Len(Contents(r)) = Held(r)
      /\ Len(Tail(Contents(q))) = Held(r)
  BY <1>1, <1>3, ContentsType
<1>6. Contents(r) = Tail(Contents(q))
  BY <1>4, <1>5
<1>. QED BY <1>6 DEF r

(* The ring buffer implements a first-in first-out queue of Size - 1       *)
(* bytes, for every size and every set of bytes.                           *)
THEOREM RingImplementsFifo == RingSpec => ImplementsFifo
<1>. USE DEF RingTypeOK
<1>1. RingInit => Fifo!Init
  <2> SUFFICES ASSUME RingInit PROVE Contents(queue) = << >>
    BY DEF RingInit, Fifo!Init
  <2>1. Held(queue) = 0
    BY DEF RingInit, queue_new, Held
  <2>. QED BY <2>1 DEF Contents
<1>2. RingTypeOK /\ [RingNext]_ringvars => [Fifo!Next]_(Fifo!vars)
  <2> SUFFICES ASSUME RingTypeOK, [RingNext]_ringvars
               PROVE  Fifo!Next \/ UNCHANGED Fifo!vars
    BY Zenon
  <2>1. ASSUME NEW b \in Byte, Push(b) PROVE Fifo!Put(b)
    BY <2>1, PushContents, ContentsType DEF Push, Fifo!Put
  <2>2. CASE Pop
    <3>1. Contents(queue) # << >>
      BY <2>2, OldestAtOut, ContentsType DEF Pop
    <3>2. Contents(queue)' = Tail(Contents(queue))
      BY <2>2, PopContents DEF Pop
    <3>. QED BY <2>2, <3>1, <3>2 DEF Pop, Fifo!Next, Fifo!Get
  <2>3. CASE Flush
    <3>1. Held(queue)' = 0
      BY <2>3 DEF Flush, queue_flush, Held, Queue
    <3>. QED BY <2>3, <3>1 DEF Flush, Contents, Fifo!Next, Fifo!Clear
  <2>4. CASE UNCHANGED ringvars
    BY <2>4 DEF ringvars, Fifo!vars
  <2>. QED BY <2>1, <2>2, <2>3, <2>4 DEF RingNext, Fifo!Next
<1>. QED BY <1>1, <1>2, RingTypeCorrect, PTL DEF RingSpec, ImplementsFifo, Fifo!Spec
-----------------------------------------------------------------------------
(* The task queues.                                                        *)

StoreBounded ==
  /\ pc = "loaded" => reg \in Nat \ {0} /\ reg - 1 <= queued[prio]
  /\ pc = "counting" => reg + 1 <= queued[prio]

StoreFresh ==
  pc \in {"loaded", "counting"} /\ prio \notin IsrPrio => reg = current[prio]

IInv ==
  /\ TypeOK
  /\ NeverOvercounts
  /\ MaxBounded
  /\ ExactWithoutInterrupts
  /\ StoreBounded
  /\ StoreFresh

USE DEF PC, Outstanding, Uncounted, Larger

(* Loading the queue length disturbs little, but it is where an underrun   *)
(* is seen: with an exact count this is impossible, as the event just      *)
(* taken from the queue is still counted.                                  *)
LEMMA LoadCurrentInv == ASSUME IInv, LoadCurrent PROVE IInv'
<1>. USE DEF IInv
<1>1. TypeOK'
  BY DEF TypeOK, LoadCurrent
<1>2. NeverOvercounts' /\ MaxBounded'
  <2>1. CASE current[prio] > 0
    BY <2>1 DEF LoadCurrent, TypeOK, NeverOvercounts, MaxBounded
  <2>2. CASE current[prio] = 0
    BY <2>2 DEF LoadCurrent, TypeOK, NeverOvercounts, MaxBounded
  <2>. QED BY <2>1, <2>2 DEF TypeOK
<1>3. ExactWithoutInterrupts'
  <2>1. ASSUME prio \notin IsrPrio PROVE current[prio] = queued[prio] + 1
    BY <2>1 DEF LoadCurrent, TypeOK, ExactWithoutInterrupts
  <2>2. CASE current[prio] > 0
    BY <2>2 DEF LoadCurrent, TypeOK, ExactWithoutInterrupts
  <2>3. CASE current[prio] = 0
    <3>1. prio \in IsrPrio
      BY <2>1, <2>3 DEF TypeOK
    <3>. QED BY <2>3, <3>1 DEF LoadCurrent, TypeOK, ExactWithoutInterrupts
  <2>. QED BY <2>2, <2>3 DEF TypeOK
<1>4. StoreBounded' /\ StoreFresh'
  BY DEF LoadCurrent, TypeOK, NeverOvercounts, StoreBounded, StoreFresh
<1>. QED BY <1>1, <1>2, <1>3, <1>4

(* The queue length the program believes in is never above the real one,   *)
(* the recorded maximum is bounded, and priorities that interrupts do not  *)
(* post with are counted exactly.                                          *)
THEOREM Invariance == Spec => []IInv
<1>1. Init => IInv
  BY TaskQueueAssumption
     DEF Init, IInv, TypeOK, NeverOvercounts, MaxBounded,
         ExactWithoutInterrupts, StoreBounded, StoreFresh
<1>2. IInv /\ [Next]_vars => IInv'
  <2>. SUFFICES ASSUME IInv, [Next]_vars PROVE IInv'
    OBVIOUS
  <2>. USE TaskQueueAssumption
       DEF IInv, TypeOK, NeverOvercounts, MaxBounded,
           ExactWithoutInterrupts, StoreBounded, StoreFresh
  <2>1. ASSUME NEW p \in Prio, TakeEvent(p) PROVE IInv'
    BY <2>1 DEF TakeEvent
  <2>2. CASE LoadCurrent
    BY <2>2, LoadCurrentInv
  <2>3. CASE Decrement
    BY <2>3 DEF Decrement
  <2>4. ASSUME NEW p \in Prio, Post(p) PROVE IInv'
    BY <2>4 DEF Post
  <2>5. CASE LoadForIncrement
    BY <2>5 DEF LoadForIncrement
  <2>6. CASE Increment
    BY <2>6 DEF Increment
  <2>7. ASSUME NEW p \in IsrPrio, IsrPost(p) PROVE IInv'
    BY <2>7 DEF IsrPost
  <2>8. CASE Callback
    BY <2>8 DEF Callback
  <2>9. CASE Return
    BY <2>9 DEF Return
  <2>10. CASE UNCHANGED vars
    BY <2>10 DEF vars
  <2>. QED BY <2>1, <2>2, <2>3, <2>4, <2>5, <2>6, <2>7, <2>8, <2>9, <2>10
           DEF Next
<1>. QED BY <1>1, <1>2, PTL DEF Spec

(* Races between handlers and interrupts lose counts, never invent them.   *)
THEOREM NeverOvercountsCorrect == Spec => []NeverOvercounts
BY Invariance, PTL DEF IInv

(* The maximum printed exceeds the queue length by at most one.            *)
THEOREM MaxBoundedCorrect == Spec => []MaxBounded
BY Invariance, PTL DEF IInv

(* No underrun is ever logged for a priority interrupts do not post with.  *)
THEOREM ExactCorrect == Spec => []ExactWithoutInterrupts
BY Invariance, PTL DEF IInv
=============================================================================
