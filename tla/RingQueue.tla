----------------------------- MODULE RingQueue -----------------------------
(***************************************************************************)
(* The ring buffer of queue.[ch], used for the two UART send queues and    *)
(* the UART receive queue.  `in' is the slot the next byte is stored in,   *)
(* `out' the slot of the oldest byte; one slot always stays unused, as     *)
(* in = out must mean empty.  queue_push and queue_pop check nothing: the  *)
(* callers in uart.c and dispatch.c ask queue_full and queue_empty first,  *)
(* so these tests are the guards of the actions Push and Pop.              *)
(***************************************************************************)
EXTENDS Integers, Sequences

CONSTANTS
  Byte,     \* the values a slot can hold
  Size      \* the number of slots, the size argument of queue_new

ASSUME SizeAssumption == Size \in Nat \ {0}

VARIABLES
  queue,    \* queue_t: data, in and out
  call      \* history: the last operation called

ringvars == <<queue, call>>

Slots == 0 .. Size - 1

\* queue_new leaves the buffer it is given as it is.
queue_new(buffer) == [data |-> buffer, in |-> 0, out |-> 0]

queue_empty(q) == q.in = q.out

\* Seeded fault: the comparison forgets that the index wraps around.
FaultyFull(q) == q.in + 1 = q.out

queue_full(q) == (q.in + 1) % Size = q.out

queue_flush(q) == [q EXCEPT !.in = 0, !.out = 0]

queue_push(q, b) ==
  [q EXCEPT !.data[q.in] = b, !.in = (q.in + 1) % Size]

\* The byte queue_pop returns and the queue it leaves behind.
queue_pop(q) ==
  [byte |-> q.data[q.out], queue |-> [q EXCEPT !.out = (q.out + 1) % Size]]
-----------------------------------------------------------------------------
RingInit ==
  /\ \E buffer \in [Slots -> Byte] : queue = queue_new(buffer)
  /\ call = "none"

Push(b) ==
  /\ ~queue_full(queue)
  /\ queue' = queue_push(queue, b)
  /\ call' = "put"

Pop ==
  /\ ~queue_empty(queue)
  /\ queue' = queue_pop(queue).queue
  /\ call' = "get"

Flush == queue' = queue_flush(queue) /\ call' = "clear"

RingNext == (\E b \in Byte : Push(b)) \/ Pop \/ Flush

RingSpec == RingInit /\ [][RingNext]_ringvars
-----------------------------------------------------------------------------
(* Every index stays inside the buffer: queue_push and queue_pop never     *)
(* touch memory beside it.                                                 *)
Queue == [data : [Slots -> Byte], in : Slots, out : Slots]

RingTypeOK == queue \in Queue /\ call \in {"none", "put", "get", "clear"}

Held(q) == IF q.in >= q.out THEN q.in - q.out ELSE q.in - q.out + Size

\* The slot of the byte that was stored k bytes after the oldest one.
SlotOf(q, k) == (q.out + k) % Size

Contents(q) == [i \in 1 .. Held(q) |-> q.data[SlotOf(q, i - 1)]]

\* What a user gets from queue_pop is the oldest byte held.
PopsOldest ==
  ~queue_empty(queue) => queue_pop(queue).byte = Head(Contents(queue))

Fifo == INSTANCE ByteFifo WITH fifo <- Contents(queue), Capacity <- Size - 1

(* queue.[ch] implements a first-in first-out queue of Size - 1 bytes:     *)
(* whatever the wrap-around position, nothing is lost, duplicated or       *)
(* reordered, and a full queue is never mistaken for an empty one.         *)
ImplementsFifo == Fifo!Spec
=============================================================================
