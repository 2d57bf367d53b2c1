------------------------------ MODULE ByteFifo ------------------------------
(***************************************************************************)
(* What a byte queue promises its users: bytes leave in the order in which *)
(* they were stored, none is lost or duplicated, at most Capacity bytes    *)
(* are held, and a queue can be emptied at once.  RingQueue is shown to    *)
(* implement this.                                                         *)
(***************************************************************************)
EXTENDS Naturals, Sequences

CONSTANTS
  Byte,       \* the values a queue can hold
  Capacity    \* how many bytes it holds at most

VARIABLES
  fifo,       \* the bytes held, oldest first
  call        \* the last operation called

Call == {"none", "put", "get", "clear"}
vars == <<fifo, call>>

Init == fifo = << >> /\ call = "none"

Put(b) ==
  /\ Len(fifo) < Capacity
  /\ fifo' = Append(fifo, b)
  /\ call' = "put"

Get ==
  /\ fifo # << >>
  /\ fifo' = Tail(fifo)
  /\ call' = "get"

Clear == fifo' = << >> /\ call' = "clear"

Next == (\E b \in Byte : Put(b)) \/ Get \/ Clear

Spec == Init /\ [][Next]_vars
=============================================================================
