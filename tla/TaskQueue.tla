----------------------------- MODULE TaskQueue -----------------------------
(***************************************************************************)
(* The user task queues of dispatch.c: dispatch_post_task puts an event    *)
(* in one of the SDK's queues (system_os_post), generic_task_handler is    *)
(* called by the SDK with the oldest event of the most urgent queue.       *)
(* Handlers and SDK callbacks (timers, lwip) do not preempt each other;    *)
(* the interrupt handlers of uart.c and io_gpio.c, which also post,        *)
(* preempt them anywhere.                                                  *)
(*                                                                         *)
(* The subject here is stat_task_current_queue, the program's own idea of  *)
(* the length of a queue.  Both sides update it without masking            *)
(* interrupts, so in a handler an update is a load and a later store.      *)
(* Which task an event stands for does not matter and is left out, as are  *)
(* the counters that are only printed.                                     *)
(***************************************************************************)
EXTENDS Integers

CONSTANTS
  Prio,             \* the priorities in use, a set of numbers
  IsrPrio,          \* the priorities interrupt handlers post with
  TaskQueueLength   \* task_queue_length, 12 in the code

ASSUME TaskQueueAssumption ==
  /\ Prio \subseteq Int
  /\ IsrPrio \subseteq Prio
  /\ TaskQueueLength \in Nat \ {0}

VARIABLES
  queued,     \* queued[p]: events in the SDK's queue of priority p
  current,    \* current[p]: stat_task_current_queue[p]
  max,        \* max[p]: stat_task_max_queue[p]
  pc,         \* what the code that is not an interrupt handler is doing
  prio,       \* the priority it is working on
  reg,        \* the value of current[prio] it has loaded
  underrun    \* the priorities "task queue underrun" has been logged for

vars == <<queued, current, max, pc, prio, reg, underrun>>

PC == {"idle",      \* the SDK's scheduler
       "taken",     \* generic_task_handler entered, nothing done yet
       "loaded",    \* it has loaded the current queue length
       "body",      \* a handler or an SDK callback runs
       "posted",    \* in dispatch_post_task, after system_os_post
       "counting"}  \* it has loaded the current queue length

Larger(a, b) == IF a > b THEN a ELSE b
-----------------------------------------------------------------------------
Init ==
  /\ queued = [p \in Prio |-> 0]
  /\ current = [p \in Prio |-> 0]
  /\ max = [p \in Prio |-> 0]
  /\ pc = "idle"
  /\ prio \in Prio
  /\ reg = 0
  /\ underrun = {}

(* The SDK takes the oldest event of the most urgent queue that has one    *)
(* and calls generic_task_handler with it.                                 *)
TakeEvent(p) ==
  /\ pc = "idle"
  /\ queued[p] > 0
  /\ \A q \in Prio : queued[q] > 0 => q <= p
  /\ queued' = [queued EXCEPT ![p] = @ - 1]
  /\ pc' = "taken"
  /\ prio' = p
  /\ UNCHANGED <<current, max, reg, underrun>>

(* The SDK calls a timer or network callback instead.                      *)
Callback ==
  /\ pc = "idle"
  /\ pc' = "body"
  /\ UNCHANGED <<queued, current, max, prio, reg, underrun>>

\* Seeded fault: the decrement is skipped when the queue is empty again.
FaultyLoadCurrent ==
  /\ pc = "taken"
  /\ IF queued[prio] > 0
       THEN /\ reg' = current[prio]
            /\ pc' = "loaded"
       ELSE /\ pc' = "body"
            /\ UNCHANGED reg
  /\ UNCHANGED <<queued, current, max, prio, underrun>>

(* generic_task_handler looks at the queue length and logs an underrun     *)
(* when it is already zero.                                                *)
LoadCurrent ==
  /\ pc = "taken"
  /\ IF current[prio] > 0
       THEN /\ reg' = current[prio]
            /\ pc' = "loaded"
            /\ UNCHANGED underrun
       ELSE /\ pc' = "body"
            /\ underrun' = underrun \cup {prio}
            /\ UNCHANGED reg
  /\ UNCHANGED <<queued, current, max, prio>>

(* ... and stores it decremented.                                          *)
Decrement ==
  /\ pc = "loaded"
  /\ current' = [current EXCEPT ![prio] = reg - 1]
  /\ pc' = "body"
  /\ UNCHANGED <<queued, max, prio, reg, underrun>>

(* A handler or callback posts: system_os_post takes the event when there  *)
(* is room for it, else dispatch_post_task returns false.                  *)
Post(p) ==
  /\ pc = "body"
  /\ IF queued[p] < TaskQueueLength
       THEN /\ queued' = [queued EXCEPT ![p] = @ + 1]
            /\ pc' = "posted"
            /\ prio' = p
       ELSE UNCHANGED <<queued, pc, prio>>
  /\ UNCHANGED <<current, max, reg, underrun>>

LoadForIncrement ==
  /\ pc = "posted"
  /\ reg' = current[prio]
  /\ pc' = "counting"
  /\ UNCHANGED <<queued, current, max, prio, underrun>>

(* The incremented value is stored and compared with the maximum.          *)
Increment ==
  /\ pc = "counting"
  /\ current' = [current EXCEPT ![prio] = reg + 1]
  /\ max' = [max EXCEPT ![prio] = Larger(@, reg + 1)]
  /\ pc' = "body"
  /\ UNCHANGED <<queued, prio, reg, underrun>>

Return ==
  /\ pc = "body"
  /\ pc' = "idle"
  /\ UNCHANGED <<queued, current, max, prio, reg, underrun>>

(* An interrupt handler posts: all of dispatch_post_task at once, between  *)
(* any two steps of the code it interrupts.                                *)
IsrPost(p) ==
  /\ IF queued[p] < TaskQueueLength
       THEN /\ queued' = [queued EXCEPT ![p] = @ + 1]
            /\ current' = [current EXCEPT ![p] = @ + 1]
            /\ max' = [max EXCEPT ![p] = Larger(@, current[p] + 1)]
       ELSE UNCHANGED <<queued, current, max>>
  /\ UNCHANGED <<pc, prio, reg, underrun>>

Next ==
  \/ \E p \in Prio : TakeEvent(p) \/ Post(p)
  \/ \E p \in IsrPrio : IsrPost(p)
  \/ Callback \/ LoadCurrent \/ Decrement
  \/ LoadForIncrement \/ Increment \/ Return

Spec == Init /\ [][Next]_vars

-----------------------------------------------------------------------------
TypeOK ==
  /\ queued \in [Prio -> 0 .. TaskQueueLength]
  /\ current \in [Prio -> Nat]
  /\ max \in [Prio -> Nat]
  /\ pc \in PC
  /\ prio \in Prio
  /\ reg \in Nat
  /\ underrun \subseteq Prio

\* Events that have been queued and not been discounted yet.
Outstanding(p) ==
  queued[p] + (IF pc \in {"taken", "loaded"} /\ prio = p THEN 1 ELSE 0)

\* An event queued by code that has not counted it yet.
Uncounted(p) == IF pc \in {"posted", "counting"} /\ prio = p THEN 1 ELSE 0

(* However interrupts interleave with the unprotected updates, the         *)
(* program never believes there are more events than there are: races      *)
(* between a handler and an interrupt lose counts, they never invent one.  *)
NeverOvercounts ==
  \A p \in Prio : current[p] + Uncounted(p) <= Outstanding(p)

(* The largest queue length ever recorded (printed by the task statistics  *)
(* of stats.c) is at most one more than the queue can hold: the one is an  *)
(* event already taken from the queue and not discounted yet.              *)
MaxBounded == \A p \in Prio : max[p] <= TaskQueueLength + 1

(* The counts of a priority no interrupt handler posts with are exact, and *)
(* its underrun message never appears.                                     *)
ExactWithoutInterrupts ==
  \A p \in Prio \ IsrPrio :
    /\ current[p] + Uncounted(p) = Outstanding(p)
    /\ p \notin underrun
=============================================================================
