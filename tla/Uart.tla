-------------------------------- MODULE Uart --------------------------------
(***************************************************************************)
(* The interrupt driven UART driver of uart.c.                             *)
(*                                                                         *)
(* The interrupt handler moves no bytes: it disables the interrupt that    *)
(* fired and posts a task, task_uart_fetch_fifo or task_uart_fill_fifo,    *)
(* that moves them and enables the interrupt again.  Tasks and SDK         *)
(* callbacks do not preempt each other but the interrupt handler preempts  *)
(* them, so what they do to an interrupt enable register or to rx_posted   *)
(* and tx_posted is a load step and a store step here.  Bytes are counted, *)
(* not named: that the software queues keep their order is RingQueue's     *)
(* business.  Both interrupts are levels: the receive interrupt is raised  *)
(* while the receive fifo holds bytes, the transmit interrupt while the    *)
(* transmit fifo is below its threshold.                                   *)
(*                                                                         *)
(* The state starts where uart_init leaves it.                             *)
(***************************************************************************)
EXTENDS Integers, Sequences, FiniteSets, SequencesExt

CONSTANTS
  Uart,             \* the UARTs, 0 and 1; only UART 0 receives
  SendSize,         \* bytes a send queue holds (1023 and 127)
  ReceiveSize,      \* bytes the receive queue holds (1023)
  FifoSize,         \* bytes a hardware fifo holds
  FillLimit,        \* the transmit fifo is filled up to here (127)
  Threshold,        \* transmit interrupt below this level (8)
  TaskQueueLength   \* task_queue_length (12)

ASSUME UartAssumption ==
  /\ Uart \subseteq {0, 1} /\ 0 \in Uart
  /\ {SendSize, ReceiveSize, FifoSize, TaskQueueLength} \subseteq Nat \ {0}
  /\ FillLimit \in 1 .. FifoSize
  /\ Threshold \in 1 .. FillLimit

VARIABLES
  rx_fifo,        \* bytes in the receive fifo of UART 0
  tx_fifo,        \* tx_fifo[u]: bytes in the transmit fifo of UART u
  receive_queue,  \* bytes in uart_receive_queue
  send_queue,     \* send_queue[u]: bytes in uart_send_queue[u]
  int_ena,        \* int_ena[u]: the interrupts enabled, of "rx" and "tx"
  rx_posted,      \* stat_uart.instance[0].rx_posted
  tx_posted,      \* tx_posted[u]: stat_uart.instance[u].tx_posted
  autofill,       \* autofill[u]: autofill_info[u].enabled
  tasks,          \* the high priority task queue
  bridge,         \* a task_uart_bridge is in the medium priority queue
  pc,             \* what tasks and callbacks are doing
  cpu,            \* the uart, the value loaded, the interrupt level wanted
  touched,        \* history: the last call that touched the transmitter
  refused         \* history: tasks the interrupt handler could not post

hardware == <<rx_fifo, tx_fifo>>
queues == <<receive_queue, send_queue>>
posted == <<rx_posted, tx_posted>>
history == <<touched, refused>>
vars == <<hardware, queues, int_ena, posted, autofill, tasks, bridge,
          pc, cpu, history>>

fetch == <<"fetch_fifo", 0>>
fill(u) == <<"fill_fifo", u>>
other == <<"other", 0>>     \* any other high priority task
Task == {fetch, other} \cup {fill(u) : u \in Uart}

PC == {"idle", "fetch", "fetch_loaded", "drain", "rx_enable", "rx_loaded",
       "fetched", "fill", "fill_loaded", "refill", "tx_enable", "tx_loaded"}

\* The registers when nothing is held in them.
Blank == [uart |-> 0, count |-> 0, ena |-> {}, want |-> FALSE]

Least(a, b) == IF a < b THEN a ELSE b
-----------------------------------------------------------------------------
\* uart_init: receive interrupt on, transmit interrupts off.
Init ==
  /\ rx_fifo = 0
  /\ tx_fifo = [u \in Uart |-> 0]
  /\ receive_queue = 0
  /\ send_queue = [u \in Uart |-> 0]
  /\ int_ena = [u \in Uart |-> IF u = 0 THEN {"rx"} ELSE {}]
  /\ rx_posted = 0
  /\ tx_posted = [u \in Uart |-> 0]
  /\ autofill = [u \in Uart |-> FALSE]
  /\ tasks = << >>
  /\ bridge = FALSE
  /\ pc = "idle"
  /\ cpu = Blank
  /\ touched = [u \in Uart |-> "flush"]
  /\ refused = {}
-----------------------------------------------------------------------------
(* The hardware.                                                           *)

\* A byte comes in; it is lost when the fifo is full.
LineIn ==
  /\ rx_fifo < FifoSize
  /\ rx_fifo' = rx_fifo + 1
  /\ UNCHANGED <<tx_fifo, queues, int_ena, posted, autofill, tasks, bridge,
                 pc, cpu, history>>

\* A byte goes out.
LineOut(u) ==
  /\ tx_fifo[u] > 0
  /\ tx_fifo' = [tx_fifo EXCEPT ![u] = @ - 1]
  /\ UNCHANGED <<rx_fifo, queues, int_ena, posted, autofill, tasks, bridge,
                 pc, cpu, history>>

RxInterrupt == rx_fifo > 0 /\ "rx" \in int_ena[0]

TxInterrupt(u) == tx_fifo[u] < Threshold /\ "tx" \in int_ena[u]
-----------------------------------------------------------------------------
(* The interrupt handler: disable what fired, post a task for it unless    *)
(* one is still to run, in the order receive, transmit 0, transmit 1.      *)

\* Seeded fault: a fetch task is posted even when one is still to run.
FaultyWanted ==
  (IF RxInterrupt THEN <<fetch>> ELSE << >>)
    \o (IF TxInterrupt(0) /\ tx_posted[0] = 0 THEN <<fill(0)>> ELSE << >>)

Wanted ==
  LET tx(u) == IF u \in Uart /\ TxInterrupt(u) /\ tx_posted[u] = 0
               THEN <<fill(u)>> ELSE << >>
  IN  (IF RxInterrupt /\ rx_posted = 0 THEN <<fetch>> ELSE << >>)
        \o tx(0) \o tx(1)

uart_callback ==
  LET room == TaskQueueLength - Len(tasks)
      done == SubSeq(Wanted, 1, Least(Len(Wanted), room))
  IN  /\ RxInterrupt \/ \E u \in Uart : TxInterrupt(u)
      /\ int_ena' = [u \in Uart |->
           int_ena[u] \ ((IF u = 0 /\ RxInterrupt THEN {"rx"} ELSE {})
                           \cup (IF TxInterrupt(u) THEN {"tx"} ELSE {}))]
      /\ tasks' = tasks \o done
      /\ rx_posted' = rx_posted + (IF fetch \in ToSet(done) THEN 1 ELSE 0)
      /\ tx_posted' = [u \in Uart |->
           tx_posted[u] + (IF fill(u) \in ToSet(done) THEN 1 ELSE 0)]
      /\ refused' = refused \cup (ToSet(Wanted) \ ToSet(done))
      /\ UNCHANGED <<hardware, queues, autofill, bridge, pc, cpu, touched>>
-----------------------------------------------------------------------------
(* The SDK runs the oldest high priority task.                             *)
RunTask ==
  /\ pc = "idle"
  /\ tasks # << >>
  /\ tasks' = Tail(tasks)
  /\ LET t == Head(tasks)
     IN  /\ pc' = CASE t = fetch -> "fetch"
                    [] t = other -> "idle"
                    [] OTHER -> "fill"
         /\ cpu' = [cpu EXCEPT !.uart = t[2]]
  /\ UNCHANGED <<hardware, queues, int_ena, posted, autofill, bridge, history>>

\* Some other code posts a high priority task, room permitting.
PostOther ==
  /\ pc = "idle"
  /\ Len(tasks) < TaskQueueLength
  /\ tasks' = Append(tasks, other)
  /\ UNCHANGED <<hardware, queues, int_ena, posted, autofill, bridge,
                 pc, cpu, history>>

(* uart_task_handler_fetch_fifo: rx_posted--, drain the fifo into the      *)
(* receive queue, enable the interrupt, have the bridge look at it.        *)
FetchLoad ==
  /\ pc = "fetch"
  /\ cpu' = [cpu EXCEPT !.count = rx_posted]
  /\ pc' = "fetch_loaded"
  /\ UNCHANGED <<hardware, queues, int_ena, posted, autofill, tasks, bridge,
                 history>>

FetchStore ==
  /\ pc = "fetch_loaded"
  /\ rx_posted' = cpu.count - 1
  /\ pc' = "drain"
  /\ cpu' = Blank
  /\ UNCHANGED <<hardware, queues, int_ena, tx_posted, autofill, tasks, bridge,
                 history>>

\* What does not fit in the receive queue is dropped.
Drain ==
  /\ pc = "drain"
  /\ rx_fifo' = 0
  /\ receive_queue' = Least(receive_queue + rx_fifo, ReceiveSize)
  /\ pc' = "rx_enable"
  /\ UNCHANGED <<tx_fifo, send_queue, int_ena, posted, autofill, tasks, bridge,
                 cpu, history>>

\* enable_receive_int(uart, true): load and store of the enable register.
EnableRxLoad ==
  /\ pc = "rx_enable"
  /\ cpu' = [cpu EXCEPT !.ena = int_ena[0]]
  /\ pc' = "rx_loaded"
  /\ UNCHANGED <<hardware, queues, int_ena, posted, autofill, tasks, bridge,
                 history>>

EnableRxStore ==
  /\ pc = "rx_loaded"
  /\ int_ena' = [int_ena EXCEPT ![0] = cpu.ena \cup {"rx"}]
  /\ pc' = "fetched"
  /\ cpu' = Blank
  /\ UNCHANGED <<hardware, queues, posted, autofill, tasks, bridge, history>>

\* Only when uart_bridge_active; whether there was room is ignored.
PostBridge ==
  /\ pc = "fetched"
  /\ bridge' \in {bridge, TRUE}
  /\ pc' = "idle"
  /\ UNCHANGED <<hardware, queues, int_ena, posted, autofill, tasks, cpu,
                 history>>

(* uart_task_handler_fill_fifo: tx_posted--, fill the fifo, from the send  *)
(* queue or with the autofill character, enable the interrupt if there is  *)
(* more to come.                                                           *)
FillLoad ==
  /\ pc = "fill"
  /\ cpu' = [cpu EXCEPT !.count = tx_posted[cpu.uart]]
  /\ pc' = "fill_loaded"
  /\ UNCHANGED <<hardware, queues, int_ena, posted, autofill, tasks, bridge,
                 history>>

\* Seeded fault: tx_posted is not taken down.
FaultyFillStore ==
  /\ pc = "fill_loaded"
  /\ pc' = "refill"
  /\ cpu' = [cpu EXCEPT !.count = 0]
  /\ UNCHANGED <<hardware, queues, int_ena, posted, autofill, tasks, bridge,
                 history>>

FillStore ==
  /\ pc = "fill_loaded"
  /\ tx_posted' = [tx_posted EXCEPT ![cpu.uart] = cpu.count - 1]
  /\ pc' = "refill"
  /\ cpu' = [cpu EXCEPT !.count = 0]
  /\ UNCHANGED <<hardware, queues, int_ena, rx_posted, autofill, tasks, bridge,
                 history>>

Refill ==
  /\ pc = "refill"
  /\ LET u == cpu.uart
         n == IF tx_fifo[u] < FillLimit THEN FillLimit - tx_fifo[u] ELSE 0
         moved == Least(send_queue[u], n)
     IN  IF autofill[u]
           THEN /\ tx_fifo' = [tx_fifo EXCEPT ![u] = @ + n]
                /\ cpu' = [cpu EXCEPT !.want = TRUE]
                /\ UNCHANGED send_queue
           ELSE /\ tx_fifo' = [tx_fifo EXCEPT ![u] = @ + moved]
                /\ send_queue' = [send_queue EXCEPT ![u] = @ - moved]
                /\ cpu' = [cpu EXCEPT !.want = send_queue'[u] > 0]
  /\ pc' = "tx_enable"
  /\ UNCHANGED <<rx_fifo, receive_queue, int_ena, posted, autofill, tasks,
                 bridge, history>>

\* enable_transmit_int(uart, want): load and store of the enable register.
EnableTxLoad ==
  /\ pc = "tx_enable"
  /\ cpu' = [cpu EXCEPT !.ena = int_ena[cpu.uart]]
  /\ pc' = "tx_loaded"
  /\ UNCHANGED <<hardware, queues, int_ena, posted, autofill, tasks, bridge,
                 history>>

\* Seeded fault: the register is written as a whole.
FaultyEnableTxStore ==
  /\ pc = "tx_loaded"
  /\ int_ena' = [int_ena EXCEPT ![cpu.uart] = IF cpu.want THEN {"tx"} ELSE {}]
  /\ pc' = "idle"
  /\ cpu' = Blank
  /\ UNCHANGED <<hardware, queues, posted, autofill, tasks, bridge, history>>

EnableTxStore ==
  /\ pc = "tx_loaded"
  /\ int_ena' = [int_ena EXCEPT ![cpu.uart] = IF cpu.want
                                              THEN cpu.ena \cup {"tx"}
                                              ELSE cpu.ena \ {"tx"}]
  /\ pc' = "idle"
  /\ cpu' = Blank
  /\ UNCHANGED <<hardware, queues, posted, autofill, tasks, bridge, history>>
-----------------------------------------------------------------------------
(* Calls made by other tasks and callbacks.                                *)

\* uart_send: one byte, dropped when the queue is full.
uart_send(u) ==
  /\ pc = "idle"
  /\ send_queue' = [send_queue EXCEPT ![u] = Least(@ + 1, SendSize)]
  /\ touched' = [touched EXCEPT ![u] = "send"]
  /\ UNCHANGED <<hardware, receive_queue, int_ena, posted, autofill, tasks,
                 bridge, pc, cpu, refused>>

\* uart_flush, and uart_send_string which queues n bytes first.
uart_send_string(u, n) ==
  /\ pc = "idle"
  /\ send_queue' = [send_queue EXCEPT ![u] = Least(@ + n, SendSize)]
  /\ cpu' = [cpu EXCEPT !.uart = u, !.want = send_queue'[u] > 0]
  /\ pc' = "tx_enable"
  /\ touched' = [touched EXCEPT ![u] = "flush"]
  /\ refused' = refused \ {fill(u)}
  /\ UNCHANGED <<hardware, receive_queue, int_ena, posted, autofill, tasks,
                 bridge>>

uart_flush(u) == uart_send_string(u, 0)

(* uart_autofill switches the transmit interrupt with the autofill, also   *)
(* off when the send queue still holds bytes.                              *)
uart_autofill(u, enable) ==
  /\ pc = "idle"
  /\ autofill' = [autofill EXCEPT ![u] = enable]
  /\ cpu' = [cpu EXCEPT !.uart = u, !.want = enable]
  /\ pc' = "tx_enable"
  /\ touched' = [touched EXCEPT ![u] =
                   IF @ = "flush" /\ ~enable THEN "autofill" ELSE @]
  /\ UNCHANGED <<hardware, queues, int_ena, posted, tasks, bridge, refused>>

\* uart_baudrate, _data_bits, _stop_bits, _parity and _loopback all reset
\* the fifos of the UART (clear_fifos).
SetLine(u) ==
  /\ pc = "idle"
  /\ tx_fifo' = [tx_fifo EXCEPT ![u] = 0]
  /\ rx_fifo' = IF u = 0 THEN 0 ELSE rx_fifo
  /\ UNCHANGED <<queues, int_ena, posted, autofill, tasks, bridge, pc, cpu,
                 history>>

\* uart_receive, by code that found the queue not empty.
uart_receive ==
  /\ pc = "idle"
  /\ receive_queue > 0
  /\ receive_queue' = receive_queue - 1
  /\ UNCHANGED <<hardware, send_queue, int_ena, posted, autofill, tasks,
                 bridge, pc, cpu, history>>

uart_clear_receive_queue ==
  /\ pc = "idle"
  /\ receive_queue' = 0
  /\ UNCHANGED <<hardware, send_queue, int_ena, posted, autofill, tasks,
                 bridge, pc, cpu, history>>

\* task_uart_bridge takes what it can forward at that time: what the send
\* buffer has room for.
RunBridge ==
  /\ pc = "idle"
  /\ tasks = << >>
  /\ bridge
  /\ bridge' = FALSE
  /\ receive_queue' \in 0 .. receive_queue
  /\ UNCHANGED <<hardware, send_queue, int_ena, posted, autofill, tasks,
                 pc, cpu, history>>
-----------------------------------------------------------------------------
Running ==
  \/ FetchLoad \/ FetchStore \/ Drain \/ EnableRxLoad \/ EnableRxStore
  \/ PostBridge
  \/ FillLoad \/ FillStore \/ Refill \/ EnableTxLoad \/ EnableTxStore

Calls ==
  \/ \E u \in Uart :
       \/ uart_send(u) \/ uart_flush(u) \/ SetLine(u)
       \/ \E n \in 1 .. SendSize : uart_send_string(u, n)
       \/ \E e \in BOOLEAN : uart_autofill(u, e)
  \/ uart_receive \/ uart_clear_receive_queue

Next ==
  \/ LineIn \/ \E u \in Uart : LineOut(u)
  \/ uart_callback
  \/ RunTask \/ PostOther \/ Running \/ RunBridge
  \/ Calls

(* The hardware shifts out what it is given, an interrupt that is raised   *)
(* is taken, and started code runs on.  Timer and network callbacks come   *)
(* between the tasks, so running one is enabled again and again and not    *)
(* all the time: strong fairness says that callbacks do not take all of    *)
(* the processor's time for ever.                                          *)
Fairness ==
  /\ \A u \in Uart : WF_vars(LineOut(u))
  /\ WF_vars(uart_callback)
  /\ WF_vars(Running)
  /\ SF_vars(RunTask)

Spec == Init /\ [][Next]_vars

FairSpec == Spec /\ Fairness
-----------------------------------------------------------------------------
TypeOK ==
  /\ rx_fifo \in 0 .. FifoSize
  /\ tx_fifo \in [Uart -> 0 .. FifoSize]
  /\ receive_queue \in 0 .. ReceiveSize
  /\ send_queue \in [Uart -> 0 .. SendSize]
  /\ int_ena \in [Uart -> SUBSET {"rx", "tx"}]
  /\ rx_posted \in 0 .. 1
  /\ tx_posted \in [Uart -> 0 .. 1]
  /\ autofill \in [Uart -> BOOLEAN]
  /\ tasks \in Seq(Task) /\ Len(tasks) <= TaskQueueLength
  /\ bridge \in BOOLEAN
  /\ pc \in PC
  /\ cpu \in [uart : Uart, count : 0 .. 1, ena : SUBSET {"rx", "tx"},
              want : BOOLEAN]
  /\ touched \in [Uart -> {"flush", "send", "autofill"}]
  /\ refused \subseteq Task

Pending(t) == Cardinality({i \in DOMAIN tasks : tasks[i] = t})

\* A fetch or fill task that has not taken its posted count down yet.
Starting(t) ==
  IF \/ t = fetch /\ pc \in {"fetch", "fetch_loaded"}
     \/ t = fill(cpu.uart) /\ pc \in {"fill", "fill_loaded"}
  THEN 1 ELSE 0

(* rx_posted and tx_posted are updated by tasks and by the interrupt       *)
(* handler without protection, yet always say exactly how many fetch and   *)
(* fill tasks are still to start, never more than one of each: the counts  *)
(* that decide whether the handler posts cannot drift.                     *)
PostedExact ==
  /\ rx_posted = Pending(fetch) + Starting(fetch)
  /\ \A u \in Uart : tx_posted[u] = Pending(fill(u)) + Starting(fill(u))

\* A fetch task that has not come to the end of enable_receive_int.
Fetching ==
  \/ Pending(fetch) > 0
  \/ pc \in {"fetch", "fetch_loaded", "drain", "rx_enable", "rx_loaded"}

(* The receive interrupt is off only as long as a fetch task will switch   *)
(* it on again.  A race on the enable register can switch it on too early, *)
(* which is harmless, but never lose it.  The one exception: the handler   *)
(* could not post that task, after which nothing enables it any more.      *)
ReceiverServed == "rx" \in int_ena[0] \/ Fetching \/ fetch \in refused

\* Something that will look at the send queue of u.
Filling(u) ==
  \/ "tx" \in int_ena[u]
  \/ Pending(fill(u)) > 0
  \/ cpu.uart = u /\ pc \in {"fill", "fill_loaded", "refill"}
  \/ cpu.uart = u /\ pc \in {"tx_enable", "tx_loaded"} /\ cpu.want

(* When a send queue that has been flushed holds bytes, there is always an *)
(* enabled interrupt or a task that will get to them, unless the handler   *)
(* could not post the task; the next flush repairs that.                   *)
SenderServed ==
  \A u \in Uart :
    send_queue[u] > 0 /\ touched[u] = "flush"
      => Filling(u) \/ fill(u) \in refused

(* Both directions at any time: no interrupt that is needed is off with    *)
(* nobody left to switch it on.                                            *)
Served == ReceiverServed /\ SenderServed

(* What is in the receive fifo gets fetched.                               *)
ReceiveProgress == rx_fifo > 0 ~> rx_fifo = 0 \/ fetch \in refused

\* A fill task is about to move bytes from the send queue to the fifo.
Moving(u) == pc = "refill" /\ cpu.uart = u /\ tx_fifo[u] < FillLimit

(* While bytes are queued and flushed, bytes keep moving to the line,      *)
(* unless another call touches the transmitter or autofill keeps it busy.  *)
SendProgress ==
  \A u \in Uart :
    send_queue[u] > 0 /\ touched[u] = "flush"
      ~> \/ send_queue[u] = 0
         \/ Moving(u)
         \/ touched[u] # "flush"
         \/ autofill[u]
         \/ fill(u) \in refused

(* Bytes move in both directions (uart.c 58-115, 223-340).                 *)
Progress == ReceiveProgress /\ SendProgress
=============================================================================
