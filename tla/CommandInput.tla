---------------------------- MODULE CommandInput ----------------------------
(***************************************************************************)
(* How a command gets from the network, or from the UART, to the command   *)
(* interpreter: received_callback of lwip-interface.c, the callback of the *)
(* command socket, the slow timer and the task task_received_command of    *)
(* dispatch.c.  TCP segments, UDP datagrams and UART bytes share one       *)
(* receive buffer.  Two lock bits of the socket say whether TCP and UDP    *)
(* data may go into it; command_input_state says whether the rest of a TCP *)
(* packet is being waited for.                                             *)
(*                                                                         *)
(* Callbacks and tasks do not preempt each other, so each is one action.   *)
(* What lies between them is what makes this hard: a command waits in the  *)
(* task queue while more data, another connection or the timer comes.      *)
(*                                                                         *)
(* A message is a record; the buffer is a sequence of units, each naming   *)
(* the message and the place in it where it comes from, and the sender.    *)
(***************************************************************************)
EXTENDS Integers, Sequences, FiniteSets, SequencesExt

CONSTANTS
  Message,          \* what clients send, a set of records, see MessageType
  UartCommand,      \* what is typed at the UART, a message too
  HeaderSize,       \* sizeof(packet_header_t)
  Mss,              \* the segment size tested for, 1460
  SectorSize,       \* SPI_FLASH_SEC_SIZE
  BufferSize,       \* size of command_socket_receive_buffer
  Timeout,          \* command_input_state_timeout, in ticks
  TaskQueueLength,  \* task_queue_length
  CmdFromUart       \* flag_cmd_from_uart is set

(* packet: the message starts with a packet header, in which `declared' is *)
(* the length field, `tid' the transaction id or -1 for none, `md5' says   *)
(* whether a checksum is provided, and `wanted' that version, broadcast    *)
(* groups and out of band data are such that the command is not dropped.   *)
MessageType ==
  [id : STRING, packet : BOOLEAN, len : Nat \ {0}, declared : Nat,
   tid : Int, md5 : BOOLEAN, wanted : BOOLEAN]

ASSUME CommandInputAssumption ==
  /\ \A m \in Message \cup {UartCommand} : m \in MessageType
  /\ {HeaderSize, Mss, SectorSize, BufferSize} \subseteq Nat \ {0}
  /\ Timeout \in Nat \ {0}
  /\ TaskQueueLength \in Nat \ {0}
  /\ CmdFromUart \in BOOLEAN

VARIABLES
  buf,        \* command_socket_receive_buffer
  locked,     \* socket->receive_buffer_locked, a subset of Proto
  expected,   \* command_input_state.expected
  timeout,    \* command_input_state.timeout
  parts,      \* command_input_state.parts
  peer,       \* the protocol of the sender: socket->peer.port # 0 is udp
  tasks,      \* task_received_command events in the high priority queue
  previous,   \* previous_transaction_id
  sending,    \* socket->sending_remaining > 0
  stream,     \* what the TCP client is in the middle of sending
  session,    \* tells a TCP connection from the one before it
  typed,      \* the units of UartCommand read from the UART so far
  refused,    \* history: a command task could not be posted
  recent,     \* history: the last two transactions executed
  impossible  \* history: log messages of states thought impossible

input == <<expected, timeout, parts>>
socket == <<buf, locked, peer>>
world == <<stream, session, typed>>
vars == <<input, socket, tasks, previous, sending, world, refused, recent,
          impossible>>

Proto == {"tcp", "udp"}
None == [msg |-> UartCommand, next |-> 0]   \* no message is being sent

\* Units a to b of message m as sent by one of the sources.
Source == {"udp", "tcp0", "tcp1", "uart"}
Slice(m, a, b, from) == [i \in 1 .. b - a + 1 |->
                           [msg |-> m, pos |-> a + i - 1, from |-> from]]
TcpSource == IF session = 0 THEN "tcp0" ELSE "tcp1"
-----------------------------------------------------------------------------
Init ==
  /\ buf = << >>
  /\ locked = {}
  /\ expected = 0 /\ timeout = 0 /\ parts = 0
  /\ peer = "tcp"
  /\ tasks = << >>
  /\ previous = <<0, 0>>
  /\ sending = FALSE
  /\ stream = None
  /\ session = 0
  /\ typed = 0
  /\ refused = FALSE
  /\ recent = << >>
  /\ impossible = {}
-----------------------------------------------------------------------------
(* What socket_command_callback_data_received decides to do with the       *)
(* buffer: hand it over as a command, wait for more, or drop it.  `seen'   *)
(* is what it logs on the way.  The end of a line is taken off a text that *)
(* comes in one segment, and off no other.                                 *)
Push(kind) == [do |-> "push", kind |-> kind, trim |-> FALSE, seen |-> {}]
PushLine == [Push("text") EXCEPT !.trim = TRUE]
More(e, t) == [do |-> "more", expected |-> e, timeout |-> t, seen |-> {}]
Drop(seen) == [do |-> "drop", seen |-> seen]

\* The buffer starts with a complete packet header.
HasHeader(b) ==
  Len(b) >= HeaderSize /\ b[1].msg.packet /\ b[1].pos = 1

\* More TCP segments are expected, of raw data or of a packet.
ContinuedSegment(b) ==
  CASE expected = 0 /\ Len(b) > SectorSize -> Push("text")
    [] expected = 0 /\ Len(b) <= SectorSize -> More(0, timeout)
    [] expected # 0 /\ Len(b) = expected -> Push("packet")
    [] expected # 0 /\ Len(b) < expected -> More(expected, timeout)
    [] expected # 0 /\ Len(b) > expected -> Drop({})

FirstSegment(b) ==
  IF HasHeader(b)
  THEN CASE expected # 0 \/ timeout # 0 -> Drop({"another session"})
         [] Len(b) = b[1].msg.declared -> Push("packet")
         [] Len(b) < b[1].msg.declared -> More(b[1].msg.declared, Timeout)
         [] OTHER -> Drop({})
  ELSE IF Len(b) # Mss THEN PushLine ELSE More(0, Timeout)

TcpData(b, total) ==
  CASE total > 3 -> Drop({})
    [] total <= 3 /\ timeout > 0 -> ContinuedSegment(b)
    [] total = 1 /\ timeout = 0 -> FirstSegment(b)
    [] OTHER -> Drop({})    \* "tcp invalid state"

UdpData(b, total) ==
  CASE total > 1 -> Drop({"fragmented"})
    [] total <= 1 /\ expected > 0 -> Drop({"udp while expecting packet"})
    [] total <= 1 /\ expected = 0 /\ timeout > 0 ->
         Drop({"udp while expecting raw"})
    [] OTHER ->
         IF ~HasHeader(b) THEN Push("text")
         ELSE IF Len(b) = b[1].msg.declared THEN Push("packet") ELSE Drop({})

\* dispatch_post_task for a command; no caller looks at the result.
PostCommand(kind) ==
  \/ /\ Len(tasks) < TaskQueueLength
     /\ tasks' = Append(tasks, kind)
     /\ UNCHANGED refused
  \/ /\ refused' = TRUE     \* other tasks have filled the queue
     /\ UNCHANGED tasks

(* What string_trim_nl makes of the buffer: one or two of CR and LF may be *)
(* at its end; of an empty line nothing is left.                           *)
Trimmed(b) == {SubSeq(b, 1, n) : n \in (Len(b) - 2 .. Len(b)) \cap Nat}

\* What is handed over as a command.
Handed(verdict, b) == IF verdict.trim THEN Trimmed(b) ELSE {b}

\* Seeded fault: UDP is let in as well while a TCP packet is incomplete.
FaultyCarryOut(verdict, b, total) ==
  /\ impossible' = impossible \cup verdict.seen
  /\ CASE verdict.do = "push" ->
            /\ buf' \in Handed(verdict, b)
            /\ expected' = 0 /\ timeout' = 0 /\ parts' = 0
            /\ locked' = Proto
            /\ PostCommand(verdict.kind)
       [] verdict.do = "more" ->
            /\ buf' = b
            /\ expected' = verdict.expected /\ timeout' = verdict.timeout
            /\ parts' = total
            /\ locked' = {}
            /\ UNCHANGED <<tasks, refused>>
       [] verdict.do = "drop" ->
            /\ buf' = << >>
            /\ expected' = 0 /\ timeout' = 0 /\ parts' = 0
            /\ locked' = {}
            /\ UNCHANGED <<tasks, refused>>

\* Seeded fault: TCP is not locked out when a command is handed over.
OpenCarryOut(verdict, b, total) ==
  /\ impossible' = impossible \cup verdict.seen
  /\ buf' \in CASE verdict.do = "push" -> Handed(verdict, b)
               [] verdict.do = "more" -> {b}
               [] verdict.do = "drop" -> {<< >>}
  /\ IF verdict.do = "more"
       THEN /\ expected' = verdict.expected /\ timeout' = verdict.timeout
            /\ parts' = total
       ELSE expected' = 0 /\ timeout' = 0 /\ parts' = 0
  /\ locked' = IF verdict.do = "drop" THEN {} ELSE {"udp"}
  /\ IF verdict.do = "push" THEN PostCommand(verdict.kind)
                            ELSE UNCHANGED <<tasks, refused>>

\* While waiting for more, only TCP is unlocked.
CarryOut(verdict, b, total) ==
  /\ impossible' = impossible \cup verdict.seen
  /\ CASE verdict.do = "push" ->
            /\ buf' \in Handed(verdict, b)
            /\ expected' = 0 /\ timeout' = 0 /\ parts' = 0
            /\ locked' = Proto
            /\ PostCommand(verdict.kind)
       [] verdict.do = "more" ->
            /\ buf' = b
            /\ expected' = verdict.expected /\ timeout' = verdict.timeout
            /\ parts' = total
            /\ locked' = {"udp"}
            /\ UNCHANGED <<tasks, refused>>
       [] verdict.do = "drop" ->
            /\ buf' = << >>
            /\ expected' = 0 /\ timeout' = 0 /\ parts' = 0
            /\ locked' = {}
            /\ UNCHANGED <<tasks, refused>>

\* The verdict on what has been received; b may not fit in the buffer.
Verdict(proto, b, total) ==
  IF Len(b) > BufferSize THEN Drop({})
  ELSE IF proto = "tcp" THEN TcpData(b, total) ELSE UdpData(b, total)

(* received_callback with one segment or datagram, which has come in a     *)
(* number of pbufs: data for a locked protocol is dropped; else the pbufs  *)
(* that fit are appended and the callback of the command socket is run.    *)
(* When one of them did not fit it drops what did.                         *)
received_callback(proto, units, pbufs) ==
  IF proto \in locked
  THEN UNCHANGED <<input, socket, tasks, refused, impossible>>
  ELSE LET b == buf \o units
           total == parts + (IF proto = "tcp" THEN pbufs ELSE 1)
       IN  peer' = proto /\ CarryOut(Verdict(proto, b, total), b, total)
-----------------------------------------------------------------------------
(* The network.  A TCP client sends one message after the other, cut into  *)
(* segments anywhere, and a segment may arrive in one or two pbufs.  It    *)
(* need not wait for a reply, and can disappear at any time; the next      *)
(* connection then replaces it.  Neither is told to the command input.     *)

TcpSegment(m, a, b) ==
  /\ \E pbufs \in {1, 2} :
       received_callback("tcp", Slice(m, a, b, TcpSource), pbufs)
  /\ stream' = IF b = m.len THEN None ELSE [msg |-> m, next |-> b + 1]
  /\ UNCHANGED <<previous, sending, session, typed, recent>>

StartMessage(m) ==
  /\ stream = None
  /\ \E b \in 1 .. m.len : TcpSegment(m, 1, b)

ContinueMessage ==
  /\ stream # None
  /\ \E b \in stream.next .. stream.msg.len :
       TcpSegment(stream.msg, stream.next, b)

\* tcp_accepted_callback; the connection there was is closed or aborted.
Reconnect ==
  /\ session' = 1 - session
  /\ stream' = None
  /\ sending' = FALSE
  /\ UNCHANGED <<input, socket, tasks, previous, typed, refused, recent,
                 impossible>>

Datagram(m) ==
  /\ received_callback("udp", Slice(m, 1, m.len, "udp"), 1)
  /\ UNCHANGED <<previous, sending, world, recent>>

\* The last of a reply is given to TCP, or sending it has failed.
SendDone ==
  /\ sending
  /\ sending' = FALSE
  /\ UNCHANGED <<input, socket, tasks, previous, world, refused, recent,
                 impossible>>
-----------------------------------------------------------------------------
(* background_task_bridge_uart with flag_cmd_from_uart set: what has been  *)
(* typed goes into the receive buffer as far as there is room, whatever    *)
(* the lock bits say; at the end of the line the command is posted.        *)
BridgeUart ==
  /\ CmdFromUart
  /\ \E n \in typed + 1 .. UartCommand.len :
       /\ LET b == buf \o Slice(UartCommand, typed + 1, n, "uart")
          IN  buf' = IF Len(b) <= BufferSize THEN b ELSE SubSeq(b, 1, BufferSize)
       /\ IF n = UartCommand.len
            THEN typed' = 0 /\ PostCommand("uart")
            ELSE typed' = n /\ UNCHANGED <<tasks, refused>>
  /\ UNCHANGED <<input, locked, peer, previous, sending, stream, session,
                 recent, impossible>>
-----------------------------------------------------------------------------
\* Seeded fault: the buffer stays locked when a partial packet is given up.
FaultyTick ==
  /\ timeout > 0
  /\ timeout' = timeout - 1
  /\ IF timeout = 1
       THEN expected' = 0 /\ parts' = 0 /\ buf' = << >>
       ELSE UNCHANGED <<expected, parts, buf>>
  /\ UNCHANGED <<locked, peer, tasks, previous, sending, world, refused,
                 recent, impossible>>

(* slow_timer_callback: a TCP packet that stays incomplete is given up.    *)
Tick ==
  /\ timeout > 0
  /\ timeout' = timeout - 1
  /\ IF timeout = 1
       THEN /\ expected' = 0 /\ parts' = 0
            /\ buf' = << >>
            /\ locked' = {}
       ELSE UNCHANGED <<expected, parts, buf, locked>>
  /\ UNCHANGED <<peer, tasks, previous, sending, world, refused, recent,
                 impossible>>

\* The buffer holds one message, complete and unaltered.
Whole(b) ==
  /\ b # << >>
  /\ Len(b) = b[1].msg.len
  /\ \A i \in DOMAIN b : b[i].msg = b[1].msg /\ b[i].pos = i

(* The packet header read by task_received_command.  It is the one that   *)
(* was received unless another task has emptied the buffer since: then     *)
(* whatever the buffer held before is still there.                         *)
Headers(b) == IF b = << >> THEN Message ELSE {b[1].msg}

\* The packet checks of task_received_command, in the code's order.
Accepted(header, b) ==
  /\ header.md5 => Whole(b)
  /\ header.wanted
  /\ header.tid \notin ToSet(previous)

\* Seeded fault: the older of the two remembered ids is kept.
FaultyRemember(tid) == previous' = <<tid, previous[2]>>

Remember(tid) == previous' = <<tid, previous[1]>>

(* The command is interpreted and the reply handed to the socket, which    *)
(* may not get rid of all of it at once when it goes to TCP.  The ids of   *)
(* executed packets push older ones out.                                   *)
Execute(kind, tid) ==
  /\ IF kind = "packet" /\ tid # -1
       THEN /\ Remember(tid)
            /\ recent' = IF recent = << >> THEN <<tid>> ELSE <<tid, recent[1]>>
       ELSE UNCHANGED <<previous, recent>>
  /\ sending' \in (IF kind # "uart" /\ peer = "tcp" THEN BOOLEAN
                                                    ELSE {FALSE})

(* What becomes of a command: it is put off as long as an earlier reply is *)
(* being sent, dropped or executed.  A text is dropped when a NUL in it,   *)
(* which can only have come by the network, announces data behind it that  *)
(* is not there.                                                           *)
Outcomes(kind, header, b) ==
  CASE sending -> {"late"}
    [] ~sending /\ kind = "packet" ->
         IF Accepted(header, b) THEN {"executed"} ELSE {"dropped"}
    [] ~sending /\ kind # "packet" ->
         IF \E i \in DOMAIN b : b[i].from # "uart" THEN {"executed", "dropped"}
                                                  ELSE {"executed"}

(* task_received_command.  Whatever becomes of the command the buffer is   *)
(* emptied and both protocols are let in again, except that dropping what  *)
(* was typed at the UART leaves both as they are.                          *)
RunCommand ==
  /\ tasks # << >>
  /\ tasks' = Tail(tasks)
  /\ \E header \in Headers(buf) :
       \E outcome \in Outcomes(Head(tasks), header, buf) :
         /\ IF outcome = "executed" THEN Execute(Head(tasks), header.tid)
                                    ELSE UNCHANGED <<previous, recent, sending>>
         /\ IF outcome = "dropped" /\ Head(tasks) = "uart"
              THEN UNCHANGED <<buf, locked>>
              ELSE buf' = << >> /\ locked' = {}
  /\ UNCHANGED <<input, peer, world, refused, impossible>>
-----------------------------------------------------------------------------
Next ==
  \/ \E m \in Message : StartMessage(m) \/ Datagram(m)
  \/ ContinueMessage \/ Reconnect \/ SendDone
  \/ BridgeUart
  \/ Tick \/ RunCommand

(* Timers keep running and posted tasks get their turn.                    *)
Fairness == WF_vars(Tick) /\ WF_vars(RunCommand)

Spec == Init /\ [][Next]_vars

FairSpec == Spec /\ Fairness
-----------------------------------------------------------------------------
Unit == [msg : Message \cup {UartCommand}, pos : Nat \ {0}, from : Source]

\* The protocol a unit came in by.
ProtoOf(unit) == IF unit.from = "udp" THEN "udp" ELSE "tcp"

(* The variables have their types: the buffer never grows past its size,   *)
(* the parts counted past three nor the timer past its start value.        *)
TypeOK ==
  /\ buf \in Seq(Unit) /\ Len(buf) <= BufferSize
  /\ locked \subseteq Proto
  /\ expected \in Nat
  /\ timeout \in 0 .. Timeout
  /\ parts \in 0 .. 3
  /\ peer \in Proto
  /\ tasks \in Seq({"text", "packet", "uart"}) /\ Len(tasks) <= TaskQueueLength
  /\ previous \in Int \X Int
  /\ sending \in BOOLEAN /\ refused \in BOOLEAN
  /\ session \in {0, 1} /\ typed \in Nat
  /\ impossible \subseteq {"another session", "fragmented",
        "udp while expecting packet", "udp while expecting raw"}

(* While the rest of a TCP packet is waited for there is a part of it, it  *)
(* is shorter than what is expected, UDP is locked out, TCP is not, and no *)
(* command is queued that would empty the buffer.  When nothing is waited  *)
(* for the counters are back at zero (command_input_state, dispatch.c).    *)
WaitingOK ==
  /\ timeout = 0 => expected = 0 /\ parts = 0
  /\ timeout > 0 => /\ parts > 0 /\ buf # << >>
                    /\ locked = {"udp"}
                    /\ tasks = << >>
                    /\ expected # 0 => Len(buf) < expected

(* A command queued by the network is the only one, keeps both protocols   *)
(* locked out until it has run, has its packet in the buffer, and          *)
(* everything there came by the protocol the reply is going to be sent by  *)
(* (lwip_if_send looks at peer).                                           *)
CommandHeld ==
  tasks # << >> => /\ Len(tasks) = 1
                   /\ locked = Proto
                   /\ timeout = 0
                   /\ Head(tasks) # "uart"
                   /\ Head(tasks) = "packet" => buf # << >>
                   /\ \A i \in DOMAIN buf : ProtoOf(buf[i]) = peer

(* Whenever nothing is queued, waited for or lost, both protocols are let  *)
(* in and start with an empty buffer: every way out of the callback, the   *)
(* task and the timer unlocks and clears.                                  *)
IdleIsOpen ==
  tasks = << >> /\ timeout = 0 /\ ~refused => locked = {} /\ buf = << >>

(* The lock bits at any time: while waiting, while a command is queued and *)
(* when there is nothing to do (dispatch.c 351-435, 604-630, 657-866).     *)
LockDiscipline == WaitingOK /\ CommandHeld /\ IdleIsOpen

(* The checks the comments and log messages of the data received callback  *)
(* make of states that the lock bits should rule out never succeed.        *)
NoImpossible == impossible = {}

(* Between the posting of a command and its execution its bytes stay what  *)
(* they were: no segment, datagram, timer tick or new connection gets at   *)
(* the receive buffer.  (Bytes typed at the UART do.)                      *)
CommandStable == [][tasks # << >> /\ tasks' # << >> => UNCHANGED buf]_vars

(* A packet that is repeated because its answer was lost is not executed   *)
(* again as long as no more than one other has been executed since: the    *)
(* two transaction ids remembered are the last two executed.               *)
DuplicateWindow ==
  [][recent' # recent => recent'[1] \notin ToSet(recent)]_vars

(* UDP is let in again and again: the timer ends what a TCP client leaves  *)
(* unfinished, and the task that runs a command unlocks.  If that task was *)
(* refused by a full queue nothing does.                                   *)
UdpLetIn == []<>("udp" \notin locked \/ refused)

(* "already waiting for another session ... drop" (dispatch.c:735): what   *)
(* is taken for one command does not come from two TCP connections.        *)
SessionsDoNotMix == ~({"tcp0", "tcp1"} \subseteq {buf[i].from : i \in DOMAIN buf})
=============================================================================
