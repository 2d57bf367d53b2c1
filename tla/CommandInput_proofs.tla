------------------------ MODULE CommandInput_proofs -------------------------
(* Proofs about CommandInput, for every set of messages, every size and    *)
(* every segmentation, when commands are not taken from the UART.          *)
EXTENDS CommandInput, TLAPS

-----------------------------------------------------------------------------
(* What makes the invariants inductive: the message being sent is one of   *)
(* the messages, and what TypeOK says of the history variables.            *)
StreamOK ==
  /\ stream.msg \in Message \cup {UartCommand}
  /\ stream.next \in Nat
  /\ stream # None => stream.next \in Nat \ {0}

\* The parts of a packet that is waited for came by TCP.
PartsByTcp == timeout > 0 => \A i \in DOMAIN buf : ProtoOf(buf[i]) = "tcp"

\* With nothing to do the buffer is open, or locked for ever.
OpenOrLost ==
  tasks = << >> /\ timeout = 0 =>
    (locked = {} /\ buf = << >>) \/ (refused /\ locked = Proto)

IInv == TypeOK /\ StreamOK /\ WaitingOK /\ CommandHeld /\ PartsByTcp
               /\ OpenOrLost /\ NoImpossible

(* The types the arithmetic of the callback needs.                         *)
LEMMA Counters ==
  ASSUME TypeOK
  PROVE  /\ timeout \in Nat /\ timeout <= Timeout
         /\ expected \in Nat
         /\ parts \in Nat /\ parts <= 3
         /\ buf \in Seq(Unit) /\ Len(buf) <= BufferSize
<1>1. timeout \in 0 .. Timeout /\ expected \in Nat /\ parts \in 0 .. 3
  BY Zenon DEF TypeOK
<1>2. buf \in Seq(Unit) /\ Len(buf) <= BufferSize
  BY Zenon DEF TypeOK
<1> QED BY <1>1, <1>2, CommandInputAssumption

AnyMessage == Message \cup {UartCommand}

LEMMA Messages == AnyMessage \subseteq MessageType
BY CommandInputAssumption DEF AnyMessage

\* A slice of a message is a sequence of units of the sender's protocol.
LEMMA SliceType ==
  ASSUME NEW m \in AnyMessage, NEW a \in Nat \ {0}, NEW b \in Nat, b >= a,
         NEW from \in Source
  PROVE  /\ Slice(m, a, b, from) \in Seq(Unit)
         /\ Len(Slice(m, a, b, from)) = b - a + 1
         /\ \A i \in DOMAIN Slice(m, a, b, from) :
              Slice(m, a, b, from)[i].from = from
<1> DEFINE n == b - a + 1
           u(i) == [msg |-> m, pos |-> a + i - 1, from |-> from]
<1>1. n \in Nat
  OBVIOUS
<1>2. \A i \in 1 .. n : u(i) \in Unit
  BY DEF Unit, AnyMessage
<1> HIDE DEF u
<1>3. [i \in 1 .. n |-> u(i)] \in Seq(Unit)
  BY <1>1, <1>2
<1>4. Slice(m, a, b, from) = [i \in 1 .. n |-> u(i)]
  BY DEF Slice, u
<1>5. Len([i \in 1 .. n |-> u(i)]) = n
  BY <1>1
<1>6. \A i \in 1 .. n : u(i).from = from
  BY DEF u
<1> QED
  BY <1>3, <1>4, <1>5, <1>6

(* The verdict on a buffer is one of the four that do no harm: the states  *)
(* the callback thinks impossible are.                                     *)
Sound(v, proto, b, total) ==
  \/ v = Push("text") \/ v = Push("packet") \/ v = PushLine \/ v = Drop({})
  \/ /\ proto = "tcp" /\ total \in 1 .. 3
     /\ \E e \in Nat, t \in 1 .. Timeout :
          v = More(e, t) /\ (e # 0 => Len(b) < e)

LEMMA TcpVerdict ==
  ASSUME IInv, NEW b \in Seq(Unit), b # << >>, "tcp" \notin locked,
         NEW total \in Nat, total > parts
  PROVE  Sound(TcpData(b, total), "tcp", b, total)
<1>1. timeout \in Nat /\ expected \in Nat /\ parts \in Nat /\ timeout <= Timeout
  BY Counters DEF IInv
<1>2. b[1].msg.declared \in Nat /\ Len(b) \in Nat
  <2>1. b[1] \in Unit /\ Len(b) \in Nat
    OBVIOUS
  <2>2. b[1].msg \in AnyMessage
    BY <2>1 DEF Unit, AnyMessage
  <2>3. b[1].msg \in MessageType
    BY <2>2, Messages
  <2> QED BY <2>1, <2>3 DEF MessageType
<1>3. CASE total > 3
  BY <1>3 DEF TcpData, Sound
<1>4. CASE total <= 3 /\ timeout > 0
  <2>1. TcpData(b, total) = ContinuedSegment(b)
    BY <1>4, <1>1 DEF TcpData
  <2>2. total \in 1 .. 3 /\ timeout \in 1 .. Timeout
    BY <1>4, <1>1
  <2>3. CASE expected = 0
    <3>1. SectorSize \in Nat
      BY CommandInputAssumption
    <3>2. CASE Len(b) > SectorSize
      BY <2>1, <2>3, <3>1, <3>2, <1>2 DEF ContinuedSegment, Sound
    <3>3. CASE Len(b) <= SectorSize
      <4>1. ContinuedSegment(b) = More(0, timeout)
        BY <2>3, <3>1, <3>3, <1>2 DEF ContinuedSegment
      <4> QED BY <4>1, <2>1, <2>2 DEF Sound
    <3> QED BY <3>1, <3>2, <3>3, <1>2
  <2>4. CASE expected # 0 /\ Len(b) < expected
    <3>1. ContinuedSegment(b) = More(expected, timeout)
      BY <2>4, <1>1, <1>2 DEF ContinuedSegment
    <3> QED BY <3>1, <2>1, <2>2, <2>4, <1>1 DEF Sound
  <2>5. CASE expected # 0 /\ Len(b) = expected
    BY <2>1, <2>5, <1>1, <1>2 DEF ContinuedSegment, Sound
  <2>6. CASE expected # 0 /\ Len(b) > expected
    BY <2>1, <2>6, <1>1, <1>2 DEF ContinuedSegment, Sound
  <2> QED BY <2>3, <2>4, <2>5, <2>6, <1>1, <1>2
<1>5. CASE total = 1 /\ timeout = 0
  <2>1. TcpData(b, total) = FirstSegment(b)
    BY <1>5, <1>1 DEF TcpData
  <2>2. expected = 0
    BY <1>5 DEF IInv, WaitingOK
  <2>3. total \in 1 .. 3 /\ Timeout \in 1 .. Timeout
    BY <1>5, CommandInputAssumption
  <2>4. CASE HasHeader(b)
    <3>1. CASE Len(b) < b[1].msg.declared
      <4>1. FirstSegment(b) = More(b[1].msg.declared, Timeout)
        BY <3>1, <2>4, <2>2, <1>5, <1>2 DEF FirstSegment
      <4> QED BY <4>1, <3>1, <2>1, <2>3, <1>2 DEF Sound
    <3>2. CASE ~(Len(b) < b[1].msg.declared)
      BY <3>2, <2>1, <2>4, <2>2, <1>5, <1>2 DEF FirstSegment, Sound
    <3> QED BY <3>1, <3>2
  <2>5. CASE ~HasHeader(b)
    BY <2>5, <2>1, <2>3 DEF FirstSegment, Sound
  <2> QED BY <2>4, <2>5
<1>6. CASE total > 1 /\ total <= 3 /\ timeout = 0
  BY <1>6, <1>1 DEF TcpData, Sound
<1>7. total >= 1 /\ (timeout > 0 \/ timeout = 0)
  BY <1>1
<1>8. \/ total > 3 \/ (total <= 3 /\ timeout > 0) \/ (total = 1 /\ timeout = 0)
      \/ (total > 1 /\ total <= 3 /\ timeout = 0)
  BY <1>7
<1> QED BY <1>3, <1>4, <1>5, <1>6, <1>8

LEMMA UdpVerdict ==
  ASSUME IInv, NEW b \in Seq(Unit), b # << >>, "udp" \notin locked
  PROVE  Sound(UdpData(b, parts + 1), "udp", b, parts + 1)
<1>1. timeout = 0
  <2>1. ~(timeout > 0)
    BY DEF IInv, WaitingOK
  <2> QED BY <2>1, Counters DEF IInv
<1>2. expected = 0 /\ parts = 0
  BY <1>1 DEF IInv, WaitingOK
<1>3. UdpData(b, parts + 1) \in {Push("text"), Push("packet"), Drop({})}
  BY <1>1, <1>2 DEF UdpData
<1> QED BY <1>3 DEF Sound
-----------------------------------------------------------------------------
\* The verdict on anything received is sound.
LEMMA SoundVerdict ==
  ASSUME IInv, NEW proto \in Proto, proto \notin locked,
         NEW b \in Seq(Unit), b # << >>, NEW total \in Nat, total > parts,
         proto = "udp" => total = parts + 1
  PROVE  Sound(Verdict(proto, b, total), proto, b, total)
<1>1. CASE Len(b) > BufferSize
  BY <1>1 DEF Sound, Verdict
<1>2. CASE ~(Len(b) > BufferSize) /\ proto = "tcp"
  <2>1. Sound(TcpData(b, total), "tcp", b, total)
    BY <1>2, TcpVerdict
  <2> QED BY <2>1, <1>2 DEF Verdict
<1>3. CASE ~(Len(b) > BufferSize) /\ proto = "udp"
  <2>1. Sound(UdpData(b, total), "udp", b, total)
    BY <1>3, UdpVerdict
  <2> QED BY <2>1, <1>3 DEF Verdict
<1> QED BY <1>1, <1>2, <1>3 DEF Proto

\* The types of what the callback changes, and of the rest.
SocketType ==
  /\ buf \in Seq(Unit) /\ Len(buf) <= BufferSize
  /\ locked \subseteq Proto
  /\ expected \in Nat
  /\ timeout \in 0 .. Timeout
  /\ parts \in 0 .. 3
  /\ peer \in Proto
  /\ tasks \in Seq({"text", "packet", "uart"}) /\ Len(tasks) <= TaskQueueLength
  /\ refused \in BOOLEAN

RestType ==
  /\ previous \in Int \X Int
  /\ sending \in BOOLEAN
  /\ session \in {0, 1} /\ typed \in Nat

SocketInv == SocketType /\ WaitingOK /\ CommandHeld /\ PartsByTcp
                        /\ OpenOrLost /\ NoImpossible

LEMMA Split == IInv <=> SocketInv /\ RestType /\ StreamOK
<1>1. TypeOK /\ NoImpossible <=> SocketType /\ RestType /\ NoImpossible
  BY Zenon DEF TypeOK, SocketType, RestType, NoImpossible
<1> QED BY <1>1, Zenon DEF IInv, SocketInv

LEMMA SplitPrime == IInv' <=> (SocketInv /\ RestType /\ StreamOK)'
<1>1. (TypeOK /\ NoImpossible)' <=> (SocketType /\ RestType /\ NoImpossible)'
  BY Zenon DEF TypeOK, SocketType, RestType, NoImpossible
<1> QED BY <1>1, Zenon DEF IInv, SocketInv

\* When the callback may add to the buffer no command is queued, and what
\* is there came by the same protocol.
LEMMA BeforeCallback ==
  ASSUME SocketInv, NEW proto \in Proto, proto \notin locked
  PROVE  /\ tasks = << >>
         /\ \A i \in DOMAIN buf : ProtoOf(buf[i]) = proto
<1>1. tasks = << >>
  BY DEF SocketInv, CommandHeld
<1>2. CASE timeout = 0
  <2>1. buf = << >>
    BY <1>1, <1>2 DEF SocketInv, OpenOrLost
  <2> QED BY <1>1, <2>1
<1>3. CASE timeout > 0
  <2>1. locked = {"udp"}
    BY <1>3 DEF SocketInv, WaitingOK
  <2>2. proto = "tcp"
    BY <2>1 DEF Proto
  <2> QED BY <1>1, <1>3, <2>2 DEF SocketInv, PartsByTcp
<1>4. timeout = 0 \/ timeout > 0
  BY CommandInputAssumption DEF SocketInv, SocketType
<1> QED BY <1>2, <1>3, <1>4

\* Trimming leaves a beginning of the buffer, perhaps nothing of it.
LEMMA TrimmedType ==
  ASSUME NEW b \in Seq(Unit), NEW c \in Trimmed(b)
  PROVE  /\ c \in Seq(Unit) /\ Len(c) <= Len(b)
         /\ \A i \in DOMAIN c : i \in DOMAIN b /\ c[i] = b[i]
<1>1. PICK n \in (Len(b) - 2 .. Len(b)) \cap Nat : c = SubSeq(b, 1, n)
  BY DEF Trimmed
<1>2. n \in 0 .. Len(b) /\ Len(b) \in Nat
  OBVIOUS
<1>3. \A i \in 1 .. n : b[i] \in Unit
  BY <1>2
<1>4. /\ SubSeq(b, 1, n) \in Seq(Unit) /\ Len(SubSeq(b, 1, n)) = n
      /\ \A i \in 1 .. n : SubSeq(b, 1, n)[i] = b[i]
  BY <1>2, <1>3
<1>5. c \in Seq(Unit) /\ Len(c) = n /\ (\A i \in 1 .. n : c[i] = b[i])
  BY <1>1, <1>4, Zenon
<1> QED BY <1>2, <1>5

LEMMA CarryOutPreserves ==
  ASSUME SocketInv, NEW proto \in Proto, NEW units \in Seq(Unit),
         units # << >>, \A i \in DOMAIN units : ProtoOf(units[i]) = proto,
         NEW total, NEW v, Sound(v, proto, buf \o units, total),
         CarryOut(v, buf \o units, total),
         Len(buf \o units) > BufferSize => v = Drop({}),
         proto \notin locked, peer' = proto
  PROVE  SocketInv'
<1> DEFINE b == buf \o units
<1>1. buf \in Seq(Unit) /\ BufferSize \in Nat /\ Timeout \in Nat
      /\ TaskQueueLength \in Nat \ {0}
  BY CommandInputAssumption DEF SocketInv, SocketType
<1>2. tasks = << >> /\ \A i \in DOMAIN buf : ProtoOf(buf[i]) = proto
  BY BeforeCallback
<1>3. b \in Seq(Unit) /\ b # << >> /\ Len(b) \in Nat
  BY <1>1
<1>4. \A i \in DOMAIN b : ProtoOf(b[i]) = proto
  <2> SUFFICES ASSUME NEW i \in DOMAIN b PROVE ProtoOf(b[i]) = proto
    OBVIOUS
  <2>1. b[i] = IF i <= Len(buf) THEN buf[i] ELSE units[i - Len(buf)]
    BY <1>1
  <2>2. i \in DOMAIN buf \/ (i > Len(buf) /\ i - Len(buf) \in DOMAIN units)
    BY <1>1
  <2> QED BY <2>1, <2>2, <1>1, <1>2
<1>5. refused \in BOOLEAN /\ impossible = {}
  BY DEF SocketInv, SocketType, NoImpossible
<1>6. ASSUME NEW kind \in {"text", "packet"},
             v = Push(kind) \/ (kind = "text" /\ v = PushLine)
      PROVE  SocketInv'
  <2>1. Len(b) <= BufferSize
    <3>1. v # Drop({})
      BY <1>6 DEF Push, PushLine, Drop
    <3> QED BY <3>1, <1>3, <1>1
  <2>2. /\ impossible' = impossible \cup {} /\ buf' \in Handed(v, b)
        /\ expected' = 0 /\ timeout' = 0 /\ parts' = 0
        /\ locked' = Proto /\ PostCommand(kind)
    <3>1. v.do = "push" /\ v.kind = kind /\ v.seen = {}
      BY <1>6 DEF Push, PushLine
    <3>2. CarryOut(v, b, total)
      OBVIOUS
    <3> HIDE DEF b
    <3> QED BY <3>1, <3>2 DEF CarryOut
  <2>9. /\ buf' \in Seq(Unit) /\ Len(buf') <= Len(b)
        /\ \A i \in DOMAIN buf' : ProtoOf(buf'[i]) = proto
    <3>1. CASE v.trim
      <4>1. buf' \in Trimmed(b)
        BY <2>2, <3>1 DEF Handed
      <4> HIDE DEF b
      <4> QED BY <4>1, <1>3, <1>4, TrimmedType
    <3>2. CASE ~v.trim
      <4>1. buf' = b
        BY <2>2, <3>2 DEF Handed
      <4> HIDE DEF b
      <4> QED BY <4>1, <1>3, <1>4
    <3> QED BY <3>1, <3>2
  <2>10. kind = "packet" => buf' = b
    BY <1>6, <2>2 DEF Handed, Push
  <2>3. \/ tasks' = <<kind>> /\ refused' = refused
        \/ tasks' = << >> /\ refused' = TRUE
    BY <2>2, <1>2 DEF PostCommand
  <2>4. tasks' \in Seq({"text", "packet", "uart"}) /\ Len(tasks') \in {0, 1}
        /\ (tasks' # << >> => Len(tasks') = 1)
    <3>1. <<kind>> \in Seq({"text", "packet", "uart"}) /\ Len(<<kind>>) = 1
      BY <1>6
    <3>2. << >> \in Seq({"text", "packet", "uart"}) /\ Len(<< >>) = 0
      OBVIOUS
    <3>3. tasks' = <<kind>> \/ tasks' = << >>
      BY <2>3
    <3> QED BY <3>1, <3>2, <3>3
  <2>5. SocketType'
    <3>1. refused' \in BOOLEAN
      BY <2>3, <1>5, Zenon
    <3>2. Len(tasks') <= TaskQueueLength /\ 0 \in 0 .. Timeout /\ 0 \in 0 .. 3
      <4>1. Len(tasks') = 0 \/ Len(tasks') = 1
        BY <2>4
      <4>2. TaskQueueLength >= 1 /\ 0 \in 0 .. Timeout /\ 0 \in 0 .. 3
        BY <1>1
      <4>3. \A n, q : n \in {0, 1} /\ q \in Nat /\ q >= 1 => n <= q
        OBVIOUS
      <4> QED BY <4>1, <4>2, <4>3, <1>1, Zenon
    <3>3. buf' \in Seq(Unit) /\ Len(buf') <= BufferSize /\ locked' \subseteq Proto
          /\ peer' \in Proto /\ expected' \in Nat
      <4> HIDE DEF b
      <4> QED BY <2>1, <2>2, <2>9, <1>1, <1>3
    <3> QED BY <2>2, <2>4, <3>1, <3>2, <3>3, Zenon DEF SocketType
  <2>6. WaitingOK' /\ PartsByTcp'
    BY <2>2 DEF WaitingOK, PartsByTcp
  <2>7. CommandHeld'
    <3>1. tasks' # << >> => Head(tasks') = kind
      <4>1. Head(<<kind>>) = kind
        OBVIOUS
      <4> QED BY <4>1, <2>3, Zenon
    <3> HIDE DEF b
    <3> QED BY <3>1, <2>2, <2>4, <2>9, <2>10, <1>3 DEF CommandHeld
  <2>8. OpenOrLost' /\ NoImpossible'
    <3>1. tasks' = << >> => refused' = TRUE
      <4>1. <<kind>> # << >>
        OBVIOUS
      <4> QED BY <4>1, <2>3, Zenon
    <3> QED BY <3>1, <2>2, <1>5, Zenon DEF OpenOrLost, NoImpossible
  <2> QED BY <2>5, <2>6, <2>7, <2>8 DEF SocketInv
<1>7. ASSUME v = Drop({}) PROVE SocketInv'
  <2>1. /\ impossible' = impossible \cup {} /\ buf' = << >>
        /\ expected' = 0 /\ timeout' = 0 /\ parts' = 0
        /\ locked' = {} /\ UNCHANGED <<tasks, refused>>
    BY <1>7 DEF CarryOut, Drop
  <2>2. SocketType'
    BY <2>1, <1>1, <1>2, <1>5 DEF SocketType
  <2> QED BY <2>1, <2>2, <1>2, <1>5
          DEF SocketInv, WaitingOK, PartsByTcp, CommandHeld, OpenOrLost,
              NoImpossible
<1>8. ASSUME proto = "tcp", total \in 1 .. 3, NEW e \in Nat,
             NEW t \in 1 .. Timeout, v = More(e, t), e # 0 => Len(b) < e
      PROVE  SocketInv'
  <2>1. Len(b) <= BufferSize
    <3>1. v # Drop({})
      BY <1>8 DEF More, Drop
    <3> QED BY <3>1, <1>3, <1>1
  <2>2. /\ impossible' = impossible \cup {} /\ buf' = b
        /\ expected' = e /\ timeout' = t /\ parts' = total
        /\ locked' = {"udp"} /\ UNCHANGED <<tasks, refused>>
    BY <1>8 DEF CarryOut, More
  <2>3. SocketType'
    BY <2>1, <2>2, <1>1, <1>2, <1>3, <1>5, <1>8 DEF SocketType, Proto
  <2>4. WaitingOK'
    BY <2>2, <1>1, <1>2, <1>3, <1>8 DEF WaitingOK
  <2>5. PartsByTcp' /\ CommandHeld' /\ OpenOrLost' /\ NoImpossible'
    BY <2>2, <1>1, <1>2, <1>4, <1>5, <1>8
       DEF PartsByTcp, CommandHeld, OpenOrLost, NoImpossible
  <2> QED BY <2>3, <2>4, <2>5 DEF SocketInv
<1> QED BY <1>6, <1>7, <1>8 DEF Sound
-----------------------------------------------------------------------------
(* Each action of the specification preserves the invariant.               *)
LEMMA ReceivedPreserves ==
  ASSUME IInv, NEW proto \in Proto, NEW units \in Seq(Unit), units # << >>,
         \A i \in DOMAIN units : ProtoOf(units[i]) = proto,
         NEW pbufs \in {1, 2}, received_callback(proto, units, pbufs)
  PROVE  SocketInv'
<1>1. CASE proto \in locked
  <2>1. UNCHANGED <<input, socket, tasks, refused, impossible>>
    BY <1>1 DEF received_callback
  <2> QED BY <2>1, Split
          DEF input, socket, SocketInv, SocketType, WaitingOK, CommandHeld,
              PartsByTcp, OpenOrLost, NoImpossible
<1>2. CASE proto \notin locked
  <2> DEFINE total == parts + (IF proto = "tcp" THEN pbufs ELSE 1)
             v == Verdict(proto, buf \o units, total)
  <2>1. peer' = proto /\ CarryOut(v, buf \o units, total)
    BY <1>2 DEF received_callback
  <2>2. parts \in Nat /\ buf \in Seq(Unit)
    BY Counters DEF IInv
  <2>3. /\ total \in Nat /\ total > parts /\ (proto = "udp" => total = parts + 1)
        /\ buf \o units \in Seq(Unit) /\ buf \o units # << >>
    BY <2>2
  <2>4. Len(buf \o units) > BufferSize => v = Drop({})
    BY DEF Verdict
  <2>5. Sound(v, proto, buf \o units, total)
    <3> HIDE DEF total
    <3> QED BY <1>2, <2>3, SoundVerdict
  <2>6. SocketInv
    BY Split
  <2> HIDE DEF total, v
  <2> QED BY <1>2, <2>1, <2>4, <2>5, <2>6, CarryOutPreserves
<1> QED BY <1>1, <1>2

LEMMA SegmentPreserves ==
  ASSUME IInv, NEW m \in AnyMessage, NEW a \in Nat \ {0}, NEW b \in a .. m.len,
         TcpSegment(m, a, b)
  PROVE  IInv'
<1>1. m.len \in Nat /\ b \in Nat /\ b >= a
  BY Messages DEF MessageType
<1>2. TcpSource \in Source /\ TcpSource # "udp"
  BY DEF TcpSource, Source
<1> DEFINE units == Slice(m, a, b, TcpSource)
<1>3. units \in Seq(Unit) /\ Len(units) = b - a + 1
      /\ \A i \in DOMAIN units : units[i].from = TcpSource
  BY <1>1, <1>2, SliceType
<1>4. units # << >> /\ \A i \in DOMAIN units : ProtoOf(units[i]) = "tcp"
  BY <1>1, <1>2, <1>3 DEF ProtoOf
<1>5. PICK pbufs \in {1, 2} : received_callback("tcp", units, pbufs)
  BY DEF TcpSegment
<1>6. SocketInv'
  <2> HIDE DEF units
  <2> QED BY <1>3, <1>4, <1>5, ReceivedPreserves DEF Proto
<1>7. RestType'
  BY Split DEF TcpSegment, RestType
<1>8. StreamOK'
  <2>1. stream' = None \/ stream' = [msg |-> m, next |-> b + 1]
    BY DEF TcpSegment
  <2>2. CASE stream' = None
    BY <2>2 DEF StreamOK, None
  <2>3. CASE stream' = [msg |-> m, next |-> b + 1]
    BY <2>3, <1>1 DEF StreamOK, AnyMessage
  <2> QED BY <2>1, <2>2, <2>3
<1> QED BY <1>6, <1>7, <1>8, SplitPrime

LEMMA DatagramPreserves ==
  ASSUME IInv, NEW m \in Message, Datagram(m)
  PROVE  IInv'
<1> DEFINE units == Slice(m, 1, m.len, "udp")
<1>1. m \in AnyMessage /\ m.len \in Nat \ {0}
  BY Messages DEF AnyMessage, MessageType
<1>2. units \in Seq(Unit) /\ Len(units) = m.len - 1 + 1
      /\ \A i \in DOMAIN units : units[i].from = "udp"
  <2>1. 1 \in Nat \ {0} /\ m.len \in Nat /\ m.len >= 1 /\ "udp" \in Source
    BY <1>1 DEF Source
  <2> QED BY <2>1, <1>1, SliceType
<1>3. units # << >> /\ \A i \in DOMAIN units : ProtoOf(units[i]) = "udp"
  BY <1>1, <1>2 DEF ProtoOf
<1>4. received_callback("udp", units, 1)
  BY DEF Datagram
<1>5. SocketInv'
  <2> HIDE DEF units
  <2> QED BY <1>2, <1>3, <1>4, ReceivedPreserves DEF Proto
<1>6. RestType' /\ StreamOK'
  BY Split DEF Datagram, world, RestType, StreamOK
<1> QED BY <1>5, <1>6, SplitPrime

LEMMA TickPreserves == ASSUME IInv, Tick PROVE IInv'
<1>1. SocketInv /\ RestType /\ StreamOK
  BY Split
<1>2. RestType' /\ StreamOK'
  BY <1>1 DEF Tick, world, RestType, StreamOK
<1>3. timeout \in Nat /\ timeout <= Timeout /\ Timeout \in Nat
      /\ BufferSize \in Nat /\ tasks = << >>
  BY <1>1, CommandInputAssumption DEF Tick, SocketInv, SocketType, WaitingOK
<1>4. CASE timeout = 1
  <2>1. /\ timeout' = 0 /\ expected' = 0 /\ parts' = 0 /\ buf' = << >>
        /\ locked' = {} /\ UNCHANGED <<peer, tasks, refused, impossible>>
    BY <1>3, <1>4 DEF Tick
  <2>2. SocketType'
    BY <1>1, <1>3, <2>1 DEF SocketInv, SocketType
  <2>3. SocketInv'
    BY <1>1, <1>3, <2>1, <2>2
       DEF SocketInv, WaitingOK, CommandHeld, PartsByTcp, OpenOrLost,
           NoImpossible
  <2> QED BY <1>2, <2>3, SplitPrime
<1>5. CASE timeout # 1
  <2>1. /\ timeout' \in 1 .. Timeout /\ timeout > 0
        /\ UNCHANGED <<expected, parts, buf, locked, peer, tasks, refused,
                       impossible>>
    BY <1>3, <1>5 DEF Tick
  <2>2. SocketType'
    BY <1>1, <1>3, <2>1 DEF SocketInv, SocketType
  <2>3. SocketInv'
    BY <1>1, <1>3, <2>1, <2>2
       DEF SocketInv, WaitingOK, CommandHeld, PartsByTcp, OpenOrLost,
           NoImpossible
  <2> QED BY <1>2, <2>3, SplitPrime
<1> QED BY <1>4, <1>5

LEMMA RunPreserves == ASSUME IInv, RunCommand PROVE IInv'
<1>1. SocketInv /\ RestType /\ StreamOK
  BY Split
<1>2. Len(tasks) = 1 /\ timeout = 0 /\ tasks # << >>
      /\ expected = 0 /\ parts = 0 /\ buf \in Seq(Unit)
      /\ tasks \in Seq({"text", "packet", "uart"})
      /\ Head(tasks) # "uart" /\ (Head(tasks) = "packet" => buf # << >>)
  BY <1>1 DEF SocketInv, SocketType, WaitingOK, CommandHeld, RunCommand
<1>3. tasks' = << >>
  BY <1>2 DEF RunCommand
<1>4. /\ buf' = << >> /\ locked' = {}
      /\ UNCHANGED <<expected, timeout, parts, peer, stream, session, typed,
                     refused, impossible>>
  <2>1. buf' = << >> /\ locked' = {}
    BY <1>2, Zenon DEF RunCommand
  <2> QED BY <2>1 DEF RunCommand, input, world
<1>5. BufferSize \in Nat /\ TaskQueueLength \in Nat
  BY CommandInputAssumption
<1>6. SocketType'
  BY <1>1, <1>3, <1>4, <1>5 DEF SocketInv, SocketType
<1>7. SocketInv'
  BY <1>1, <1>2, <1>3, <1>4, <1>6
     DEF SocketInv, WaitingOK, CommandHeld, PartsByTcp, OpenOrLost,
         NoImpossible
<1>8. PICK header \in Headers(buf) :
        \/ Execute(Head(tasks), header.tid)
        \/ UNCHANGED <<previous, recent, sending>>
  BY Zenon DEF RunCommand
<1>9. Head(tasks) = "packet" => header.tid \in Int
  <2> SUFFICES ASSUME Head(tasks) = "packet" PROVE header.tid \in Int
    OBVIOUS
  <2>1. header = buf[1].msg
    BY <1>2 DEF Headers
  <2>2. buf[1] \in Unit
    BY <1>2
  <2>3. buf[1].msg \in AnyMessage
    BY <2>2 DEF Unit, AnyMessage
  <2>4. header \in MessageType
    BY <2>1, <2>3, Messages
  <2> QED BY <2>4 DEF MessageType
<1>10. sending' \in BOOLEAN
  BY <1>1, <1>8, Zenon DEF Execute, RestType
<1>11. previous' \in Int \X Int
  <2>1. previous \in Int \X Int
    BY <1>1, Zenon DEF RestType
  <2>2. \/ previous' = previous
        \/ Head(tasks) = "packet" /\ previous' = <<header.tid, previous[1]>>
    BY <1>8, Zenon DEF Execute, Remember
  <2> QED BY <2>1, <2>2, <1>9
<1>12. RestType' /\ StreamOK'
  BY <1>1, <1>4, <1>10, <1>11 DEF RestType, StreamOK
<1> QED BY <1>7, <1>12, SplitPrime

LEMMA StepPreserves == ASSUME ~CmdFromUart, IInv, [Next]_vars PROVE IInv'
<1>1. SocketInv /\ RestType /\ StreamOK
  BY Split
<1>2. ASSUME NEW m \in Message, StartMessage(m) PROVE IInv'
  <2>1. PICK b \in 1 .. m.len : TcpSegment(m, 1, b)
    BY <1>2 DEF StartMessage
  <2> QED BY <2>1, SegmentPreserves DEF AnyMessage
<1>3. ASSUME NEW m \in Message, Datagram(m) PROVE IInv'
  BY <1>3, DatagramPreserves
<1>4. CASE ContinueMessage
  <2>1. PICK b \in stream.next .. stream.msg.len :
          TcpSegment(stream.msg, stream.next, b)
    BY <1>4 DEF ContinueMessage
  <2>2. stream.msg \in AnyMessage /\ stream.next \in Nat \ {0}
    BY <1>1, <1>4 DEF StreamOK, ContinueMessage, AnyMessage
  <2> QED BY <2>1, <2>2, SegmentPreserves
<1>5. CASE Reconnect
  <2>1. RestType' /\ StreamOK'
    <3>1. session' \in {0, 1} /\ StreamOK'
      BY <1>1, <1>5 DEF Reconnect, RestType, StreamOK, None
    <3>2. previous' \in Int \X Int /\ typed' \in Nat /\ sending' \in BOOLEAN
      BY <1>1, <1>5, Zenon DEF Reconnect, RestType
    <3> QED BY <3>1, <3>2, Zenon DEF RestType
  <2>2. SocketInv'
    BY <1>1, <1>5
       DEF Reconnect, input, socket, SocketInv, SocketType, WaitingOK,
           CommandHeld, PartsByTcp, OpenOrLost, NoImpossible
  <2> QED BY <2>1, <2>2, SplitPrime
<1>6. CASE SendDone
  <2>1. RestType' /\ StreamOK'
    BY <1>1, <1>6 DEF SendDone, world, RestType, StreamOK
  <2>2. SocketInv'
    BY <1>1, <1>6
       DEF SendDone, input, socket, SocketInv, SocketType, WaitingOK,
           CommandHeld, PartsByTcp, OpenOrLost, NoImpossible
  <2> QED BY <2>1, <2>2, SplitPrime
<1>7. CASE BridgeUart
  BY <1>7 DEF BridgeUart
<1>8. CASE Tick
  BY <1>8, TickPreserves
<1>9. CASE RunCommand
  BY <1>9, RunPreserves
<1>10. CASE UNCHANGED vars
  <2>1. RestType' /\ StreamOK'
    BY <1>1, <1>10 DEF vars, world, RestType, StreamOK
  <2>2. SocketInv'
    BY <1>1, <1>10
       DEF vars, input, socket, SocketInv, SocketType, WaitingOK,
           CommandHeld, PartsByTcp, OpenOrLost, NoImpossible
  <2> QED BY <2>1, <2>2, SplitPrime
<1> QED BY <1>2, <1>3, <1>4, <1>5, <1>6, <1>7, <1>8, <1>9, <1>10 DEF Next

LEMMA InitEstablishes == Init => IInv
<1> SUFFICES ASSUME Init PROVE IInv
  OBVIOUS
<1>1. BufferSize \in Nat /\ TaskQueueLength \in Nat /\ Timeout \in Nat
  BY CommandInputAssumption
<1>2. SocketType
  <2>1. /\ buf \in Seq(Unit) /\ Len(buf) <= BufferSize /\ locked \subseteq Proto
        /\ expected \in Nat /\ timeout \in 0 .. Timeout /\ parts \in 0 .. 3
        /\ peer \in Proto /\ tasks \in Seq({"text", "packet", "uart"})
        /\ Len(tasks) <= TaskQueueLength
    BY <1>1 DEF Init, Proto
  <2>2. refused \in BOOLEAN
    BY Zenon DEF Init
  <2> QED BY <2>1, <2>2, Zenon DEF SocketType
<1>3. RestType
  <2>1. previous \in Int \X Int /\ session \in {0, 1} /\ typed \in Nat
    BY DEF Init
  <2>2. sending \in BOOLEAN
    BY Zenon DEF Init
  <2> QED BY <2>1, <2>2, Zenon DEF RestType
<1>4. StreamOK
  BY DEF Init, StreamOK, None
<1>5. SocketInv
  BY <1>2 DEF Init, SocketInv, WaitingOK, CommandHeld, PartsByTcp, OpenOrLost,
              NoImpossible
<1> QED BY <1>3, <1>4, <1>5, Split
-----------------------------------------------------------------------------
LEMMA Invariance == ASSUME ~CmdFromUart PROVE Spec => []IInv
<1>1. IInv /\ [Next]_vars => IInv'
  BY StepPreserves
<1> QED BY <1>1, InitEstablishes, PTL DEF Spec

(* What holds of the state: when commands are not taken from the UART the  *)
(* types are right, a packet is waited for with UDP locked out, a queued   *)
(* command is the only one and holds both locks, an idle buffer is open    *)
(* and the states the callback thinks impossible are.                      *)
THEOREM InputCorrect ==
  ASSUME ~CmdFromUart
  PROVE  Spec => [](TypeOK /\ WaitingOK /\ CommandHeld /\ IdleIsOpen
                      /\ NoImpossible)
<1>1. IInv => TypeOK /\ WaitingOK /\ CommandHeld /\ NoImpossible
  BY DEF IInv
<1>2. IInv => IdleIsOpen
  BY DEF IInv, OpenOrLost, IdleIsOpen
<1> QED BY <1>1, <1>2, Invariance, PTL

(* The lock bits in all three situations (dispatch.c 351-435, 604-630,     *)
(* 657-866), as a run checks them.                                         *)
THEOREM LockDisciplineCorrect ==
  ASSUME ~CmdFromUart PROVE Spec => []LockDiscipline
<1>1. WaitingOK /\ CommandHeld /\ IdleIsOpen => LockDiscipline
  BY DEF LockDiscipline
<1> QED BY <1>1, InputCorrect, PTL

(* No step changes the buffer while a command for it is queued before and  *)
(* after the step: received_callback finds both protocols locked, the      *)
(* timer is not running, and the only command queued is the one that runs. *)
THEOREM HeldCommandStable == ASSUME ~CmdFromUart PROVE Spec => CommandStable
<1>1. ASSUME IInv, [Next]_vars, tasks # << >>, tasks' # << >>
      PROVE  UNCHANGED buf
  <2>1. locked = Proto /\ timeout = 0 /\ Len(tasks) = 1
    BY <1>1 DEF IInv, CommandHeld
  <2>2. \A proto \in Proto : \A units, pbufs :
          received_callback(proto, units, pbufs) => UNCHANGED buf
    BY <2>1 DEF received_callback, socket
  <2>3. \A m, a, b : TcpSegment(m, a, b) => UNCHANGED buf
    BY <2>2 DEF TcpSegment, Proto
  <2>4. ASSUME NEW m \in Message, StartMessage(m) \/ Datagram(m)
        PROVE  UNCHANGED buf
    BY <2>2, <2>3, <2>4 DEF StartMessage, Datagram, Proto
  <2>5. ContinueMessage => UNCHANGED buf
    BY <2>3 DEF ContinueMessage
  <2>6. ~Tick /\ ~BridgeUart
    BY <1>1, <2>1 DEF Tick, BridgeUart
  <2>7. ~RunCommand
    <3>1. tasks \in Seq({"text", "packet", "uart"})
      BY <1>1, Zenon DEF IInv, TypeOK
    <3>2. Tail(tasks) = << >>
      <4>1. PICK k : tasks = <<k>>
        BY <3>1, <2>1
      <4> QED BY <4>1
    <3> QED BY <3>2, <1>1 DEF RunCommand
  <2>8. Reconnect \/ SendDone \/ UNCHANGED vars => UNCHANGED buf
    BY DEF Reconnect, SendDone, vars, socket
  <2> QED BY <1>1, <2>4, <2>5, <2>6, <2>7, <2>8 DEF Next
<1>2. IInv /\ [Next]_vars
        => [tasks # << >> /\ tasks' # << >> => UNCHANGED buf]_vars
  BY <1>1
<1> QED BY <1>2, Invariance, PTL DEF Spec, CommandStable
-----------------------------------------------------------------------------
(* The transaction ids.  What has been executed last is what is            *)
(* remembered, as far as two ids go; this holds for any configuration.     *)
WindowOK ==
  \E newer, older :
    /\ previous = <<newer, older>>
    /\ recent \in {<< >>, <<newer>>, <<newer, older>>}

\* What a step does to the transaction ids.
LEMMA WhatChangesIds ==
  ASSUME [Next]_vars
  PROVE  \/ UNCHANGED <<previous, recent>>
         \/ \E tid : /\ tid \notin ToSet(previous)
                     /\ Remember(tid)
                     /\ recent' = IF recent = << >> THEN <<tid>>
                                  ELSE <<tid, recent[1]>>
<1>1. \A m, a, b : TcpSegment(m, a, b) => UNCHANGED <<previous, recent>>
  BY DEF TcpSegment
<1>2. ASSUME NEW m \in Message, StartMessage(m) \/ Datagram(m)
      PROVE  UNCHANGED <<previous, recent>>
  BY <1>1, <1>2 DEF StartMessage, Datagram
<1>3. ContinueMessage => UNCHANGED <<previous, recent>>
  BY <1>1 DEF ContinueMessage
<1>4. Reconnect \/ SendDone \/ BridgeUart \/ Tick \/ UNCHANGED vars
        => UNCHANGED <<previous, recent>>
  BY DEF Reconnect, SendDone, BridgeUart, Tick, vars
<1>5. ASSUME RunCommand, ~UNCHANGED <<previous, recent>>
      PROVE  \E tid : /\ tid \notin ToSet(previous)
                     /\ Remember(tid)
                     /\ recent' = IF recent = << >> THEN <<tid>>
                                  ELSE <<tid, recent[1]>>
  <2>0. PICK header \in Headers(buf) :
          \E outcome \in Outcomes(Head(tasks), header, buf) :
            IF outcome = "executed"
              THEN Execute(Head(tasks), header.tid)
              ELSE UNCHANGED <<previous, recent, sending>>
    BY <1>5, Zenon DEF RunCommand
  <2>1. PICK outcome \in Outcomes(Head(tasks), header, buf) :
          IF outcome = "executed"
            THEN Execute(Head(tasks), header.tid)
            ELSE UNCHANGED <<previous, recent, sending>>
    BY <2>0, Zenon
  <2>2. outcome = "executed" /\ Execute(Head(tasks), header.tid)
    BY <1>5, <2>1, Zenon
  <2>6. Head(tasks) = "packet" => Accepted(header, buf)
    BY <2>1, <2>2 DEF Outcomes
  <2>3. Head(tasks) = "packet" /\ header.tid # -1
    BY <1>5, <2>2, Zenon DEF Execute
  <2>4. /\ Remember(header.tid)
        /\ recent' = IF recent = << >> THEN <<header.tid>>
                     ELSE <<header.tid, recent[1]>>
    BY <2>2, <2>3, Zenon DEF Execute
  <2>5. header.tid \notin ToSet(previous)
    BY <2>6, <2>3, Zenon DEF Accepted
  <2> QED BY <2>4, <2>5, Zenon
<1> QED BY <1>2, <1>3, <1>4, <1>5 DEF Next

\* The ids executed last are among those remembered, and stay so.
LEMMA WindowPreserved ==
  ASSUME WindowOK, [Next]_vars
  PROVE  WindowOK' /\ (recent' # recent => recent'[1] \notin ToSet(recent))
<1>1. PICK newer, older :
        /\ previous = <<newer, older>>
        /\ recent \in {<< >>, <<newer>>, <<newer, older>>}
  BY DEF WindowOK
<1>2. CASE UNCHANGED <<previous, recent>>
  BY <1>2 DEF WindowOK
<1>3. CASE ~UNCHANGED <<previous, recent>>
  <2>1. PICK tid : /\ tid \notin ToSet(previous)
                   /\ Remember(tid)
                   /\ recent' = IF recent = << >> THEN <<tid>>
                                ELSE <<tid, recent[1]>>
    BY <1>3, WhatChangesIds
  <2>2. previous' = <<tid, newer>>
    BY <1>1, <2>1 DEF Remember
  <2>3. recent' \in {<<tid>>, <<tid, newer>>}
    BY <1>1, <2>1
  <2>4. tid \notin {newer, older}
    BY <1>1, <2>1 DEF ToSet
  <2>5. tid \notin ToSet(recent)
    BY <1>1, <2>4 DEF ToSet
  <2>6. recent'[1] = tid
    BY <2>3
  <2> QED BY <2>2, <2>3, <2>5, <2>6 DEF WindowOK
<1> QED BY <1>2, <1>3

(* A packet that repeats one of the last two executed is not executed:     *)
(* task_received_command looks its id up before it remembers it, and what  *)
(* it remembers is exactly what it executed.  For every configuration,     *)
(* with commands from the UART too.                                        *)
THEOREM WindowOfTwo == Spec => DuplicateWindow
<1>1. Init => WindowOK
  BY DEF Init, WindowOK
<1>2. WindowOK /\ [Next]_vars => WindowOK'
  BY WindowPreserved
<1>3. WindowOK /\ [Next]_vars
        => [recent' # recent => recent'[1] \notin ToSet(recent)]_vars
  BY WindowPreserved
<1> QED BY <1>1, <1>2, <1>3, PTL DEF Spec, DuplicateWindow
=============================================================================
