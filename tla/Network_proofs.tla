--------------------------- MODULE Network_proofs ---------------------------
(***************************************************************************)
(* Proofs about the two ends of the network.                               *)
(*                                                                         *)
(* The sockets: for any number of connections and any sizes, no callback   *)
(* uses a connection that is gone, sending is always driven by an          *)
(* acknowledgement to come, and the bytes of the buffer are given in       *)
(* order.                                                                  *)
(*                                                                         *)
(* The wireless network: for any times, queue lengths and numbers of       *)
(* failures and commands, the association flag follows the link and the    *)
(* count of scans is accounted for.                                        *)
(***************************************************************************)
EXTENDS TcpSocket, Wlan, SequenceTheorems, TLAPS

\* What the actions that send or forget data do to the counters.
Counters ==
  /\ remaining \in 0 .. BufferSize
  /\ length \in 0 .. BufferSize
  /\ unacked \in Nat
  /\ handed \in {Gap} \cup Nat
  /\ inflight \in [Conn -> 0 .. SndBuf]
  /\ SendingDriven
  /\ InOrder

\* The types of the variables that are not counters.
Others ==
  /\ pcb \subseteq Conn /\ \A c, d \in pcb : c = d
  /\ waiting \in 0 .. BufferSize
  /\ peer \in {"tcp", "udp"}
  /\ rebooting \in BOOLEAN /\ reset \in BOOLEAN
  /\ conn \in [Conn -> ConnState]
  /\ logged \subseteq Logged
  /\ PcbAlive

IInv == Counters /\ Others

LEMMA Implied ==
  IInv => /\ PcbAlive /\ SendingDriven /\ InOrder
          /\ bridge \in BOOLEAN => TypeOK
BY Zenon DEF IInv, TypeOK, Counters, Others

LEMMA Types ==
  /\ Counters => inflight \in [Conn -> 0 .. SndBuf] /\ unacked \in Nat
  /\ Others => conn \in [Conn -> ConnState] /\ waiting \in 0 .. BufferSize
BY Zenon DEF Counters, Others

LEMMA Constants == BufferSize \in Nat \ {0} /\ SndBuf \in Nat \ {0}
BY TcpSocketAssumption

\* A chunk is no more than there is to send and than fits, and less than
\* all of it only when nothing more fits.
LEMMA ChunkBounds ==
  ASSUME NEW c \in Conn, NEW rem \in Nat, NEW held,
         held[c] \in 0 .. SndBuf, NEW n \in Chunks(c, rem, held)
  PROVE  /\ n \in Nat /\ n <= rem /\ held[c] + n <= SndBuf
         /\ n = 0 \/ n = rem \/ held[c] + n = SndBuf
BY Constants DEF Chunks, Least

\* Giving a chunk to lwip keeps the counters consistent.
LEMMA GiveKeeps ==
  ASSUME NEW c \in Conn, NEW rem \in 0 .. BufferSize, NEW una \in Nat,
         NEW done \in Nat, NEW len \in 0 .. BufferSize, done + rem = len,
         NEW held \in [Conn -> 0 .. SndBuf], NEW n \in Chunks(c, rem, held),
         Give(n, rem, una, done, len),
         inflight' = [held EXCEPT ![c] = @ + n],
         c \in pcb'
  PROVE  Counters'
<1>1. held[c] \in 0 .. SndBuf /\ rem \in Nat /\ len \in Nat
  BY Constants
<1>2. /\ n \in Nat /\ n <= rem /\ held[c] + n <= SndBuf
      /\ n = 0 \/ n = rem \/ held[c] + n = SndBuf
  BY <1>1, ChunkBounds
<1>3. held[c] + n \in 0 .. SndBuf
  BY <1>1, <1>2, Constants
<1>4. inflight' \in [Conn -> 0 .. SndBuf] /\ inflight'[c] = held[c] + n
  BY <1>3
<1>5. /\ remaining' \in 0 .. BufferSize /\ length' \in 0 .. BufferSize
      /\ unacked' \in Nat /\ handed' = done + n
  BY <1>1, <1>2, Constants DEF Give
<1>6. handed' \in Nat /\ handed' # Gap
  BY <1>2, <1>5 DEF Gap
<1>7. remaining' > 0 => inflight'[c] > 0 /\ handed' + remaining' = length'
  BY <1>1, <1>2, <1>4, <1>5, Constants DEF Give
<1>8. SendingDriven'
  BY <1>7 DEF SendingDriven
<1>9. InOrder'
  BY <1>6, <1>7 DEF InOrder
<1> QED BY <1>4, <1>5, <1>6, <1>8, <1>9 DEF Counters

\* With nothing more to send the counters are consistent.
LEMMA IdleKeeps ==
  ASSUME Counters, remaining' = 0, unacked' \in Nat,
         length' \in 0 .. BufferSize, handed' = handed \/ handed' = 0,
         inflight' \in [Conn -> 0 .. SndBuf]
  PROVE  Counters'
<1>1. handed' \in Nat /\ handed' # Gap
  BY DEF Counters, InOrder, Gap
<1> QED BY <1>1, Constants DEF Counters, SendingDriven, InOrder

LEMMA SendKeeps ==
  ASSUME Counters, pcb \subseteq Conn, remaining = 0, pcb' = pcb,
         NEW len \in 0 .. BufferSize, lwip_if_send(len)
  PROVE  Counters' /\ UNCHANGED conn
<1>1. unacked \in Nat /\ inflight \in [Conn -> 0 .. SndBuf]
  BY DEF Counters
<1>2. CASE peer = "udp" \/ len = 0
  <2>1. CASE UNCHANGED <<remaining, unacked, lwip>> /\ length' = len /\ handed' = 0
    BY <2>1, <1>1, IdleKeeps DEF lwip
  <2> QED BY <2>1, <1>2, Constants DEF lwip_if_send
<1>3. CASE peer # "udp" /\ len # 0 /\ pcb = {}
  BY <1>1, <1>3, IdleKeeps DEF lwip_if_send, lwip
<1>4. CASE peer # "udp" /\ len # 0 /\ pcb # {}
  <2>0. PICK c \in pcb : \E n \in Chunks(c, len, inflight) :
          /\ Give(n, len, unacked, 0, len)
          /\ inflight' = [inflight EXCEPT ![c] = @ + n]
    BY <1>4 DEF lwip_if_send
  <2>1. PICK n \in Chunks(c, len, inflight) :
          /\ Give(n, len, unacked, 0, len)
          /\ inflight' = [inflight EXCEPT ![c] = @ + n]
    BY <2>0
  <2>2. 0 + len = len /\ c \in Conn /\ c \in pcb'
    BY Constants
  <2>3. Counters'
    BY <1>1, <2>1, <2>2, GiveKeeps
  <2> QED BY <2>3, <1>4 DEF lwip_if_send
<1> QED BY <1>2, <1>3, <1>4
-----------------------------------------------------------------------------
(* Each action preserves the invariant.                                    *)

\* A connection lwip forgets, followed by tcp_error_callback.
LEMMA ForgetKeeps ==
  ASSUME Counters, Others, NEW c \in Conn, Free(c), tcp_error_callback,
         UNCHANGED <<peer, rebooting, waiting, logged>>
  PROVE  IInv'
<1>1. inflight' \in [Conn -> 0 .. SndBuf] /\ conn' \in [Conn -> ConnState]
  BY Types, Constants DEF Free, ConnState
<1>2. Counters'
  BY <1>1, IdleKeeps DEF Counters, tcp_error_callback
<1>3. pcb' = {} /\ reset' \in BOOLEAN
  BY Zenon DEF Others, tcp_error_callback
<1>4. Others'
  BY <1>1, <1>3 DEF Others, PcbAlive
<1> QED BY <1>2, <1>4 DEF IInv

LEMMA AckedKeeps ==
  ASSUME IInv, NEW c \in Conn, NEW n \in 1 .. SndBuf, Acked(c, n)
  PROVE  IInv'
<1> DEFINE held == [inflight EXCEPT ![c] = @ - n]
           una == IF n > unacked THEN 0 ELSE unacked - n
<1>1. Counters /\ Others
  BY DEF IInv
<1>2. inflight \in [Conn -> 0 .. SndBuf] /\ n <= inflight[c] /\ n \in Nat
      /\ unacked \in Nat
  <2>1. inflight \in [Conn -> 0 .. SndBuf] /\ unacked \in Nat
    BY <1>1, Types, Zenon
  <2>2. n \in 1 .. inflight[c]
    BY Zenon DEF Acked
  <2>3. inflight[c] \in Nat
    BY <2>1, Constants
  <2> QED BY <2>1, <2>2, <2>3
<1>3. held \in [Conn -> 0 .. SndBuf] /\ una \in Nat
  BY <1>2, Constants
<1>4. Others'
  <2>1. UNCHANGED <<pcb, peer, rebooting, waiting, reset, conn>>
    BY DEF Acked
  <2>2. logged' \subseteq Logged
    BY <1>1 DEF Acked, Others, Logged
  <2> QED BY <1>1, <2>1, <2>2 DEF Others, PcbAlive
<1>5. CASE remaining = 0
  <2>1. inflight' = held /\ unacked' = una /\ UNCHANGED <<remaining, length, handed>>
    BY <1>5 DEF Acked, tcp_sent_callback
  <2>2. Counters'
    <3> HIDE DEF held, una
    <3> QED BY <1>1, <1>3, <1>5, <2>1, IdleKeeps DEF Counters
  <2> QED BY <1>4, <2>2 DEF IInv
<1>6. CASE remaining # 0
  <2>1. tcp_sent_callback(c, n)
    BY DEF Acked
  <2>2. PICK p \in pcb : \E k \in Chunks(p, remaining, held) :
          /\ Give(k, remaining, una, handed, length)
          /\ inflight' = [held EXCEPT ![p] = @ + k]
    BY <1>6, <2>1 DEF tcp_sent_callback
  <2>3. PICK k \in Chunks(p, remaining, held) :
          /\ Give(k, remaining, una, handed, length)
          /\ inflight' = [held EXCEPT ![p] = @ + k]
    BY <2>2
  <2>4. p \in Conn /\ p \in pcb'
    BY <1>1 DEF Others, Acked
  <2>5. /\ remaining \in 0 .. BufferSize /\ length \in 0 .. BufferSize
        /\ handed \in Nat /\ handed + remaining = length
    BY <1>1, <1>6, Constants DEF Counters, InOrder
  <2>6. Counters'
    <3> HIDE DEF held, una
    <3> QED BY <1>3, <2>3, <2>4, <2>5, GiveKeeps
  <2> QED BY <1>4, <2>6 DEF IInv
<1> QED BY <1>5, <1>6

LEMMA PeerClosesKeeps ==
  ASSUME IInv, NEW c \in Conn, PeerCloses(c) PROVE IInv'
<1>1. Counters /\ Others
  BY DEF IInv
<1>2. CASE rebooting
  <2>1. UNCHANGED <<pcb, sending, lwip, peer, rebooting, waiting, logged>>
        /\ reset' = TRUE
    BY <1>2 DEF PeerCloses
  <2>2. Counters'
    BY <1>1, <2>1 DEF Counters, sending, lwip, SendingDriven, InOrder
  <2>3. reset' \in BOOLEAN
    BY <2>1, Zenon
  <2>4. Others'
    BY <1>1, <2>1, <2>3 DEF Others, lwip, PcbAlive
  <2> QED BY <2>2, <2>4 DEF IInv
<1>3. CASE ~rebooting
  <2>1. /\ pcb' = {} /\ remaining' = 0 /\ unacked' = 0
        /\ UNCHANGED <<reset, length, handed, inflight, peer, rebooting,
                       waiting, logged>>
    BY <1>3 DEF PeerCloses
  <2>2. conn' \in [Conn -> ConnState]
    BY <1>1, <1>3 DEF PeerCloses, Others, ConnState
  <2>3. Counters'
    BY <1>1, <2>1, IdleKeeps DEF Counters
  <2>4. Others'
    BY <1>1, <2>1, <2>2 DEF Others, PcbAlive
  <2> QED BY <2>3, <2>4 DEF IInv
<1> QED BY <1>2, <1>3

LEMMA AcceptKeeps ==
  ASSUME IInv, NEW c \in Conn, tcp_accepted_callback(c) PROVE IInv'
<1>1. Counters /\ Others
  BY DEF IInv
<1>2. remaining' = 0
  <2>1. pcb = {} => remaining = 0
    BY <1>1, Constants DEF Counters, SendingDriven
  <2> QED BY <2>1 DEF tcp_accepted_callback
<1>3. inflight' \in [Conn -> 0 .. SndBuf] /\ conn' \in [Conn -> ConnState]
      /\ conn'[c] = "open" /\ pcb' = {c}
  BY <1>1, Types, Constants DEF tcp_accepted_callback, ConnState
<1>4. Counters'
  BY <1>1, <1>2, <1>3, IdleKeeps DEF Counters, tcp_accepted_callback
<1>5. reset' \in BOOLEAN
  BY Zenon DEF tcp_accepted_callback
<1>6. Others'
  BY <1>1, <1>3, <1>5 DEF Others, PcbAlive, tcp_accepted_callback
<1> QED BY <1>4, <1>6 DEF IInv

LEMMA CloseKeeps ==
  ASSUME IInv, NEW reboot, pcb # {}, lwip_if_close(reboot),
         rebooting' \in BOOLEAN, UNCHANGED <<peer, waiting>>,
         reboot \/ UNCHANGED rebooting
  PROVE  IInv'
<1>1. Counters /\ Others
  BY DEF IInv
<1>2. CASE reboot
  <2>1. UNCHANGED <<pcb, sending, inflight, reset>>
    BY <1>2 DEF lwip_if_close
  <2>2. conn' \in [Conn -> ConnState] /\ \A c \in pcb : conn'[c] \in {"open", "shut"}
    BY <1>1, <1>2 DEF lwip_if_close, Others, ConnState, PcbAlive
  <2>5. logged' \subseteq Logged
    BY <1>1, <1>2 DEF lwip_if_close, Others, Logged
  <2>3. Counters'
    BY <1>1, <2>1 DEF Counters, sending, SendingDriven, InOrder
  <2>4. Others'
    BY <1>1, <2>1, <2>2, <2>5 DEF Others, PcbAlive
  <2> QED BY <2>3, <2>4 DEF IInv
<1>3. CASE ~reboot
  <2>1. /\ tcp_error_callback /\ UNCHANGED logged
        /\ \E c \in pcb : Free(c)
    BY <1>3 DEF lwip_if_close
  <2>2. UNCHANGED rebooting
    BY <1>3
  <2>3. PICK c \in Conn : Free(c)
    BY <1>1, <2>1 DEF Others
  <2> QED BY <1>1, <2>1, <2>2, <2>3, ForgetKeeps
<1> QED BY <1>2, <1>3

LEMMA StepKeeps == ASSUME IInv, Step \/ UNCHANGED vars PROVE IInv'
<1>1. Counters /\ Others
  BY DEF IInv
<1>2. ASSUME NEW c \in Conn, NEW n \in 1 .. SndBuf, Acked(c, n) PROVE IInv'
  BY <1>2, AckedKeeps
<1>3. ASSUME NEW c \in Conn, Broken(c) PROVE IInv'
  BY <1>1, <1>3, ForgetKeeps DEF Broken
<1>4. ASSUME NEW c \in Conn, Finished(c) PROVE IInv'
  <2>1. c \notin pcb
    BY <1>1, <1>4 DEF Finished, Others, PcbAlive
  <2>2. /\ UNCHANGED <<pcb, sending, peer, rebooting, waiting, reset, logged>>
        /\ Free(c)
    BY <1>4 DEF Finished
  <2>3. Counters'
    BY <1>1, <2>1, <2>2, Constants
       DEF Counters, Free, sending, SendingDriven, InOrder
  <2>4. Others'
    BY <1>1, <2>1, <2>2 DEF Others, Free, PcbAlive, ConnState
  <2> QED BY <2>3, <2>4 DEF IInv
<1>5. ASSUME NEW c \in Conn, PeerCloses(c) PROVE IInv'
  BY <1>5, PeerClosesKeeps
<1>6. ASSUME NEW c \in Conn, tcp_accepted_callback(c) PROVE IInv'
  BY <1>6, AcceptKeeps
<1>7. CASE ReceiveError
  <2>1. PICK c \in Conn : Free(c)
    BY <1>1, <1>7 DEF ReceiveError, Others
  <2> QED BY <1>1, <1>7, <2>1, ForgetKeeps DEF ReceiveError
<1>8. ASSUME NEW proto \in {"tcp", "udp"}, Received(proto) PROVE IInv'
  <2>1. UNCHANGED <<pcb, sending, rebooting, waiting, reset, lwip>>
        /\ peer' = proto
    BY <1>8 DEF Received
  <2>2. logged' \subseteq Logged
    BY <1>1, <1>8 DEF Received, Others, Logged
  <2>3. Counters'
    BY <1>1, <2>1 DEF Counters, sending, lwip, SendingDriven, InOrder
  <2>4. Others'
    BY <1>1, <1>8, <2>1, <2>2 DEF Others, lwip, PcbAlive
  <2> QED BY <2>3, <2>4 DEF IInv
<1>9. CASE Reply
  <2>1. PICK len \in 1 .. BufferSize : lwip_if_send(len)
    BY <1>9 DEF Reply
  <2>2. len \in 0 .. BufferSize /\ remaining = 0
        /\ UNCHANGED <<pcb, peer, rebooting, waiting, reset, logged>>
    BY <1>9 DEF Reply
  <2>3. Counters' /\ UNCHANGED conn
    BY <1>1, <2>1, <2>2, SendKeeps DEF Others
  <2>4. Others'
    BY <1>1, <2>2, <2>3 DEF Others, PcbAlive
  <2> QED BY <2>3, <2>4 DEF IInv
<1>10. CASE Disconnect
  <2>1. pcb # {} /\ lwip_if_close(rebooting) /\ rebooting' \in BOOLEAN
        /\ UNCHANGED <<peer, rebooting, waiting>>
    BY <1>1, <1>10, Zenon DEF Disconnect, Others
  <2> QED BY <2>1, CloseKeeps
<1>11. CASE lwip_if_reboot
  <2>1. rebooting' \in BOOLEAN /\ UNCHANGED <<peer, waiting>>
    BY <1>11, Zenon DEF lwip_if_reboot
  <2>2. CASE peer = "tcp" /\ pcb # {}
    <3>1. lwip_if_close(TRUE)
      BY <1>11, <2>2 DEF lwip_if_reboot
    <3> QED BY <2>1, <2>2, <3>1, CloseKeeps
  <2>3. CASE ~(peer = "tcp" /\ pcb # {})
    <3>0. post_task_reset /\ UNCHANGED <<pcb, sending, lwip>>
      BY <1>11, <2>3, Zenon DEF lwip_if_reboot
    <3>1. /\ reset' \in BOOLEAN /\ UNCHANGED <<pcb, sending, lwip>>
          /\ logged' \subseteq Logged
      BY <1>1, <3>0 DEF post_task_reset, Others, Logged
    <3>2. Counters'
      BY <1>1, <3>1 DEF Counters, sending, lwip, SendingDriven, InOrder
    <3>3. Others'
      BY <1>1, <2>1, <3>1 DEF Others, lwip, PcbAlive
    <3> QED BY <3>2, <3>3 DEF IInv
  <2> QED BY <2>2, <2>3
<1>12. CASE UartReceives
  <2>1. waiting' \in 0 .. BufferSize
        /\ UNCHANGED <<pcb, sending, peer, rebooting, reset, lwip, logged>>
    BY <1>1, <1>12, Types, Constants DEF UartReceives
  <2>2. Counters'
    BY <1>1, <2>1 DEF Counters, sending, lwip, SendingDriven, InOrder
  <2>3. Others'
    BY <1>1, <2>1 DEF Others, lwip, PcbAlive
  <2> QED BY <2>2, <2>3 DEF IInv
<1>13. CASE BridgeUart
  <2>1. remaining = 0 /\ lwip_if_send(waiting) /\ waiting' = 0
        /\ UNCHANGED <<pcb, peer, rebooting, reset, logged>>
    BY <1>13 DEF BridgeUart
  <2>2. Counters' /\ UNCHANGED conn
    BY <1>1, <2>1, SendKeeps DEF Others
  <2>3. waiting' \in 0 .. BufferSize
    BY <2>1, Constants
  <2>4. Others'
    BY <1>1, <2>1, <2>2, <2>3 DEF Others, PcbAlive
  <2> QED BY <2>2, <2>4 DEF IInv
<1>14. CASE UNCHANGED vars
  <2>1. Counters'
    BY <1>1, <1>14 DEF vars, Counters, sending, lwip, SendingDriven, InOrder
  <2>2. Others'
    BY <1>1, <1>14 DEF vars, Others, lwip, PcbAlive
  <2> QED BY <2>1, <2>2 DEF IInv
<1> QED BY <1>2, <1>3, <1>4, <1>5, <1>6, <1>7, <1>8, <1>9, <1>10, <1>11, <1>12,
           <1>13, <1>14 DEF Step

LEMMA InitHolds == Init => IInv
<1> SUFFICES ASSUME Init PROVE IInv
  OBVIOUS
<1>1. Counters
  BY Constants DEF Init, Counters, SendingDriven, InOrder, Gap
<1>2. rebooting \in BOOLEAN /\ reset \in BOOLEAN
  BY Zenon DEF Init
<1>3. Others
  BY <1>2, Constants DEF Init, Others, PcbAlive, ConnState
<1> QED BY <1>1, <1>3 DEF IInv

LEMMA Invariance == Spec => []IInv
<1>1. IInv /\ [Next]_vars => IInv'
  BY StepKeeps DEF Next
<1> QED BY <1>1, InitHolds, PTL DEF Spec

(* Whatever order connections come, go and are forgotten in, the socket    *)
(* points at a connection lwip still has.                                  *)
THEOREM PcbAliveCorrect == Spec => []PcbAlive
<1>1. IInv => PcbAlive
  BY Implied
<1> QED BY <1>1, Invariance, PTL

(* Sending is never left waiting for an acknowledgement that is not going  *)
(* to come, and gives the buffer to lwip in order and once.                *)
THEOREM SendingCorrect == Spec => [](SendingDriven /\ InOrder)
<1>1. IInv => SendingDriven /\ InOrder
  BY Implied
<1> QED BY <1>1, Invariance, PTL

(* A reply goes out in order and is not changed on the way                 *)
(* (tcp_try_send_buffer, lwip-interface.c 293-331).                        *)
THEOREM InOrderCorrect == Spec => []InOrder
  BY SendingCorrect, PTL

(* The variables have their types, and lwip is not given more than fits.   *)
THEOREM SocketTypeCorrect == Spec => []TypeOK
<1> DEFINE UserOK == bridge \in BOOLEAN
<1>1. Init => UserOK
  BY DEF Init
<1>2. UserOK /\ [Next]_vars => UserOK'
  BY DEF Next, vars
<1>3. IInv /\ UserOK => TypeOK
  BY Implied
<1> QED BY <1>1, <1>2, <1>3, Invariance, PTL DEF Spec
-----------------------------------------------------------------------------
(* The wireless network. *)

\* The link and the news of it.  A link that is up has left room for the
\* news of its loss.
Radio ==
  /\ flags \subseteq Flag
  /\ station \in Station
  /\ event \in Seq(Event)
  /\ Len(event) <= EventBound + 1
  /\ station.link => Len(event) <= EventBound
  /\ late \in 0 .. Len(event)
  /\ AssociatedTracksLink

\* A scan under way has not been refused.
Scans ==
  /\ scan \in BOOLEAN /\ refused \in BOOLEAN
  /\ ~(scan /\ refused)
  /\ scanning \in 0 .. 1
  /\ ScanAccounted

\* The types of the variables that neither depends on.
WlanOthers ==
  /\ time \in 0 .. ResetTime + 1
  /\ task \in Seq(Task) /\ Len(task) <= QueueBound
  /\ mode \in Mode /\ known \subseteq Mode
  /\ saved \in BOOLEAN
  /\ boot \in 0 .. 1
  /\ faults \in 0 .. FaultBound
  /\ commands \in 0 .. CommandBound

WlanInv == Radio /\ Scans /\ WlanOthers

LEMMA WlanImplied == WlanInv => WlanTypeOK /\ AssociatedTracksLink /\ ScanAccounted
BY DEF WlanInv, Radio, Scans, WlanOthers, WlanTypeOK

LEMMA WlanConstants ==
  /\ EventBound \in Nat /\ QueueBound \in Nat /\ ResetTime \in Nat
  /\ FaultBound \in Nat /\ CommandBound \in Nat
BY WlanAssumption

\* Nothing happens to the link or to the flag that follows it.
LEMMA LinkKept ==
  ASSUME Radio, event' = event, late' \in 0 .. Len(event),
         station' \in Station, station'.link = station.link,
         flags' \subseteq Flag, Associated' <=> Associated
  PROVE  Radio'
BY Zenon DEF Radio, AssociatedTracksLink

LEMMA Appended ==
  ASSUME NEW S, NEW s \in Seq(S), NEW x \in S
  PROVE  /\ Append(s, x) \in Seq(S) /\ Append(s, x) # <<>>
         /\ Len(s) \in Nat /\ Len(Append(s, x)) = Len(s) + 1
         /\ Append(s, x)[Len(s) + 1] = x
BY AppendProperties, LenProperties

\* An event is added that says what became of the link.
LEMMA LinkAnnounced ==
  ASSUME Radio, NEW e \in Event, Len(event) <= EventBound,
         event' = Append(event, e), late' \in 0 .. Len(event),
         station' \in Station, station'.link = (e = "got_ip"),
         station'.link => Len(event) < EventBound,
         flags' \subseteq Flag
  PROVE  Radio'
<1>1. /\ event' \in Seq(Event) /\ Len(event') = Len(event) + 1
      /\ event'[Len(event')] = e /\ event' # <<>> /\ Len(event) \in Nat
  <2>1. event \in Seq(Event)
    BY DEF Radio
  <2> QED BY <2>1, Appended
<1>2. Len(event') <= EventBound + 1 /\ late' \in 0 .. Len(event')
  BY <1>1, WlanConstants
<1>4. station'.link => Len(event') <= EventBound
  BY <1>1, WlanConstants
<1>3. AssociatedTracksLink'
  BY <1>1 DEF AssociatedTracksLink
<1> QED BY <1>1, <1>2, <1>3, <1>4, Zenon DEF Radio

\* The link is given up, and with it at most the flag.
LEMMA LinkDropped ==
  ASSUME Radio, event' = Dropped, late' \in 0 .. Len(event),
         station' \in Station, station'.link = FALSE,
         flags' \subseteq Flag, Associated' => Associated
  PROVE  Radio'
<1>1. CASE station.link
  <2>1. Len(event) <= EventBound /\ event' = Append(event, "disconnected")
    BY <1>1 DEF Dropped, Radio
  <2> QED BY <2>1, LinkAnnounced DEF Event
<1>2. CASE ~station.link
  <2>1. event' = event
    BY <1>2 DEF Dropped
  <2>2. AssociatedTracksLink'
    <3>1. event = <<>> => ~Associated'
      BY <1>2, Zenon DEF Radio, AssociatedTracksLink
    <3>2. event # <<>> => event[Len(event)] # "got_ip"
      BY <1>2, Zenon DEF Radio, AssociatedTracksLink
    <3>3. station'.link = FALSE /\ event' = event
      BY <2>1
    <3>4. CASE event = <<>>
      <4>1. Associated' = FALSE
        BY <3>1, <3>4 DEF Associated
      <4> QED BY <3>3, <3>4, <4>1, Zenon DEF AssociatedTracksLink
    <3>5. CASE event # <<>>
      BY <3>2, <3>3, <3>5, Zenon DEF AssociatedTracksLink
    <3> QED BY <3>4, <3>5
  <2> QED BY <1>2, <2>1, <2>2, Zenon DEF Radio
<1> QED BY <1>1, <1>2

\* What wlan_reconnect does keeps both.
LEMMA ReconnectKeeps ==
  ASSUME Radio, Scans, NEW m \in Mode, NEW ok \in BOOLEAN, Reconnect(m, ok),
         flags' \subseteq Flag, Associated' <=> Associated,
         late' \in 0 .. Len(event)
  PROVE  Radio' /\ Scans'
<1>0. station \in Station
  BY DEF Radio
<1>1. CASE UNCHANGED <<station, event, scanning, scan, refused>>
  <2>1. Radio'
    BY <1>0, <1>1, LinkKept
  <2> QED BY <1>1, <2>1 DEF Scans, ScanAccounted
<1>2. CASE Associate(ok) /\ scanning = 0
  <2>1. /\ scanning' = 1 /\ scan' = ok /\ refused' = ~ok /\ event' = event
        /\ station' \in {station, [station EXCEPT !.opmode = "station"]}
    BY <1>2 DEF Associate
  <2>2. station' \in Station /\ station'.link = station.link
    BY <1>0, <2>1 DEF Station
  <2>3. Radio'
    BY <2>1, <2>2, LinkKept
  <2>4. scan' \in BOOLEAN /\ refused' \in BOOLEAN /\ ~(scan' /\ refused')
    BY <2>1, Zenon
  <2>5. scan' \/ refused'
    BY <2>1, Zenon
  <2>6. Scans'
    BY <2>1, <2>4, <2>5 DEF Scans, ScanAccounted
  <2> QED BY <2>3, <2>6
<1>3. CASE AccessPoint(ok)
  <2>1. station' \in Station /\ station'.link = FALSE
    BY <1>0, <1>3 DEF AccessPoint, Station
  <2>2. Radio'
    BY <1>3, <2>1, LinkDropped DEF AccessPoint
  <2> QED BY <1>3, <2>2 DEF AccessPoint, Scans, ScanAccounted
<1>4. Associate(ok) => \/ scanning = 0
                       \/ UNCHANGED <<station, event, scanning, scan, refused>>
  BY DEF Associate, Scans
<1> QED BY <1>1, <1>2, <1>3, <1>4 DEF Reconnect
-----------------------------------------------------------------------------
LEMMA SpendKeeps ==
  ASSUME faults \in 0 .. FaultBound, NEW n \in Nat, Spend(n)
  PROVE  faults' \in 0 .. FaultBound
BY WlanConstants DEF Spend

LEMMA CostIsNat == \A ok \in BOOLEAN : Cost(ok) \in Nat
BY DEF Cost

LEMMA DueTasks == \A t : Due(t) \in Seq(Task)
<1>1. <<>> \in Seq(Task) /\ \A k \in Task : <<k>> \in Seq(Task)
  OBVIOUS
<1>2. \A s1, s2 \in Seq(Task) : s1 \o s2 \in Seq(Task)
  BY ConcatProperties
<1> QED BY <1>1, <1>2 DEF Due, Task

\* The queue holds wlan tasks, no more than it has room for.
LEMMA PostedTasks ==
  ASSUME task \in Seq(Task), NEW new \in Seq(Task)
  PROVE  Posted(new) \in Seq(Task) /\ Len(Posted(new)) <= QueueBound
<1> DEFINE q == task \o new
           n == IF Len(q) > QueueBound THEN QueueBound ELSE Len(q)
<1>1. q \in Seq(Task) /\ Len(q) \in Nat
  BY ConcatProperties
<1>2. n \in Nat /\ n <= QueueBound /\ n <= Len(q)
  BY <1>1, WlanConstants
<1>3. \A i \in 1 .. n : q[i] \in Task
  BY <1>1, <1>2
<1> HIDE DEF q, n
<1>4. SubSeq(q, 1, n) \in Seq(Task)
  BY <1>2, <1>3, SubSeqProperties
<1>5. Len(SubSeq(q, 1, n)) = IF 1 <= n THEN n - 1 + 1 ELSE 0
  BY <1>2, <1>3, SubSeqProperties
<1>6. Len(SubSeq(q, 1, n)) <= QueueBound
  BY <1>2, <1>5, WlanConstants
<1>7. Posted(new) = SubSeq(q, 1, n)
  BY DEF Posted, q, n
<1> QED BY <1>4, <1>6, <1>7
-----------------------------------------------------------------------------
(* Each action preserves the invariant.                                    *)
LEMMA InitIInv == WlanInit => WlanInv
<1> SUFFICES ASSUME WlanInit PROVE WlanInv
  OBVIOUS
<1>1. Started(mode, saved) \in Station /\ Started(mode, saved).link = FALSE
  BY DEF WlanInit, Started, Station
<1>2. Radio
  <2>1. event \in Seq(Event) /\ Len(event) = 0
    BY DEF WlanInit
  <2>2. Associated = FALSE /\ flags \subseteq Flag
    BY DEF WlanInit, Associated, Flag
  <2>3. AssociatedTracksLink
    BY <1>1, <2>2 DEF WlanInit, AssociatedTracksLink
  <2> QED BY <1>1, <2>1, <2>2, <2>3, WlanConstants DEF WlanInit, Radio
<1>3. Scans
  <2>1. scan \in BOOLEAN /\ refused \in BOOLEAN /\ ~(scan \/ refused)
    BY Zenon DEF WlanInit
  <2> QED BY <2>1 DEF WlanInit, Scans, ScanAccounted
<1>4. WlanOthers
  BY WlanConstants DEF WlanInit, WlanOthers
<1> QED BY <1>2, <1>3, <1>4 DEF WlanInv

LEMMA RestartKeeps == ASSUME WlanInv, Restart PROVE WlanInv'
<1>1. /\ Started(mode, saved) \in Station /\ Started(mode, saved).link = FALSE
      /\ station' = Started(mode, saved)
  BY DEF WlanInv, WlanOthers, Restart, Started, Station
<1>2. Radio'
  <2>1. event' = <<>> /\ event' \in Seq(Event) /\ Len(event') = 0
    BY DEF Restart
  <2>2. Associated' = FALSE /\ flags' \subseteq Flag
    BY DEF Restart, Associated, Flag
  <2>3. AssociatedTracksLink'
    BY <1>1, <2>1, <2>2 DEF AssociatedTracksLink
  <2>4. late' = 0
    BY DEF Restart
  <2> QED BY <1>1, <2>1, <2>2, <2>3, <2>4, WlanConstants DEF Radio
<1>3. Scans'
  <2>1. scan' \in BOOLEAN /\ refused' \in BOOLEAN /\ ~(scan' \/ refused')
    BY Zenon DEF Restart
  <2> QED BY <2>1 DEF Restart, Scans, ScanAccounted
<1>4. WlanOthers'
  BY WlanConstants DEF WlanInv, Restart, WlanOthers
<1> QED BY <1>2, <1>3, <1>4 DEF WlanInv

LEMMA PeriodicKeeps == ASSUME WlanInv, Periodic PROVE WlanInv'
<1> USE DEF WlanInv
<1> DEFINE t == IF time > ResetTime THEN time ELSE time + 1
           again == ~Associated /\ t > ReconnectTime
                    /\ flags \cap {"recovery", "reconnect"} = {}
<1>1. PICK call \in BOOLEAN, post \in BOOLEAN :
        /\ late = 0
        /\ late' = Len(event)
        /\ Spend(Cost(call) + Cost(post))
        /\ time' = t
        /\ task' = IF post THEN Posted(Due(t)) ELSE task
        /\ flags' = IF again
                      THEN (flags \cup {"reconnect"}) \ ClearedBy(mode)
                      ELSE IF Associated /\ Due(t) # <<>>
                             THEN flags \ {"bootstrap"}
                             ELSE flags
        /\ IF again
             THEN Reconnect(mode, call)
             ELSE call /\ UNCHANGED <<station, event, scanning, scan, refused>>
        /\ UNCHANGED <<mode, known, saved, boot, commands>>
  BY Zenon DEF Periodic
<1>2. flags' \subseteq Flag /\ (Associated' <=> Associated)
  BY <1>1 DEF Radio, Flag, Associated, ClearedBy
<1>3. late' \in 0 .. Len(event) /\ mode \in Mode
  <2>1. event \in Seq(Event)
    BY DEF Radio
  <2> QED BY <1>1, <2>1, LenProperties DEF WlanOthers
<1>4. Radio' /\ Scans'
  <2>1. CASE again
    BY <1>1, <1>2, <1>3, <2>1, ReconnectKeeps
  <2>2. CASE ~again
    <3>1. UNCHANGED <<station, event, scanning, scan, refused>>
      BY <1>1, <2>2
    <3>2. station \in Station
      BY DEF Radio
    <3>3. Radio'
      BY <1>2, <1>3, <3>1, <3>2, LinkKept
    <3> QED BY <3>1, <3>3 DEF Scans, ScanAccounted
  <2> QED BY <2>1, <2>2
<1>5. time' \in 0 .. ResetTime + 1
  BY <1>1, WlanConstants DEF WlanOthers
<1>6. faults' \in 0 .. FaultBound
  <2>1. Cost(call) + Cost(post) \in Nat
    BY CostIsNat
  <2> QED BY <1>1, <2>1, SpendKeeps DEF WlanOthers
<1>7. task' \in Seq(Task) /\ Len(task') <= QueueBound
  <2>1. task \in Seq(Task) /\ Len(task) <= QueueBound
    BY DEF WlanOthers
  <2>2. Posted(Due(t)) \in Seq(Task) /\ Len(Posted(Due(t))) <= QueueBound
    BY <2>1, DueTasks, PostedTasks
  <2> QED BY <1>1, <2>1, <2>2
<1> QED BY <1>1, <1>4, <1>5, <1>6, <1>7, Zenon DEF WlanOthers

\* Taking a task off the queue.
LEMMA TailTask ==
  ASSUME WlanOthers, task # <<>>
  PROVE  Tail(task) \in Seq(Task) /\ Len(Tail(task)) <= QueueBound
<1>1. task \in Seq(Task) /\ Len(task) <= QueueBound
  BY DEF WlanOthers
<1> QED BY <1>1, HeadTailProperties, LenProperties, WlanConstants

LEMMA TaskHandlerKeeps == ASSUME WlanInv, TaskHandler PROVE WlanInv'
<1> USE DEF WlanInv
<1>0. /\ Len(event) \in Nat /\ late \in 0 .. Len(event)
      /\ station \in Station /\ mode \in Mode
  BY LenProperties DEF Radio, WlanOthers
<1>1. CASE StartRecovery
  <2>1. PICK ok \in BOOLEAN : Spend(Cost(ok)) /\ AccessPoint(ok)
    BY <1>1 DEF StartRecovery
  <2>2. station' \in Station /\ station'.link = FALSE
    BY <1>0, <2>1 DEF AccessPoint, Station
  <2>3. flags' \subseteq Flag /\ ~Associated' /\ late' = late
    BY <1>1 DEF StartRecovery, Flag, Associated
  <2>4. Radio'
    BY <1>0, <2>1, <2>2, <2>3, LinkDropped DEF AccessPoint
  <2>5. Scans'
    BY <2>1 DEF AccessPoint, Scans, ScanAccounted
  <2>6. task' \in Seq(Task) /\ Len(task') <= QueueBound
    BY <1>1, TailTask DEF StartRecovery
  <2>7. faults' \in 0 .. FaultBound
    BY <2>1, CostIsNat, SpendKeeps DEF WlanOthers
  <2>8. time' \in 0 .. ResetTime + 1
    BY <1>1, WlanConstants DEF StartRecovery
  <2> QED BY <1>1, <2>4, <2>5, <2>6, <2>7, <2>8, Zenon DEF StartRecovery, WlanOthers
<1>2. CASE ReconnectTask
  <2>1. PICK ok \in BOOLEAN : Spend(Cost(ok)) /\ Reconnect(mode, ok)
    BY <1>2 DEF ReconnectTask
  <2>2. flags' \subseteq Flag /\ (Associated' <=> Associated) /\ late' = late
    BY <1>2 DEF ReconnectTask, Radio, Flag, Associated, ClearedBy
  <2>3. Radio' /\ Scans'
    BY <1>0, <2>1, <2>2, ReconnectKeeps
  <2>4. task' \in Seq(Task) /\ Len(task') <= QueueBound
    BY <1>2, TailTask DEF ReconnectTask
  <2>5. faults' \in 0 .. FaultBound
    BY <2>1, CostIsNat, SpendKeeps DEF WlanOthers
  <2> QED BY <1>2, <2>3, <2>4, <2>5, Zenon DEF ReconnectTask, WlanOthers
<1>3. CASE ResetTask
  BY <1>3, RestartKeeps DEF ResetTask
<1> QED BY <1>1, <1>2, <1>3 DEF TaskHandler
LEMMA EventHandlerKeeps == ASSUME WlanInv, EventHandler PROVE WlanInv'
<1> USE DEF WlanInv
<1>1. event \in Seq(Event) /\ event # <<>>
  BY DEF EventHandler, Radio
<1>2. /\ event' = Tail(event) /\ event' \in Seq(Event)
      /\ Len(event') = Len(event) - 1 /\ Len(event) \in Nat
      /\ Len(event') \in Nat /\ Head(event) \in Event
      /\ \A i \in 1 .. Len(event') : event'[i] = event[i + 1]
  BY <1>1, HeadTailProperties, LenProperties DEF EventHandler
<1>3. late' \in 0 .. Len(event')
  BY <1>2 DEF EventHandler, Radio
<1>4. flags' \subseteq Flag /\ time' \in 0 .. ResetTime + 1
  <2>1. flags \subseteq Flag /\ time \in 0 .. ResetTime + 1
    BY DEF Radio, WlanOthers
  <2>2. \/ flags' = (flags \ {"reconnect", "recovery"}) \cup {"associated"}
           /\ time' = 0
        \/ flags' = flags \ {"associated"} /\ time' = 0
        \/ UNCHANGED <<flags, time>>
    BY DEF EventHandler, Handle
  <2>3. flags' \subseteq Flag
    BY <2>1, <2>2, Zenon DEF Flag
  <2>4. time' \in 0 .. ResetTime + 1
    <3>1. 0 \in 0 .. ResetTime + 1
      BY WlanConstants
    <3> QED BY <2>1, <2>2, <3>1, Zenon
  <2> QED BY <2>3, <2>4
<1>5. station' = station /\ station.link \in BOOLEAN
  BY DEF EventHandler, Radio, Station
<1>6. AssociatedTracksLink'
  <2>1. station.link = (event[Len(event)] = "got_ip")
    BY <1>1, Zenon DEF Radio, AssociatedTracksLink
  <2>2. CASE Len(event) = 1
    <3>1. event' = <<>>
      BY <1>2, <2>2, EmptySeq
    <3>2. Head(event) = event[Len(event)]
      BY <1>1, <2>2
    <3>3. Associated' <=> Head(event) = "got_ip"
      BY DEF EventHandler, Handle, Associated
    <3>4. Associated' \in BOOLEAN
      BY DEF Associated
    <3> QED BY <1>5, <2>1, <3>1, <3>2, <3>3, <3>4, Zenon DEF AssociatedTracksLink
  <2>3. CASE Len(event) # 1
    <3>1. event' # <<>> /\ event'[Len(event')] = event[Len(event)]
      <4>1. Len(event') \in 1 .. Len(event') /\ Len(event') + 1 = Len(event)
        BY <1>1, <1>2, <2>3, EmptySeq
      <4>2. event'[Len(event')] = event[Len(event') + 1]
        BY <1>2, <4>1
      <4>3. Len(event') # 0
        BY <4>1
      <4>4. event' # <<>>
        BY <4>3, EmptySeq, Zenon
      <4> QED BY <4>1, <4>2, <4>4
    <3> QED BY <1>5, <2>1, <3>1, Zenon DEF AssociatedTracksLink
  <2> QED BY <2>2, <2>3
<1>7. Len(event') <= EventBound + 1 /\ (station'.link => Len(event') <= EventBound)
  BY <1>2, <1>5, WlanConstants DEF Radio
<1>8. Radio'
  BY <1>2, <1>3, <1>4, <1>5, <1>6, <1>7, Zenon DEF Radio
<1>9. Scans'
  BY DEF EventHandler, Scans, ScanAccounted
<1> QED BY <1>4, <1>8, <1>9, Zenon DEF EventHandler, WlanOthers

LEMMA AssociateCallbackKeeps == ASSUME WlanInv, AssociateCallback PROVE WlanInv'
<1> USE DEF WlanInv
<1>1. PICK found \in {"nothing", "present", "better"} :
        /\ scanning' = Scanned(found)
        /\ IF found = "better" /\ station.opmode = "station"
             THEN /\ saved' = TRUE
                  /\ station' = [station EXCEPT !.trying = TRUE, !.link = FALSE]
                  /\ event' = Dropped
             ELSE UNCHANGED <<saved, station, event>>
  BY DEF AssociateCallback
<1>2. /\ late' \in 0 .. Len(event) /\ flags' \subseteq Flag
      /\ (Associated' <=> Associated) /\ station \in Station
  BY DEF AssociateCallback, Radio, Associated
<1>3. Radio' /\ saved' \in BOOLEAN
  <2>1. CASE found = "better" /\ station.opmode = "station"
    <3>1. station' \in Station /\ station'.link = FALSE
      BY <1>1, <1>2, <2>1 DEF Station
    <3> QED BY <1>1, <1>2, <2>1, <3>1, LinkDropped
  <2>2. CASE ~(found = "better" /\ station.opmode = "station")
    BY <1>1, <1>2, <2>2, LinkKept DEF WlanOthers
  <2> QED BY <2>1, <2>2
<1>4. Scans'
  <2>1. /\ scan' = FALSE /\ refused' = refused /\ ~refused
        /\ refused \in BOOLEAN /\ scanning = 1
    BY DEF AssociateCallback, Scans, ScanAccounted
  <2>2. scanning' = 0
    BY <1>1, <2>1 DEF Scanned
  <2>3. scan' \in BOOLEAN /\ refused' \in BOOLEAN /\ ~(scan' \/ refused')
    BY <2>1, Zenon
  <2> QED BY <2>2, <2>3 DEF Scans, ScanAccounted
<1> QED BY <1>3, <1>4, Zenon DEF AssociateCallback, WlanOthers

LEMMA ClientConfigureKeeps == ASSUME WlanInv, ClientConfigure PROVE WlanInv'
<1> USE DEF WlanInv
<1>1. PICK ok \in BOOLEAN :
        LET m == IF ok THEN "station" ELSE station.opmode
        IN  /\ Spend(Cost(ok))
            /\ station' = [opmode |-> m, trying |-> m = "station", link |-> FALSE]
            /\ saved' = (saved \/ m = "station")
  BY Zenon DEF ClientConfigure
<1>2. /\ late' \in 0 .. Len(event) /\ flags' \subseteq Flag
      /\ (Associated' => Associated) /\ event' = Dropped /\ station \in Station
  BY DEF ClientConfigure, Radio, Associated
<1>3. station' \in Station /\ station'.link = FALSE /\ saved' \in BOOLEAN
  BY <1>1, <1>2 DEF Station
<1>4. Radio'
  BY <1>2, <1>3, LinkDropped
<1>5. Scans'
  BY DEF ClientConfigure, Scans, ScanAccounted
<1>6. faults' \in 0 .. FaultBound
  BY <1>1, CostIsNat, SpendKeeps DEF WlanOthers
<1>7. commands' \in 0 .. CommandBound /\ known' \subseteq Mode
  BY WlanConstants DEF ClientConfigure, WlanOthers, Mode
<1> QED BY <1>3, <1>4, <1>5, <1>6, <1>7, Zenon DEF ClientConfigure, WlanOthers

LEMMA WlanModeKeeps ==
  ASSUME WlanInv, NEW m \in Mode, WlanMode(m)
  PROVE  WlanInv'
<1> USE DEF WlanInv
<1>1. PICK ok \in BOOLEAN : Spend(Cost(ok)) /\ Reconnect(m, ok)
  BY DEF WlanMode
<1>2. /\ late' \in 0 .. Len(event) /\ flags' \subseteq Flag
      /\ (Associated' <=> Associated)
  BY DEF WlanMode, Radio, Associated, ClearedBy
<1>3. Radio' /\ Scans'
  BY <1>1, <1>2, ReconnectKeeps
<1>4. faults' \in 0 .. FaultBound
  BY <1>1, CostIsNat, SpendKeeps DEF WlanOthers
<1>5. commands' \in 0 .. CommandBound
  BY WlanConstants DEF WlanMode, WlanOthers
<1> QED BY <1>3, <1>4, <1>5, Zenon DEF WlanMode, WlanOthers

\* The station announces what becomes of its link.
LEMMA StationKeeps == ASSUME WlanInv, Connect \/ LoseLink PROVE WlanInv'
<1> USE DEF WlanInv
<1>1. /\ late' \in 0 .. Len(event) /\ flags' \subseteq Flag
      /\ station \in Station /\ Len(event) \in Nat
  BY LenProperties DEF Connect, LoseLink, Radio
<1>2. Len(event) < EventBound /\ Len(event) <= EventBound
  BY <1>1, WlanConstants DEF Connect, LoseLink
<1>3. Scans' /\ WlanOthers'
  BY DEF Connect, LoseLink, Scans, ScanAccounted, WlanOthers
<1>4. CASE Connect
  <2>1. station' \in Station /\ station'.link = TRUE
    BY <1>1, <1>4 DEF Connect, Station
  <2> QED BY <1>1, <1>2, <1>3, <1>4, <2>1, LinkAnnounced DEF Connect, Event
<1>5. CASE LoseLink
  <2>1. station' \in Station /\ station'.link = FALSE
    BY <1>1, <1>5 DEF LoseLink, Station
  <2> QED BY <1>1, <1>2, <1>3, <1>5, <2>1, LinkAnnounced DEF LoseLink, Event
<1> QED BY <1>4, <1>5

LEMMA StutterKeeps == ASSUME WlanInv, UNCHANGED wlanvars PROVE WlanInv'
BY DEF wlanvars, WlanInv, Radio, Scans, WlanOthers, ScanAccounted, AssociatedTracksLink, Associated
-----------------------------------------------------------------------------
LEMMA Inductive == WlanSpec => []WlanInv
<1>1. WlanInit => WlanInv
  BY InitIInv
<1>2. WlanInv /\ [WlanNext]_wlanvars => WlanInv'
  BY PeriodicKeeps, TaskHandlerKeeps, EventHandlerKeeps,
     AssociateCallbackKeeps, ClientConfigureKeeps, WlanModeKeeps,
     StationKeeps, StutterKeeps DEF WlanNext
<1> QED BY <1>1, <1>2, PTL DEF WlanSpec

(* Every variable keeps its type: the queue of tasks and the events stay   *)
(* within their bounds, the count of scans within one.                     *)
THEOREM WlanTypeCorrect == WlanSpec => []WlanTypeOK
BY Inductive, WlanImplied, PTL

(* wlan_event_handler, whatever comes before an event is delivered, leaves *)
(* flags.associated as the station's link is.                              *)
THEOREM LinkTracked == WlanSpec => []AssociatedTracksLink
BY Inductive, WlanImplied, PTL

(* wlan_associate and its callback run one scan at a time, and requests    *)
(* are shut out without one only after the SDK has refused to start one.   *)
THEOREM ScansCounted == WlanSpec => []ScanAccounted
BY Inductive, WlanImplied, PTL
=============================================================================
