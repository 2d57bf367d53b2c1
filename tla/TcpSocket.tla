------------------------------ MODULE TcpSocket -----------------------------
(***************************************************************************)
(* The sending side of a socket of lwip-interface.c, and the life of its   *)
(* TCP connections.  A socket serves one connection at a time: a new one   *)
(* takes the place of the one there is.  The send buffer is given to lwip  *)
(* in chunks as it takes them; sending_remaining is what is still to be    *)
(* given, sent_unacked what has been given and not been acknowledged.      *)
(*                                                                         *)
(* A socket is used either by the command interpreter, which answers one   *)
(* message at a time and can close or reboot, or by the UART bridge, which *)
(* sends what the UART has received (dispatch.c).                          *)
(*                                                                         *)
(* lwip calls the callbacks one at a time.  It keeps a connection that was *)
(* closed until the peer has acknowledged everything, and goes on calling  *)
(* the callbacks for it: they do not look which connection it is about.    *)
(***************************************************************************)
EXTENDS Integers

CONSTANTS
  Conn,          \* connections lwip can keep at the same time
  SndBuf,        \* size of lwip's send buffer of a connection
  BufferSize,    \* size of the socket's send buffer
  UnackedBound   \* bound of the model: no replies beyond so many unacked bytes

ASSUME TcpSocketAssumption ==
  /\ UnackedBound \in Nat
  /\ SndBuf \in Nat \ {0} /\ BufferSize \in Nat \ {0}

VARIABLES
  bridge,     \* the socket is the one of the UART bridge; never changes
  pcb,        \* socket->tcp.pcb, a set: empty when there is none
  remaining,  \* socket->sending_remaining
  unacked,    \* socket->sent_unacked
  length,     \* string_length(socket->send_buffer)
  peer,       \* the protocol socket->peer is about
  rebooting,  \* socket->reboot_pending
  waiting,    \* bytes in the UART receive queue
  reset,      \* the processor has been reset, or will be by task_reset
  conn,       \* conn[c]: what lwip knows of connection c
  inflight,   \* inflight[c]: bytes lwip holds until the peer has them
  handed,     \* history: bytes of the send buffer given to lwip, in order
  logged      \* history: what has been logged, or counted by a statistic

sending == <<remaining, unacked, length, handed>>
lwip == <<conn, inflight>>
vars == <<bridge, pcb, sending, peer, rebooting, waiting, reset, lwip, logged>>

\* shut: closed from this side first; half: closed by the peer only;
\* closing: closed by the peer and then from this side.
ConnState == {"free", "open", "shut", "half", "closing"}
Gap == -1     \* handed: bytes were skipped or given twice
-----------------------------------------------------------------------------
Init ==
  /\ bridge \in BOOLEAN
  /\ pcb = {}
  /\ remaining = 0 /\ unacked = 0 /\ length = 0
  /\ peer = "tcp"
  /\ rebooting = FALSE
  /\ waiting = 0
  /\ reset = FALSE
  /\ conn = [c \in Conn |-> "free"]
  /\ inflight = [c \in Conn |-> 0]
  /\ handed = 0
  /\ logged = {}

Free(c) == /\ conn' = [conn EXCEPT ![c] = "free"]
           /\ inflight' = [inflight EXCEPT ![c] = 0]

Least(a, b) == IF a < b THEN a ELSE b

(* What tcp_try_send_buffer can give to lwip of rem bytes: at most what    *)
(* fits; nothing when none fits, lwip is out of memory, or the connection  *)
(* has been closed.                                                        *)
Chunks(c, rem, held) ==
  {0} \cup (IF conn[c] = "open" /\ rem > 0
            THEN {Least(rem, SndBuf - held[c])} ELSE {})

(* A chunk is given to lwip, which starts in the buffer where the rest     *)
(* starts; without one sending stops.                                      *)
Give(chunk, rem, una, done, len) ==
  /\ remaining' = IF chunk = 0 THEN 0 ELSE rem - chunk
  /\ unacked' = una + chunk
  /\ length' = len
  /\ handed' = IF chunk = 0 \/ done = len - rem THEN done + chunk ELSE Gap

(* lwip_if_send of len bytes the caller has put in the buffer.             *)
lwip_if_send(len) ==
  \/ /\ peer = "udp" \/ len = 0
     /\ length' = len /\ handed' = 0
     /\ UNCHANGED <<remaining, unacked, lwip>>
  \/ /\ peer = "tcp" /\ len > 0 /\ pcb = {}
     /\ length' = len /\ handed' = 0
     /\ remaining' = 0 /\ unacked' = 0
     /\ UNCHANGED lwip
  \/ /\ peer = "tcp" /\ len > 0
     /\ \E c \in pcb : \E n \in Chunks(c, len, inflight) :
          /\ Give(n, len, unacked, 0, len)
          /\ inflight' = [inflight EXCEPT ![c] = @ + n]
     /\ UNCHANGED conn
-----------------------------------------------------------------------------
(* The callbacks.                                                          *)

\* Seeded fault: the rest of the buffer is not sent.
FaultySentCallback(c, n) ==
  /\ unacked' = IF n > unacked THEN 0 ELSE unacked - n
  /\ inflight' = [inflight EXCEPT ![c] = @ - n]
  /\ UNCHANGED <<remaining, length, handed>>

(* tcp_sent_callback: the peer has acknowledged n bytes of connection c,   *)
(* and more can be sent, on the connection the socket has now.             *)
tcp_sent_callback(c, n) ==
  LET held == [inflight EXCEPT ![c] = @ - n]
      una == IF n > unacked THEN 0 ELSE unacked - n
  IN  IF remaining = 0
      THEN /\ inflight' = held
           /\ unacked' = una
           /\ UNCHANGED <<remaining, length, handed>>
      ELSE \E p \in pcb : \E k \in Chunks(p, remaining, held) :
             /\ Give(k, remaining, una, handed, length)
             /\ inflight' = [held EXCEPT ![p] = @ + k]

Acked(c, n) ==
  /\ ~reset
  /\ n \in 1 .. inflight[c]
  /\ tcp_sent_callback(c, n)
  /\ logged' = logged \cup IF n > unacked THEN {"acked > sent_unacked"} ELSE {}
  /\ UNCHANGED <<pcb, peer, rebooting, waiting, reset, conn>>

\* Seeded fault: what is still to be sent is not forgotten.
FaultyErrorCallback ==
  /\ pcb' = {}
  /\ reset' = rebooting
  /\ UNCHANGED sending

\* Seeded fault: a pending reboot is forgotten.
ForgetfulErrorCallback ==
  /\ pcb' = {}
  /\ remaining' = 0
  /\ UNCHANGED <<unacked, length, handed, reset>>

(* tcp_error_callback.                                                     *)
tcp_error_callback ==
  /\ pcb' = {}
  /\ remaining' = 0
  /\ reset' = rebooting
  /\ UNCHANGED <<unacked, length, handed>>

\* Reset by the peer, or given up by lwip; lwip forgets the connection.
Broken(c) ==
  /\ ~reset
  /\ conn[c] # "free"
  /\ Free(c)
  /\ tcp_error_callback
  /\ UNCHANGED <<peer, rebooting, waiting, logged>>

\* lwip is done with a connection both sides have closed.
Finished(c) ==
  /\ conn[c] = "closing" /\ inflight[c] = 0
  /\ Free(c)
  /\ UNCHANGED <<pcb, sending, peer, rebooting, waiting, reset, logged>>

\* Seeded fault: the socket goes on pointing at the connection it closed.
FaultyPeerCloses(c) ==
  /\ ~reset
  /\ conn[c] \in {"open", "shut"}
  /\ ~rebooting
  /\ conn' = [conn EXCEPT ![c] = "closing"]
  /\ remaining' = 0 /\ unacked' = 0
  /\ UNCHANGED <<pcb, reset, length, handed, inflight, peer, rebooting,
                 waiting, logged>>

(* tcp_received_callback without data: the peer has closed connection c.   *)
(* The connection the socket has is closed and forgotten, and the counters *)
(* are reset; forgotten also when closing it fails and lwip goes on with   *)
(* it.                                                                     *)
PeerCloses(c) ==
  /\ ~reset
  /\ conn[c] \in {"open", "shut"}
  /\ IF rebooting
       THEN /\ reset' = TRUE
            /\ UNCHANGED <<pcb, sending, lwip>>
       ELSE /\ \E closed \in SUBSET pcb :
                 conn' = [d \in Conn |-> IF d = c
                                        THEN IF c \in closed \/ conn[c] = "shut"
                                             THEN "closing" ELSE "half"
                                        ELSE IF d \in closed THEN "shut" ELSE conn[d]]
            /\ pcb' = {}
            /\ remaining' = 0 /\ unacked' = 0
            /\ UNCHANGED <<reset, length, handed, inflight>>
  /\ UNCHANGED <<peer, rebooting, waiting, logged>>

(* tcp_received_callback with an error: the socket's connection is aborted *)
(* and lwip calls tcp_error_callback.                                      *)
ReceiveError ==
  /\ ~reset
  /\ \E c \in pcb : Free(c)
  /\ tcp_error_callback
  /\ UNCHANGED <<peer, rebooting, waiting, logged>>

(* tcp_accepted_callback: the connection there is is aborted.              *)
tcp_accepted_callback(c) ==
  /\ ~reset
  /\ conn[c] = "free"
  /\ conn' = [d \in Conn |-> IF d = c THEN "open"
                             ELSE IF d \in pcb THEN "free" ELSE conn[d]]
  /\ inflight' = [d \in Conn |-> IF d \in pcb THEN 0 ELSE inflight[d]]
  /\ pcb' = {c}
  /\ remaining' = IF pcb = {} THEN remaining ELSE 0
  /\ reset' = (pcb # {} /\ rebooting)
  /\ UNCHANGED <<unacked, length, handed, peer, rebooting, waiting, logged>>

\* Data comes in: the peer to answer is the one who sent it.
Received(proto) ==
  /\ ~reset
  /\ peer' = proto
  /\ \/ proto = "udp" /\ UNCHANGED logged
     \/ /\ proto = "tcp"
        /\ \E c \in Conn :
             /\ conn[c] = "open"
             /\ logged' = logged \cup
                            IF c \in pcb THEN {} ELSE {"pcb != *pcb_tcp"}
  /\ UNCHANGED <<pcb, sending, rebooting, waiting, reset, lwip>>
-----------------------------------------------------------------------------
(* The users of the socket.                                                *)

\* Seeded fault: the answer to one command overwrites the one before it.
FaultyReply ==
  /\ ~bridge /\ ~reset
  /\ unacked <= UnackedBound
  /\ \E len \in 1 .. BufferSize :
       IF remaining = 0
         THEN lwip_if_send(len)
         ELSE length' = len /\ UNCHANGED <<remaining, unacked, handed, lwip>>
  /\ UNCHANGED <<pcb, peer, rebooting, waiting, reset, logged>>

\* task_received_command: an answer, unless one is still being sent.
Reply ==
  /\ ~bridge /\ ~reset
  /\ unacked <= UnackedBound
  /\ remaining = 0
  /\ \E len \in 1 .. BufferSize : lwip_if_send(len)
  /\ UNCHANGED <<pcb, peer, rebooting, waiting, reset, logged>>

(* lwip_if_close of a TCP connection: it is aborted, or closed when a      *)
(* reboot is pending.  That closing has failed is logged.                  *)
lwip_if_close(reboot) ==
  IF reboot
    THEN /\ \/ /\ conn' = [c \in Conn |-> IF c \in pcb THEN "shut" ELSE conn[c]]
               /\ UNCHANGED logged
            \/ /\ logged' = logged \cup {"tcp_close failed"}
               /\ UNCHANGED conn
         /\ UNCHANGED <<pcb, sending, inflight, reset>>
    ELSE /\ \E c \in pcb : Free(c)
         /\ tcp_error_callback
         /\ UNCHANGED logged

\* The command "disconnect".
Disconnect ==
  /\ ~bridge /\ ~reset
  /\ peer = "tcp" /\ pcb # {}
  /\ lwip_if_close(rebooting)
  /\ UNCHANGED <<peer, rebooting, waiting>>

(* task_reset is posted, or refused because the task queue is full, which  *)
(* is counted and otherwise ignored.                                       *)
post_task_reset ==
  \/ reset' = TRUE /\ UNCHANGED logged
  \/ logged' = logged \cup {"task_reset refused"} /\ UNCHANGED reset

(* The command "reset": lwip_if_reboot closes a TCP connection and leaves  *)
(* the rest to the callbacks; otherwise there is a task to be posted.      *)
lwip_if_reboot ==
  /\ ~bridge /\ ~reset
  /\ rebooting' = TRUE
  /\ IF peer = "tcp" /\ pcb # {}
       THEN lwip_if_close(TRUE)
       ELSE post_task_reset /\ UNCHANGED <<pcb, sending, lwip>>
  /\ UNCHANGED <<peer, waiting>>

\* A byte comes in at the UART.
UartReceives ==
  /\ bridge /\ waiting < BufferSize
  /\ waiting' = waiting + 1
  /\ UNCHANGED <<pcb, sending, peer, rebooting, reset, lwip, logged>>

(* background_task_bridge_uart: everything sent before must have been      *)
(* acknowledged; what has been received is sent, or lost if it can't be.   *)
BridgeUart ==
  /\ bridge /\ waiting > 0
  /\ remaining = 0 /\ unacked = 0
  /\ waiting' = 0
  /\ lwip_if_send(waiting)
  /\ UNCHANGED <<pcb, peer, rebooting, reset, logged>>
-----------------------------------------------------------------------------
Step ==
  \/ \E c \in Conn :
       \/ \E n \in 1 .. SndBuf : Acked(c, n)
       \/ Broken(c) \/ Finished(c) \/ PeerCloses(c) \/ tcp_accepted_callback(c)
  \/ ReceiveError
  \/ \E proto \in {"tcp", "udp"} : Received(proto)
  \/ Reply \/ Disconnect \/ lwip_if_reboot
  \/ UartReceives \/ BridgeUart

Next == Step /\ UNCHANGED bridge

(* TCP gets its data acknowledged or gives up; a connection closed from    *)
(* this side is closed by the peer or given up; the bridge is run by the   *)
(* slow timer again and again.                                             *)
AckedOrBroken(c) ==
  /\ inflight[c] > 0
  /\ Broken(c) \/ \E n \in 1 .. SndBuf : Acked(c, n)
  /\ UNCHANGED bridge

EndedByPeer(c) ==
  /\ conn[c] = "shut"
  /\ PeerCloses(c) \/ Broken(c)
  /\ UNCHANGED bridge

Fairness ==
  /\ \A c \in Conn : WF_vars(AckedOrBroken(c)) /\ WF_vars(EndedByPeer(c))
  /\ WF_vars(BridgeUart /\ UNCHANGED bridge)

Spec == Init /\ [][Next]_vars

FairSpec == Spec /\ Fairness
-----------------------------------------------------------------------------
(* The variables have their types; lwip never holds more than fits.        *)
Logged == {"acked > sent_unacked", "pcb != *pcb_tcp", "tcp_close failed",
           "task_reset refused"}

TypeOK ==
  /\ bridge \in BOOLEAN
  /\ pcb \subseteq Conn /\ \A c, d \in pcb : c = d
  /\ remaining \in 0 .. BufferSize
  /\ length \in 0 .. BufferSize /\ waiting \in 0 .. BufferSize
  /\ unacked \in Nat
  /\ peer \in {"tcp", "udp"}
  /\ rebooting \in BOOLEAN /\ reset \in BOOLEAN
  /\ conn \in [Conn -> ConnState]
  /\ inflight \in [Conn -> 0 .. SndBuf]
  /\ handed \in {Gap} \cup Nat
  /\ logged \subseteq Logged

(* The connection the socket points at is one lwip still has: whatever     *)
(* order connections are accepted, closed, aborted and forgotten in, no    *)
(* callback uses one that is gone.                                         *)
PcbAlive == \A c \in pcb : conn[c] \in {"open", "shut"}

(* While there is more to send there is a connection to send it on, and    *)
(* something of it is on its way: the acknowledgement that makes           *)
(* tcp_sent_callback send the rest is going to come.                       *)
SendingDriven == remaining > 0 => \E c \in pcb : inflight[c] > 0

(* The send buffer is given to lwip from its first to its last byte, each  *)
(* byte once, and is not changed before the last is given.                 *)
InOrder == handed # Gap /\ (remaining > 0 => handed + remaining = length)

\* Sending the buffer comes to an end, so that the socket can be used again.
SendFinishes == remaining > 0 ~> (remaining = 0 \/ reset)

(* After the command "reset" the processor is reset: at once when there is *)
(* no TCP connection, or when that is over.  There are two exceptions.     *)
(* One is a failure of tcp_close, which lwip_if_close logs and otherwise   *)
(* takes for success, although "if ... tcp close failed, let the           *)
(* application layer handle the reset": the connection stays open and the  *)
(* reset waits for its end.  The other is that the task queue is full when *)
(* task_reset is posted (dispatch.c:444): then the reset waits for another *)
(* command, or for a connection to come and end.                           *)
RebootHappens ==
  rebooting ~> \/ reset
               \/ logged \cap {"tcp_close failed", "task_reset refused"} # {}

(* What is being sent and a reset that was asked for both come to an end.  *)
RequestsEnd == SendFinishes /\ RebootHappens

\* Everything sent is accounted for, but sent_unacked was not taken down.
Stuck == unacked > 0 /\ \A c \in Conn : inflight[c] = 0

(* What the UART receives is taken from its queue and sent, unless what is *)
(* unacknowledged was lost with its connection.                            *)
BridgeForwardsOrStuck == waiting > 0 ~> (waiting = 0 \/ Stuck)

(* "The UART bridge ... sends it to the UART (serial port) and the other   *)
(* way around": what the UART receives is forwarded sooner or later.       *)
BridgeForwards == waiting > 0 ~> waiting = 0

\* Data comes from the connection the socket has.
ReceivesFromPcb == "pcb != *pcb_tcp" \notin logged
=============================================================================
