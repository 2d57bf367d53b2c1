---------------------------- MODULE Uart_proofs ----------------------------
(* Proofs about Uart: wherever the interrupt handler comes between the     *)
(* steps of the tasks, for any sizes, the posted counts are exact and no   *)
(* interrupt that is needed stays off with nobody to switch it on.         *)
EXTENDS Uart, TLAPS, FiniteSetTheorems

\* How often task t is in queue s.
Count(s, t) == Cardinality({i \in DOMAIN s : s[i] = t})

\* Tasks of different kinds or for different UARTs differ.
LEMMA Distinct ==
  /\ \A u : fetch # fill(u) /\ other # fill(u) /\ fill(u)[2] = u
  /\ \A u, v : fill(u) = fill(v) => u = v
  /\ fetch # other /\ fetch[2] = 0 /\ other[2] = 0
  BY DEF fetch, fill, other

\* A task is in a queue finitely often.
LEMMA Places ==
  ASSUME NEW s \in Seq(Task), NEW t
  PROVE  /\ IsFiniteSet({i \in DOMAIN s : s[i] = t})
         /\ Count(s, t) \in Nat
<1>1. DOMAIN s = 1 .. Len(s) /\ Len(s) \in Nat
  OBVIOUS
<1>2. IsFiniteSet(1 .. Len(s))
  BY <1>1, FS_Interval
<1>3. IsFiniteSet({i \in DOMAIN s : s[i] = t})
  BY <1>1, <1>2, FS_Subset
<1> QED BY <1>3, FS_CardinalityType DEF Count

\* The empty queue holds no task, the tail of a queue all but its head.
LEMMA CountEmpty == \A t : Count(<< >>, t) = 0
<1> TAKE t
<1>1. {i \in DOMAIN << >> : << >>[i] = t} = {}
  OBVIOUS
<1> QED BY <1>1, FS_EmptySet DEF Count

LEMMA CountTail ==
  ASSUME NEW s \in Seq(Task), s # << >>, NEW t
  PROVE  Count(s, t) = Count(Tail(s), t) + (IF Head(s) = t THEN 1 ELSE 0)
<1> DEFINE R == Tail(s)
           A == {i \in DOMAIN s : s[i] = t}
           B == {i \in DOMAIN R : R[i] = t}
           C == A \ {1}
           f == [i \in B |-> i + 1]
<1>1. /\ Len(s) \in Nat \ {0} /\ DOMAIN s = 1 .. Len(s)
      /\ R \in Seq(Task) /\ DOMAIN R = 1 .. Len(s) - 1
      /\ \A i \in DOMAIN R : R[i] = s[i + 1]
  OBVIOUS
<1>2. f \in Bijection(B, C)
  <2>1. f \in [B -> C]
    BY <1>1
  <2>2. \A i, j \in B : f[i] = f[j] => i = j
    BY <1>1
  <2>3. \A c \in C : \E b \in B : f[b] = c
    <3> TAKE c \in C
    <3>1. c - 1 \in B /\ f[c - 1] = c
      BY <1>1
    <3> QED BY <3>1
  <2> QED BY <2>1, <2>2, <2>3 DEF Bijection, Injection, Surjection, IsInjective
<1>3. IsFiniteSet(A) /\ IsFiniteSet(B) /\ Cardinality(A) \in Nat
  BY <1>1, Places DEF Count
<1>4. Cardinality(C) = Cardinality(B)
  BY <1>2, <1>3, FS_Bijection, ZenonT(30) DEF ExistsBijection
<1>5. Cardinality(C) = IF 1 \in A THEN Cardinality(A) - 1 ELSE Cardinality(A)
  BY <1>3, FS_RemoveElement
<1>6. 1 \in A <=> Head(s) = t
  BY <1>1
<1>7. Count(s, t) = Cardinality(A) /\ Count(R, t) = Cardinality(B)
  BY DEF Count
<1> HIDE DEF A, B, C, f
<1> QED BY <1>3, <1>4, <1>5, <1>6, <1>7

\* Tasks that differ from each other add one each to what a queue holds.
LEMMA CountConcat ==
  ASSUME NEW s \in Seq(Task), NEW d \in Seq(Task),
         \A i, j \in DOMAIN d : d[i] = d[j] => i = j, NEW t
  PROVE  Count(s \o d, t) = Count(s, t) + (IF t \in ToSet(d) THEN 1 ELSE 0)
<1> DEFINE A == {i \in DOMAIN s : s[i] = t}
           B == {i \in DOMAIN (s \o d) : (s \o d)[i] = t}
<1>1. /\ Len(s) \in Nat /\ Len(d) \in Nat
      /\ DOMAIN s = 1 .. Len(s) /\ DOMAIN d = 1 .. Len(d)
      /\ DOMAIN (s \o d) = 1 .. Len(s) + Len(d)
      /\ \A i \in 1 .. Len(s) + Len(d) :
           (s \o d)[i] = IF i <= Len(s) THEN s[i] ELSE d[i - Len(s)]
  OBVIOUS
<1>2. IsFiniteSet(A)
  BY Places
<1>3. CASE t \notin ToSet(d)
  <2>1. \A j \in 1 .. Len(d) : d[j] # t
    BY <1>1, <1>3 DEF ToSet
  <2>2. B = A
    <3>1. B \subseteq A
      BY <1>1, <2>1
    <3>2. A \subseteq B
      BY <1>1
    <3> QED BY <3>1, <3>2
  <2>3. Count(s, t) \in Nat
    BY Places
  <2>4. Count(s \o d, t) = Cardinality(B) /\ Count(s, t) = Cardinality(A)
    BY DEF Count
  <2> HIDE DEF A, B
  <2> QED BY <1>3, <2>2, <2>3, <2>4
<1>4. CASE t \in ToSet(d)
  <2>1. PICK j \in 1 .. Len(d) : d[j] = t
    BY <1>1, <1>4 DEF ToSet
  <2>2. \A i \in 1 .. Len(d) : d[i] = t => i = j
    BY <1>1, <2>1
  <2>3. B = A \cup {Len(s) + j}
    <3>1. B \subseteq A \cup {Len(s) + j}
      <4> SUFFICES ASSUME NEW i \in B PROVE i \in A \cup {Len(s) + j}
        OBVIOUS
      <4>1. CASE i <= Len(s)
        BY <1>1, <4>1
      <4>2. CASE i > Len(s)
        <5>1. i - Len(s) \in 1 .. Len(d) /\ d[i - Len(s)] = t
          BY <1>1, <4>2
        <5>2. i - Len(s) = j
          BY <5>1, <2>2
        <5> QED BY <1>1, <5>2, SMTT(30)
      <4> QED BY <1>1, <4>1, <4>2
    <3>2. A \subseteq B /\ Len(s) + j \in B
      BY <1>1, <2>1
    <3> QED BY <3>1, <3>2
  <2>4. Len(s) + j \notin A
    BY <1>1
  <2>5. Cardinality(B) = Cardinality(A) + 1
    BY <1>2, <2>3, <2>4, FS_AddElement
  <2>6. Count(s \o d, t) = Cardinality(B) /\ Count(s, t) = Cardinality(A)
    BY DEF Count
  <2> HIDE DEF A, B
  <2> QED BY <1>4, <2>5, <2>6
<1> QED BY <1>3, <1>4

\* No task is in d twice.
Once(d) == \A i, j \in DOMAIN d : d[i] = d[j] => i = j

\* Different tasks after different tasks are different tasks.
LEMMA ConcatOnce ==
  ASSUME NEW x \in Seq(Task), NEW y \in Seq(Task), Once(x), Once(y),
         ToSet(x) \cap ToSet(y) = {}
  PROVE  /\ x \o y \in Seq(Task) /\ Once(x \o y)
         /\ ToSet(x \o y) = ToSet(x) \cup ToSet(y)
<1>1. /\ Len(x) \in Nat /\ Len(y) \in Nat
      /\ DOMAIN x = 1 .. Len(x) /\ DOMAIN y = 1 .. Len(y)
      /\ DOMAIN (x \o y) = 1 .. Len(x) + Len(y)
      /\ \A i \in 1 .. Len(x) + Len(y) :
           (x \o y)[i] = IF i <= Len(x) THEN x[i] ELSE y[i - Len(x)]
  OBVIOUS
<1>2. \A i \in DOMAIN (x \o y) :
        IF i <= Len(x) THEN i \in DOMAIN x ELSE i - Len(x) \in DOMAIN y
  BY <1>1
<1>3. Once(x \o y)
  <2> SUFFICES ASSUME NEW i \in DOMAIN (x \o y), NEW j \in DOMAIN (x \o y),
                      (x \o y)[i] = (x \o y)[j]
               PROVE  i = j
    BY DEF Once
  <2>1. CASE i <= Len(x) /\ j <= Len(x)
    BY <1>1, <1>2, <2>1 DEF Once
  <2>2. CASE i > Len(x) /\ j > Len(x)
    <3>1. i - Len(x) = j - Len(x)
      BY <1>1, <1>2, <2>2 DEF Once
    <3> QED BY <1>1, <3>1
  <2>3. CASE i <= Len(x) /\ j > Len(x)
    BY <1>1, <1>2, <2>3, SMTT(30) DEF ToSet
  <2>4. CASE i > Len(x) /\ j <= Len(x)
    BY <1>1, <1>2, <2>4, SMTT(30) DEF ToSet
  <2> QED BY <1>1, <2>1, <2>2, <2>3, <2>4
<1>4. ToSet(x \o y) \subseteq ToSet(x) \cup ToSet(y)
  BY <1>1, <1>2 DEF ToSet
<1>5. ToSet(x) \subseteq ToSet(x \o y)
  BY <1>1 DEF ToSet
<1>6. ToSet(y) \subseteq ToSet(x \o y)
  <2> SUFFICES ASSUME NEW j \in DOMAIN y PROVE y[j] \in ToSet(x \o y)
    BY DEF ToSet
  <2>1. /\ Len(x) + j \in DOMAIN (x \o y)
        /\ (x \o y)[Len(x) + j] = y[j]
    BY <1>1
  <2> QED BY <2>1 DEF ToSet
<1> QED BY <1>3, <1>4, <1>5, <1>6

Maybe(p, t) == IF p THEN <<t>> ELSE << >>

\* What the handler wants is a part of fetch, fill(0), fill(1), each once,
LEMMA MaybeOnce ==
  ASSUME NEW p \in BOOLEAN, NEW t, p => t \in Task
  PROVE  /\ Maybe(p, t) \in Seq(Task) /\ Once(Maybe(p, t))
         /\ ToSet(Maybe(p, t)) = IF p THEN {t} ELSE {}
  BY DEF Maybe, Once, ToSet

LEMMA ThreeOnce ==
  ASSUME NEW p \in BOOLEAN, NEW q \in BOOLEAN, NEW r \in BOOLEAN, 0 \in Uart, r => 1 \in Uart, NEW w,
         w = (Maybe(p, fetch) \o Maybe(q, fill(0))) \o Maybe(r, fill(1))
  PROVE  /\ w \in Seq(Task) /\ Once(w)
         /\ ToSet(w) = (IF p THEN {fetch} ELSE {}) \cup (IF q THEN {fill(0)} ELSE {})
                          \cup (IF r THEN {fill(1)} ELSE {})
<1>1. fetch # fill(0) /\ fetch # fill(1) /\ fill(0) # fill(1)
  BY Distinct
<1>2. fetch \in Task /\ fill(0) \in Task /\ (r => fill(1) \in Task)
  BY DEF Task
<1> DEFINE x == Maybe(p, fetch)
           y == Maybe(q, fill(0))
           z == Maybe(r, fill(1))
<1>3. /\ x \in Seq(Task) /\ Once(x) /\ ToSet(x) = IF p THEN {fetch} ELSE {}
      /\ y \in Seq(Task) /\ Once(y) /\ ToSet(y) = IF q THEN {fill(0)} ELSE {}
      /\ z \in Seq(Task) /\ Once(z) /\ ToSet(z) = IF r THEN {fill(1)} ELSE {}
  BY <1>2, MaybeOnce
<1>4. /\ x \o y \in Seq(Task) /\ Once(x \o y)
      /\ ToSet(x \o y) = ToSet(x) \cup ToSet(y)
  BY <1>1, <1>3, ConcatOnce
<1>5. w = (x \o y) \o z
  OBVIOUS
<1> HIDE DEF x, y, z
<1>6. ToSet(x \o y) \cap ToSet(z) = {}
  BY <1>1, <1>3, <1>4
<1>7. /\ w \in Seq(Task) /\ Once(w)
      /\ ToSet(w) = ToSet(x \o y) \cup ToSet(z)
  <2> DEFINE v == x \o y
  <2>1. v \in Seq(Task) /\ Once(v) /\ ToSet(v) \cap ToSet(z) = {} /\ w = v \o z
    BY <1>4, <1>5, <1>6
  <2> HIDE DEF v
  <2>2. /\ v \o z \in Seq(Task) /\ Once(v \o z)
        /\ ToSet(v \o z) = ToSet(v) \cup ToSet(z)
    BY <1>3, <2>1, ConcatOnce
  <2>3. w \in Seq(Task) /\ Once(w) /\ ToSet(w) = ToSet(v) \cup ToSet(z)
    BY <2>1, <2>2
  <2> QED BY <2>3 DEF v
<1> QED BY <1>3, <1>4, <1>7

\* and so is the start of it that fits in the queue.
LEMMA FirstOnce ==
  ASSUME NEW w \in Seq(Task), Once(w), NEW n \in Nat
  PROVE  LET d == SubSeq(w, 1, Least(Len(w), n))
         IN  /\ d \in Seq(Task) /\ Once(d) /\ Len(d) <= n
             /\ ToSet(d) \subseteq ToSet(w)
<1> DEFINE k == Least(Len(w), n)
           d == SubSeq(w, 1, k)
<1>1. k \in 0 .. Len(w) /\ k <= n /\ Len(w) \in Nat
  BY DEF Least
<1>2. /\ d \in Seq(Task) /\ Len(d) = k /\ DOMAIN d = 1 .. k
      /\ \A i \in 1 .. k : d[i] = w[i]
      /\ 1 .. k \subseteq DOMAIN w
  BY <1>1
<1> HIDE DEF k, d
<1>3. Once(d) /\ ToSet(d) \subseteq ToSet(w)
  BY <1>2 DEF Once, ToSet
<1>4. Len(d) <= n
  BY <1>1, <1>2
<1> QED BY <1>2, <1>3, <1>4 DEF d, k
-----------------------------------------------------------------------------
(* The inductive invariant: the counts are exact, what a step has loaded   *)
(* is still current when it is stored, and each direction is served.       *)
Receiving == pc \in {"fetch", "fetch_loaded"}
Sending(u) == pc \in {"fill", "fill_loaded"} /\ cpu.uart = u
One(p) == IF p THEN 1 ELSE 0

PostedInv ==
  /\ rx_posted = Count(tasks, fetch) + One(Receiving)
  /\ \A u \in Uart : tx_posted[u] = Count(tasks, fill(u)) + One(Sending(u))

LoadedInv ==
  /\ pc = "fetch_loaded" => cpu.count = rx_posted
  /\ pc = "fill_loaded" => cpu.count = tx_posted[cpu.uart]
  /\ pc = "rx_loaded" => int_ena[0] \subseteq cpu.ena
  /\ pc = "tx_loaded" => int_ena[cpu.uart] \subseteq cpu.ena
  /\ pc \in {"tx_enable", "tx_loaded"} /\ ~cpu.want /\ touched[cpu.uart] = "flush"
       => send_queue[cpu.uart] = 0

RxServed ==
  \/ "rx" \in int_ena[0] \/ fetch \in refused
  \/ Count(tasks, fetch) > 0
  \/ pc \in {"fetch", "fetch_loaded", "drain", "rx_enable", "rx_loaded"}

TxServed(u) ==
  \/ "tx" \in int_ena[u] \/ fill(u) \in refused
  \/ Count(tasks, fill(u)) > 0
  \/ cpu.uart = u /\ pc \in {"fill", "fill_loaded", "refill"}
  \/ cpu.uart = u /\ pc \in {"tx_enable", "tx_loaded"} /\ cpu.want

ServedInv ==
  /\ RxServed
  /\ \A u \in Uart : send_queue[u] > 0 /\ touched[u] = "flush" => TxServed(u)

IInv == TypeOK /\ PostedInv /\ LoadedInv /\ ServedInv
-----------------------------------------------------------------------------
(* What does not touch the interrupts, the tasks or the sending side.      *)
Quiet ==
  LineIn \/ (\E u \in Uart : LineOut(u) \/ SetLine(u)) \/ uart_receive
    \/ uart_clear_receive_queue \/ RunBridge

LEMMA QuietPreserves == ASSUME IInv, Quiet PROVE IInv'
<1> USE UartAssumption DEF IInv
<1>1. UNCHANGED <<send_queue, int_ena, posted, autofill, tasks, pc, cpu, history>>
  BY DEF Quiet, LineIn, LineOut, SetLine, uart_receive, uart_clear_receive_queue,
         RunBridge, queues
<1>2. /\ rx_fifo' \in 0 .. FifoSize /\ tx_fifo' \in [Uart -> 0 .. FifoSize]
      /\ receive_queue' \in 0 .. ReceiveSize /\ bridge' \in BOOLEAN
  <2>1. CASE LineIn
    BY <2>1 DEF LineIn, TypeOK, queues
  <2>2. ASSUME NEW u \in Uart, LineOut(u) PROVE <1>2!:
    <3>1. tx_fifo[u] - 1 \in 0 .. FifoSize
      BY <2>2 DEF LineOut, TypeOK
    <3>2. tx_fifo' = [tx_fifo EXCEPT ![u] = tx_fifo[u] - 1]
      BY <2>2 DEF LineOut
    <3>3. tx_fifo' \in [Uart -> 0 .. FifoSize]
      BY <3>1, <3>2 DEF TypeOK
    <3>4. UNCHANGED <<rx_fifo, receive_queue, bridge>>
      BY <2>2 DEF LineOut, queues
    <3> QED BY <3>3, <3>4 DEF TypeOK
  <2>3. ASSUME NEW u \in Uart, SetLine(u) PROVE <1>2!:
    BY <2>3 DEF SetLine, TypeOK, queues
  <2>4. CASE uart_receive
    BY <2>4 DEF uart_receive, TypeOK, hardware
  <2>5. CASE uart_clear_receive_queue
    BY <2>5 DEF uart_clear_receive_queue, TypeOK, hardware
  <2>6. CASE RunBridge
    <3>1. receive_queue' \in 0 .. receive_queue
      BY <2>6 DEF RunBridge
    <3>2. receive_queue' \in 0 .. ReceiveSize
      BY <3>1 DEF TypeOK
    <3>3. UNCHANGED <<rx_fifo, tx_fifo>> /\ bridge' = FALSE
      BY <2>6 DEF RunBridge, hardware
    <3> QED BY <3>2, <3>3 DEF TypeOK
  <2> QED BY <2>1, <2>2, <2>3, <2>4, <2>5, <2>6 DEF Quiet
<1>3. TypeOK'
  BY <1>1, <1>2 DEF TypeOK, posted, history
<1>4. PostedInv' /\ LoadedInv' /\ ServedInv'
  BY <1>1 DEF PostedInv, LoadedInv, ServedInv, Receiving, Sending, RxServed,
              TxServed, posted, history
<1> QED BY <1>3, <1>4

(* The fetch task.                                                         *)
LEMMA FetchPreserves ==
  ASSUME IInv, FetchLoad \/ FetchStore \/ Drain \/ EnableRxLoad \/ EnableRxStore
                 \/ PostBridge
  PROVE  IInv'
<1> USE UartAssumption DEF IInv
<1>1. \A t : Count(tasks, t) \in Nat
  BY Places DEF TypeOK
<1>2. /\ UNCHANGED <<tx_fifo, send_queue, tx_posted, autofill, tasks, history>>
      /\ pc \in {"fetch", "fetch_loaded", "drain", "rx_enable", "rx_loaded", "fetched"}
      /\ pc' \in {"fetch_loaded", "drain", "rx_enable", "rx_loaded", "fetched", "idle"}
  BY DEF FetchLoad, FetchStore, Drain, EnableRxLoad, EnableRxStore, PostBridge,
         hardware, queues, posted
<1>3. CASE FetchLoad
  <2>1. /\ cpu' = [cpu EXCEPT !.count = rx_posted] /\ pc = "fetch"
        /\ pc' = "fetch_loaded" /\ UNCHANGED <<rx_posted, int_ena>>
    BY <1>3 DEF FetchLoad, posted
  <2>2. TypeOK'
    <3>1. UNCHANGED <<hardware, queues, posted, bridge>>
      BY <1>3 DEF FetchLoad
    <3>2. cpu' \in [uart : Uart, count : 0 .. 1, ena : SUBSET {"rx", "tx"}, want : BOOLEAN]
      BY <2>1 DEF TypeOK
    <3> QED BY <1>2, <2>1, <3>1, <3>2 DEF TypeOK, hardware, queues, posted, history, PC
  <2>3. PostedInv'
    BY <1>2, <2>1 DEF PostedInv, Receiving, Sending
  <2>4. LoadedInv'
    BY <2>1 DEF LoadedInv, TypeOK
  <2>5. ServedInv'
    BY <1>2, <2>1 DEF TypeOK, ServedInv, RxServed, TxServed, history
  <2> QED BY <2>2, <2>3, <2>4, <2>5
<1>4. CASE FetchStore
  <2>1. rx_posted' = Count(tasks, fetch) /\ rx_posted' \in 0 .. 1
    BY <1>1, <1>4 DEF FetchStore, TypeOK, PostedInv, LoadedInv, Receiving, One
  <2>2. TypeOK'
    <3>1. cpu' \in [uart : Uart, count : 0 .. 1, ena : SUBSET {"rx", "tx"}, want : BOOLEAN]
      BY <1>4 DEF FetchStore, Blank
    <3>2. UNCHANGED <<hardware, queues, int_ena, bridge>> /\ pc' = "drain"
      BY <1>4 DEF FetchStore
    <3> QED BY <1>2, <2>1, <3>1, <3>2 DEF TypeOK, hardware, queues, history, PC
  <2>3. PostedInv' /\ LoadedInv' /\ ServedInv'
    BY <1>1, <1>2, <1>4, <2>1 DEF FetchStore, TypeOK, PostedInv, LoadedInv, ServedInv,
         Receiving, Sending, One, RxServed, TxServed, history, Blank
  <2> QED BY <2>2, <2>3
<1>5. CASE Drain
  <2>1. Least(receive_queue + rx_fifo, ReceiveSize) \in 0 .. ReceiveSize
    BY DEF TypeOK, Least
  <2>2. TypeOK'
    <3>1. /\ rx_fifo' = 0 /\ receive_queue' \in 0 .. ReceiveSize /\ pc' = "rx_enable"
          /\ UNCHANGED <<int_ena, posted, bridge, cpu>>
      BY <1>5, <2>1 DEF Drain
    <3>2. 0 \in 0 .. FifoSize
      OBVIOUS
    <3> QED BY <1>2, <3>1, <3>2 DEF TypeOK, posted, history, PC
  <2>3. PostedInv' /\ LoadedInv' /\ ServedInv'
    BY <1>2, <1>5 DEF Drain, PostedInv, LoadedInv, ServedInv,
         Receiving, Sending, RxServed, TxServed, posted, history
  <2> QED BY <2>2, <2>3
<1>6. CASE EnableRxLoad
  <2>1. /\ cpu' = [cpu EXCEPT !.ena = int_ena[0]] /\ pc = "rx_enable"
        /\ pc' = "rx_loaded" /\ UNCHANGED <<rx_posted, int_ena>>
    BY <1>6 DEF EnableRxLoad, posted
  <2>2. TypeOK'
    <3>1. UNCHANGED <<hardware, queues, posted, bridge>>
      BY <1>6 DEF EnableRxLoad
    <3>2. cpu' \in [uart : Uart, count : 0 .. 1, ena : SUBSET {"rx", "tx"}, want : BOOLEAN]
      BY <2>1 DEF TypeOK
    <3> QED BY <1>2, <2>1, <3>1, <3>2 DEF TypeOK, hardware, queues, posted, history, PC
  <2>3. PostedInv'
    BY <1>2, <2>1 DEF PostedInv, Receiving, Sending
  <2>4. LoadedInv'
    BY <2>1 DEF LoadedInv, TypeOK
  <2>5. ServedInv'
    BY <1>2, <2>1 DEF TypeOK, ServedInv, RxServed, TxServed, history
  <2> QED BY <2>2, <2>3, <2>4, <2>5
<1>7. CASE EnableRxStore
  <2>1. int_ena' \in [Uart -> SUBSET {"rx", "tx"}]
    BY <1>7 DEF EnableRxStore, TypeOK
  <2>2. TypeOK'
    <3>1. UNCHANGED <<hardware, queues, posted, bridge>> /\ pc' = "fetched"
      BY <1>7 DEF EnableRxStore
    <3>2. cpu' \in [uart : Uart, count : 0 .. 1, ena : SUBSET {"rx", "tx"}, want : BOOLEAN]
      BY <1>7 DEF EnableRxStore, Blank
    <3> QED BY <1>2, <2>1, <3>1, <3>2 DEF TypeOK, hardware, queues, posted, history, PC
  <2>3. /\ pc = "rx_loaded" /\ pc' = "fetched" /\ rx_posted' = rx_posted
        /\ "rx" \in int_ena'[0]
        /\ \A u \in Uart : "tx" \in int_ena[u] => "tx" \in int_ena'[u]
    BY <1>7 DEF EnableRxStore, TypeOK, LoadedInv, posted
  <2>4. PostedInv' /\ LoadedInv'
    BY <1>2, <2>3 DEF PostedInv, LoadedInv, Receiving, Sending
  <2>5. ServedInv'
    BY <1>2, <2>3 DEF ServedInv, RxServed, TxServed, history
  <2> QED BY <2>2, <2>4, <2>5
<1>8. CASE PostBridge
  <2>1. bridge' \in BOOLEAN
    BY <1>8 DEF PostBridge, TypeOK
  <2>2. TypeOK'
    BY <1>2, <1>8, <2>1 DEF PostBridge, TypeOK, hardware, queues, posted, history, PC
  <2>3. pc = "fetched" /\ pc' = "idle" /\ UNCHANGED <<rx_posted, int_ena, cpu>>
    BY <1>8 DEF PostBridge, posted
  <2>4. PostedInv' /\ LoadedInv'
    BY <1>2, <2>3 DEF PostedInv, LoadedInv, Receiving, Sending
  <2>5. ServedInv'
    BY <1>2, <2>3 DEF ServedInv, RxServed, TxServed, history
  <2> QED BY <2>2, <2>4, <2>5
<1> QED BY <1>3, <1>4, <1>5, <1>6, <1>7, <1>8

(* The fill task, and the end of the calls that enable the interrupt.      *)
LEMMA FillPreserves ==
  ASSUME IInv, FillLoad \/ FillStore \/ Refill \/ EnableTxLoad \/ EnableTxStore
  PROVE  IInv'
<1> USE UartAssumption DEF IInv
<1>1. \A t : Count(tasks, t) \in Nat
  BY Places DEF TypeOK
<1>2. /\ UNCHANGED <<rx_fifo, receive_queue, rx_posted, autofill, tasks, bridge, history>>
      /\ pc \in {"fill", "fill_loaded", "refill", "tx_enable", "tx_loaded"}
      /\ pc' \in {"fill_loaded", "refill", "tx_enable", "tx_loaded", "idle"}
      /\ cpu.uart \in Uart
  BY DEF FillLoad, FillStore, Refill, EnableTxLoad, EnableTxStore, TypeOK,
         hardware, queues, posted
<1>3. CASE FillLoad
  <2>1. /\ cpu' = [cpu EXCEPT !.count = tx_posted[cpu.uart]] /\ pc = "fill"
        /\ pc' = "fill_loaded" /\ UNCHANGED <<hardware, queues, int_ena, posted>>
    BY <1>3 DEF FillLoad
  <2>2. TypeOK'
    BY <1>2, <2>1 DEF TypeOK, hardware, queues, posted, history, PC
  <2>3. cpu'.uart = cpu.uart /\ cpu'.count = tx_posted[cpu.uart]
    BY <2>1 DEF TypeOK
  <2>4. PostedInv' /\ LoadedInv'
    BY <1>2, <2>1, <2>3 DEF PostedInv, LoadedInv, Receiving, Sending, posted
  <2>5. ServedInv'
    BY <1>2, <2>1, <2>3 DEF ServedInv, RxServed, TxServed, queues, history
  <2> QED BY <2>2, <2>4, <2>5
<1>4. CASE FillStore
  <2> DEFINE u == cpu.uart
  <2>1. cpu.count - 1 = Count(tasks, fill(u)) /\ cpu.count - 1 \in 0 .. 1
    BY <1>1, <1>2, <1>4 DEF FillStore, TypeOK, PostedInv, LoadedInv, Sending, One
  <2>2. tx_posted' \in [Uart -> 0 .. 1]
    BY <1>2, <1>4, <2>1 DEF FillStore, TypeOK
  <2>3. TypeOK'
    <3>1. cpu' \in [uart : Uart, count : 0 .. 1, ena : SUBSET {"rx", "tx"}, want : BOOLEAN]
      <4>1. cpu' = [cpu EXCEPT !.count = 0] /\ 0 \in 0 .. 1
        BY <1>4 DEF FillStore
      <4> QED BY <4>1 DEF TypeOK
    <3> QED BY <1>2, <1>4, <2>2, <3>1 DEF FillStore, TypeOK, hardware, queues, history, PC
  <2>4. PostedInv'
    <3>1. cpu'.uart = u /\ pc' = "refill" /\ pc = "fill_loaded"
      BY <1>4 DEF FillStore, TypeOK
    <3>2. ASSUME NEW v \in Uart PROVE tx_posted'[v] = Count(tasks, fill(v))
      <4>1. tx_posted' = [tx_posted EXCEPT ![u] = cpu.count - 1]
        BY <1>4 DEF FillStore
      <4>2. CASE v = u
        BY <1>2, <2>1, <4>1, <4>2 DEF TypeOK
      <4>3. CASE v # u
        <5>1. tx_posted'[v] = tx_posted[v]
          BY <4>1, <4>3 DEF TypeOK
        <5>2. ~Sending(v)
          BY <4>3 DEF Sending
        <5>3. One(Sending(v)) = 0
          BY <5>2 DEF One, Sending
        <5>4. tx_posted[v] = Count(tasks, fill(v)) + One(Sending(v))
          BY DEF PostedInv
        <5> QED BY <1>1, <5>1, <5>3, <5>4
      <4> QED BY <4>2, <4>3
    <3> QED BY <1>1, <1>2, <3>1, <3>2 DEF PostedInv, Receiving, Sending, One
  <2>5. /\ pc = "fill_loaded" /\ pc' = "refill" /\ cpu'.uart = u
        /\ UNCHANGED <<int_ena, send_queue>>
    BY <1>4 DEF FillStore, TypeOK, queues
  <2>6. LoadedInv' /\ ServedInv'
    BY <1>2, <2>5 DEF LoadedInv, ServedInv, RxServed, TxServed, history
  <2> QED BY <2>3, <2>4, <2>6
<1>5. CASE Refill
  <2> DEFINE u == cpu.uart
             n == IF tx_fifo[u] < FillLimit THEN FillLimit - tx_fifo[u] ELSE 0
             moved == Least(send_queue[u], n)
  <2>1. /\ n \in 0 .. FifoSize /\ tx_fifo[u] + n <= FifoSize
        /\ moved \in 0 .. n /\ moved <= send_queue[u]
        /\ tx_fifo[u] \in Nat /\ send_queue[u] \in 0 .. SendSize
    <3>1. /\ tx_fifo[u] \in 0 .. FifoSize /\ send_queue[u] \in 0 .. SendSize
          /\ FillLimit \in 1 .. FifoSize
      BY <1>2 DEF TypeOK
    <3>2. n \in 0 .. FifoSize /\ tx_fifo[u] + n <= FifoSize
      BY <3>1
    <3> HIDE DEF n
    <3> QED BY <3>1, <3>2 DEF Least
  <2>2. /\ UNCHANGED <<int_ena, posted>> /\ pc = "refill" /\ pc' = "tx_enable"
        /\ tx_fifo' \in [Uart -> 0 .. FifoSize]
        /\ send_queue' \in [Uart -> 0 .. SendSize]
        /\ cpu' \in [uart : Uart, count : 0 .. 1, ena : SUBSET {"rx", "tx"}, want : BOOLEAN]
        /\ cpu'.uart = u /\ (send_queue'[u] > 0 => cpu'.want)
        /\ \A v \in Uart : v # u => send_queue'[v] = send_queue[v]
    <3>1. CASE autofill[u]
      <4>1. /\ tx_fifo' = [tx_fifo EXCEPT ![u] = @ + n]
            /\ cpu' = [cpu EXCEPT !.want = TRUE] /\ send_queue' = send_queue
            /\ UNCHANGED <<int_ena, posted>> /\ pc = "refill" /\ pc' = "tx_enable"
        BY <1>5, <3>1 DEF Refill
      <4>2. tx_fifo[u] + n \in 0 .. FifoSize
        BY <2>1
      <4> HIDE DEF n, moved
      <4>3. tx_fifo' \in [Uart -> 0 .. FifoSize]
        BY <1>2, <4>1, <4>2 DEF TypeOK
      <4> QED BY <4>1, <4>3 DEF TypeOK
    <3>2. CASE ~autofill[u]
      <4>1. send_queue' = [send_queue EXCEPT ![u] = @ - moved]
        BY <1>5, <3>2 DEF Refill
      <4>2. send_queue' \in [Uart -> 0 .. SendSize]
        BY <1>2, <2>1, <4>1, SMTT(30) DEF TypeOK
      <4>3. tx_fifo' = [tx_fifo EXCEPT ![u] = @ + moved]
        BY <1>5, <3>2 DEF Refill
      <4>4. tx_fifo' \in [Uart -> 0 .. FifoSize]
        <5>1. tx_fifo[u] + moved \in 0 .. FifoSize
          BY <2>1
        <5> HIDE DEF moved
        <5> QED BY <1>2, <4>3, <5>1 DEF TypeOK
      <4>5. cpu' = [cpu EXCEPT !.want = send_queue'[u] > 0]
        BY <1>5, <3>2 DEF Refill
      <4>6. (send_queue'[u] > 0) \in BOOLEAN
        OBVIOUS
      <4>7. /\ cpu' \in [uart : Uart, count : 0 .. 1, ena : SUBSET {"rx", "tx"}, want : BOOLEAN]
            /\ cpu'.uart = u /\ (send_queue'[u] > 0 => cpu'.want)
        BY <4>5, <4>6 DEF TypeOK
      <4>8. UNCHANGED <<int_ena, posted>> /\ pc = "refill" /\ pc' = "tx_enable"
        BY <1>5 DEF Refill
      <4> QED BY <1>2, <4>1, <4>2, <4>4, <4>7, <4>8 DEF TypeOK
    <3> QED BY <3>1, <3>2
  <2> HIDE DEF n, moved
  <2>3. TypeOK'
    BY <1>2, <2>2 DEF TypeOK, posted, history, PC
  <2>4. PostedInv'
    BY <1>2, <2>2 DEF PostedInv, Receiving, Sending, posted
  <2>5. LoadedInv'
    <3>1. send_queue'[u] \in 0 .. SendSize
      BY <1>2, <2>2
    <3>2. send_queue'[u] > 0 \/ send_queue'[u] = 0
      BY <3>1
    <3> QED BY <2>2, <3>2 DEF LoadedInv
  <2>6. ServedInv'
    <3>1. RxServed'
      BY <1>2, <2>2 DEF ServedInv, RxServed, history
    <3>2. ASSUME NEW v \in Uart, send_queue'[v] > 0, touched'[v] = "flush"
          PROVE  TxServed(v)'
      <4>1. CASE v = u
        BY <2>2, <3>2, <4>1 DEF TxServed
      <4>2. CASE v # u
        BY <1>2, <2>2, <3>2, <4>2 DEF ServedInv, TxServed, history
      <4> QED BY <4>1, <4>2
    <3> QED BY <3>1, <3>2 DEF ServedInv
  <2> QED BY <2>3, <2>4, <2>5, <2>6
<1>6. CASE EnableTxLoad
  <2>1. /\ cpu' = [cpu EXCEPT !.ena = int_ena[cpu.uart]] /\ pc = "tx_enable"
        /\ pc' = "tx_loaded" /\ UNCHANGED <<hardware, queues, int_ena, posted>>
    BY <1>6 DEF EnableTxLoad
  <2>2. TypeOK'
    BY <1>2, <2>1 DEF TypeOK, hardware, queues, posted, history, PC
  <2>3. cpu'.uart = cpu.uart /\ cpu'.ena = int_ena[cpu.uart] /\ cpu'.want = cpu.want
    BY <2>1 DEF TypeOK
  <2>4. PostedInv' /\ LoadedInv'
    BY <1>2, <2>1, <2>3 DEF PostedInv, LoadedInv, Receiving, Sending, posted, queues, history
  <2>5. ServedInv'
    BY <1>2, <2>1, <2>3 DEF ServedInv, RxServed, TxServed, queues, history
  <2> QED BY <2>2, <2>4, <2>5
<1>7. CASE EnableTxStore
  <2>1. int_ena' \in [Uart -> SUBSET {"rx", "tx"}]
    BY <1>7 DEF EnableTxStore, TypeOK
  <2>2. TypeOK'
    <3>1. UNCHANGED <<hardware, queues, posted>> /\ pc' = "idle"
      BY <1>7 DEF EnableTxStore
    <3>2. cpu' \in [uart : Uart, count : 0 .. 1, ena : SUBSET {"rx", "tx"}, want : BOOLEAN]
      BY <1>7 DEF EnableTxStore, Blank
    <3> QED BY <1>2, <2>1, <3>1, <3>2 DEF TypeOK, hardware, queues, posted, history, PC
  <2>3. PostedInv' /\ LoadedInv' /\ ServedInv'
    BY <1>2, <1>7 DEF EnableTxStore, TypeOK, PostedInv, LoadedInv, ServedInv,
         Receiving, Sending, RxServed, TxServed, queues, posted, history, Blank
  <2> QED BY <2>2, <2>3
<1> QED BY <1>3, <1>4, <1>5, <1>6, <1>7

(* The calls that put bytes into a send queue or touch its interrupt.      *)
LEMMA CallsPreserve ==
  ASSUME IInv, NEW u \in Uart,
         \/ uart_send(u) \/ \E n \in Nat : uart_send_string(u, n)
         \/ \E e \in BOOLEAN : uart_autofill(u, e)
  PROVE  IInv'
<1> USE UartAssumption DEF IInv
<1>1. /\ UNCHANGED <<hardware, receive_queue, int_ena, posted, tasks, bridge>>
      /\ pc = "idle" /\ send_queue[u] \in 0 .. SendSize
  BY DEF uart_send, uart_send_string, uart_autofill, queues, TypeOK
<1>2. CASE uart_send(u)
  <2>1. send_queue' \in [Uart -> 0 .. SendSize]
    BY <1>1, <1>2 DEF uart_send, TypeOK, Least
  <2>2. TypeOK'
    BY <1>1, <1>2, <2>1 DEF uart_send, TypeOK, hardware, posted
  <2>3. PostedInv' /\ LoadedInv' /\ ServedInv'
    BY <1>1, <1>2 DEF uart_send, TypeOK, PostedInv, LoadedInv, ServedInv,
         Receiving, Sending, RxServed, TxServed, posted
  <2> QED BY <2>2, <2>3
<1>3. ASSUME NEW n \in Nat, uart_send_string(u, n) PROVE IInv'
  <2>1. send_queue' = [send_queue EXCEPT ![u] = Least(@ + n, SendSize)]
    BY <1>3 DEF uart_send_string
  <2>2. send_queue' \in [Uart -> 0 .. SendSize]
    BY <1>1, <2>1, SMTT(30) DEF TypeOK, Least
  <2>3. (send_queue'[u] > 0) \in BOOLEAN
    OBVIOUS
  <2>4. cpu' = [cpu EXCEPT !.uart = u, !.want = send_queue'[u] > 0]
    BY <1>3 DEF uart_send_string
  <2>5. /\ cpu' \in [uart : Uart, count : 0 .. 1, ena : SUBSET {"rx", "tx"}, want : BOOLEAN]
        /\ cpu'.uart = u /\ (cpu'.want <=> send_queue'[u] > 0)
    BY <2>3, <2>4 DEF TypeOK
  <2>6. /\ pc' = "tx_enable" /\ touched' = [touched EXCEPT ![u] = "flush"]
        /\ refused' = refused \ {fill(u)} /\ UNCHANGED autofill
    BY <1>3 DEF uart_send_string
  <2>7. TypeOK'
    BY <1>1, <2>2, <2>5, <2>6 DEF TypeOK, hardware, posted, PC
  <2>8. PostedInv'
    BY <1>1, <2>6 DEF PostedInv, Receiving, Sending, posted
  <2>9. LoadedInv'
    BY <1>1, <2>2, <2>5, <2>6 DEF LoadedInv
  <2>10. ServedInv'
    <3>1. RxServed'
      BY <1>1, <2>6, Distinct DEF ServedInv, RxServed
    <3>2. ASSUME NEW v \in Uart, send_queue'[v] > 0, touched'[v] = "flush"
          PROVE  TxServed(v)'
      <4>1. CASE v = u
        BY <2>5, <2>6, <3>2, <4>1 DEF TxServed
      <4>2. CASE v # u
        <5>1. send_queue[v] > 0 /\ touched[v] = "flush" /\ fill(v) # fill(u)
          BY <2>1, <2>6, <3>2, <4>2, Distinct DEF TypeOK
        <5> QED BY <1>1, <2>6, <5>1 DEF ServedInv, TxServed
      <4> QED BY <4>1, <4>2
    <3> QED BY <3>1, <3>2 DEF ServedInv
  <2> QED BY <2>7, <2>8, <2>9, <2>10
<1>4. ASSUME NEW e \in BOOLEAN, uart_autofill(u, e) PROVE IInv'
  <2>1. TypeOK'
    <3>1. /\ UNCHANGED <<hardware, queues, posted, int_ena, tasks, bridge, refused>>
          /\ pc' = "tx_enable"
      BY <1>1, <1>4 DEF uart_autofill
    <3>2. cpu' \in [uart : Uart, count : 0 .. 1, ena : SUBSET {"rx", "tx"}, want : BOOLEAN]
      BY <1>1, <1>4 DEF uart_autofill, TypeOK
    <3>3. /\ autofill' \in [Uart -> BOOLEAN]
          /\ touched' \in [Uart -> {"flush", "send", "autofill"}]
      BY <1>1, <1>4 DEF uart_autofill, TypeOK
    <3> QED BY <3>1, <3>2, <3>3 DEF TypeOK, hardware, queues, posted, PC
  <2>2. /\ pc' = "tx_enable" /\ cpu'.uart = u /\ cpu'.want = e
        /\ UNCHANGED <<send_queue, refused>>
    BY <1>4 DEF uart_autofill, TypeOK, queues
  <2>3. /\ touched'[u] = "flush" => e /\ touched[u] = "flush"
        /\ \A v \in Uart : v # u => touched'[v] = touched[v]
    <3>1. touched' = [touched EXCEPT ![u] =
                       IF @ = "flush" /\ ~e THEN "autofill" ELSE @]
      BY <1>4 DEF uart_autofill
    <3>2. touched'[u] = IF touched[u] = "flush" /\ ~e THEN "autofill" ELSE touched[u]
      BY <3>1 DEF TypeOK
    <3>3. \A v \in Uart : v # u => touched'[v] = touched[v]
      BY <3>1 DEF TypeOK
    <3>4. CASE e
      BY <3>2, <3>3, <3>4
    <3>5. CASE ~e
      BY <3>2, <3>3, <3>5
    <3> QED BY <3>4, <3>5
  <2>4. PostedInv' /\ LoadedInv'
    BY <1>1, <2>2, <2>3 DEF PostedInv, LoadedInv, Receiving, Sending, posted
  <2>5. ServedInv'
    <3>1. RxServed'
      BY <1>1, <2>2 DEF ServedInv, RxServed
    <3>2. ASSUME NEW v \in Uart, send_queue'[v] > 0, touched'[v] = "flush"
          PROVE  TxServed(v)'
      <4>1. CASE v = u
        BY <2>2, <2>3, <3>2, <4>1 DEF TxServed
      <4>2. CASE v # u
        BY <1>1, <2>2, <2>3, <3>2, <4>2 DEF ServedInv, TxServed
      <4> QED BY <4>1, <4>2
    <3> QED BY <3>1, <3>2 DEF ServedInv
  <2> QED BY <2>1, <2>4, <2>5
<1> QED BY <1>2, <1>3, <1>4

(* A task leaves the queue, or another task joins it.                      *)
LEMMA RunTaskPreserves == ASSUME IInv, RunTask PROVE IInv'
<1> USE UartAssumption DEF IInv
<1> DEFINE t == Head(tasks)
<1>1. /\ pc = "idle" /\ tasks # << >> /\ tasks' = Tail(tasks)
      /\ pc' = CASE t = fetch -> "fetch" [] t = other -> "idle" [] OTHER -> "fill"
      /\ cpu' = [cpu EXCEPT !.uart = t[2]]
      /\ UNCHANGED <<hardware, queues, int_ena, posted, autofill, bridge, history>>
  BY DEF RunTask
<1>2. tasks \in Seq(Task) /\ t \in Task
  BY <1>1 DEF TypeOK
<1>3. \A s : /\ Count(tasks, s) = Count(tasks', s) + (IF t = s THEN 1 ELSE 0)
             /\ Count(tasks', s) \in Nat
  <2>1. tasks' \in Seq(Task)
    BY <1>1, <1>2
  <2> QED BY <1>1, <1>2, <2>1, CountTail, Places
<1>4. /\ t[2] \in Uart
      /\ t = fetch => pc' = "fetch"
      /\ t = other => pc' = "idle"
      /\ \A u \in Uart : t = fill(u) => pc' = "fill" /\ t[2] = u
      /\ t \in {fetch, other} \/ \E u \in Uart : t = fill(u)
  <2> HIDE DEF t
  <2>1. t \in {fetch, other} \/ \E u \in Uart : t = fill(u)
    BY <1>2 DEF Task
  <2>2. CASE t = fetch
    BY <1>1, <2>2, Distinct
  <2>3. CASE t = other
    BY <1>1, <2>3, Distinct
  <2>4. ASSUME NEW u \in Uart, t = fill(u) PROVE <1>4!:
    BY <1>1, <2>4, Distinct
  <2> QED BY <2>1, <2>2, <2>3, <2>4
<1>5. cpu'.uart = t[2] /\ cpu' \in [uart : Uart, count : 0 .. 1,
                                    ena : SUBSET {"rx", "tx"}, want : BOOLEAN]
  <2> HIDE DEF t
  <2> QED BY <1>1, <1>4 DEF TypeOK
<1>6. TypeOK'
  <2>1. tasks' \in Seq(Task) /\ Len(tasks') <= TaskQueueLength
    BY <1>1, <1>2 DEF TypeOK
  <2>2. pc' \in PC
    BY <1>4 DEF PC
  <2> HIDE DEF t
  <2> QED BY <1>1, <1>5, <2>1, <2>2 DEF TypeOK, hardware, queues, posted, history
<1> HIDE DEF t
<1>7. pc' \in {"idle", "fetch", "fill"}
  BY <1>4
<1>8. PostedInv'
  <2>1. rx_posted' = Count(tasks', fetch) + One(Receiving')
    BY <1>1, <1>3, <1>4, Distinct DEF PostedInv, Receiving, One, posted
  <2>2. ASSUME NEW u \in Uart
        PROVE  tx_posted'[u] = Count(tasks', fill(u)) + One(Sending(u)')
    <3>1. tx_posted'[u] = Count(tasks, fill(u))
      BY <1>1, <1>3 DEF PostedInv, Sending, One, posted
    <3>2. CASE t = fill(u)
      BY <1>3, <1>4, <1>5, <3>1, <3>2 DEF Sending, One
    <3>3. CASE t # fill(u)
      <4>1. ~Sending(u)'
        BY <1>4, <1>5, <3>3 DEF Sending
      <4> QED BY <1>3, <3>1, <3>3, <4>1 DEF One
    <3> QED BY <3>2, <3>3
  <2> QED BY <2>1, <2>2 DEF PostedInv
<1>9. LoadedInv'
  BY <1>7 DEF LoadedInv
<1>10. ServedInv'
  <2>1. RxServed'
    BY <1>1, <1>3, <1>4 DEF ServedInv, RxServed, history
  <2>2. ASSUME NEW u \in Uart, send_queue'[u] > 0, touched'[u] = "flush"
        PROVE  TxServed(u)'
    <3>1. TxServed(u)
      BY <1>1, <2>2 DEF ServedInv, queues, history
    <3> QED BY <1>1, <1>3, <1>4, <1>5, <3>1 DEF TxServed, history
  <2> QED BY <2>1, <2>2 DEF ServedInv
<1> QED BY <1>6, <1>8, <1>9, <1>10

LEMMA PostOtherPreserves == ASSUME IInv, PostOther PROVE IInv'
<1> USE UartAssumption DEF IInv
<1>1. /\ pc = "idle" /\ Len(tasks) < TaskQueueLength /\ tasks' = Append(tasks, other)
      /\ UNCHANGED <<hardware, queues, int_ena, posted, autofill, bridge, pc, cpu, history>>
  BY DEF PostOther
<1>2. tasks \in Seq(Task) /\ other \in Task
  BY DEF TypeOK, Task
<1>3. /\ tasks' \in Seq(Task) /\ Len(tasks') <= TaskQueueLength
      /\ tasks' = tasks \o <<other>>
  BY <1>1, <1>2
<1>4. \A t : t # other => Count(tasks', t) = Count(tasks, t)
  <2>1. /\ <<other>> \in Seq(Task) /\ \A i, j \in DOMAIN <<other>> :
                                        <<other>>[i] = <<other>>[j] => i = j
        /\ ToSet(<<other>>) = {other}
    BY <1>2 DEF ToSet
  <2>2. \A t : Count(tasks, t) \in Nat
    BY <1>2, Places
  <2> TAKE t
  <2>3. Count(tasks \o <<other>>, t)
          = Count(tasks, t) + (IF t \in ToSet(<<other>>) THEN 1 ELSE 0)
    BY <1>2, <2>1, CountConcat
  <2> QED BY <1>3, <2>1, <2>2, <2>3
<1>5. /\ Count(tasks', fetch) = Count(tasks, fetch)
      /\ \A u : Count(tasks', fill(u)) = Count(tasks, fill(u))
  BY <1>4, Distinct
<1>6. TypeOK'
  BY <1>1, <1>3 DEF TypeOK, hardware, queues, posted, history
<1>7. PostedInv' /\ LoadedInv' /\ ServedInv'
  BY <1>1, <1>5 DEF PostedInv, LoadedInv, ServedInv, RxServed, TxServed, Receiving,
       Sending, queues, posted, history
<1> QED BY <1>6, <1>7

(* The interrupt handler.                                                  *)
LEMMA CallbackPreserves == ASSUME IInv, uart_callback PROVE IInv'
<1> USE UartAssumption DEF IInv
<1> DEFINE p == RxInterrupt /\ rx_posted = 0
           q(u) == u \in Uart /\ TxInterrupt(u) /\ tx_posted[u] = 0
           room == TaskQueueLength - Len(tasks)
           d == SubSeq(Wanted, 1, Least(Len(Wanted), room))
<1>1. Wanted = (Maybe(p, fetch) \o Maybe(q(0), fill(0))) \o Maybe(q(1), fill(1))
  BY DEF Wanted, Maybe
<1>2. /\ Wanted \in Seq(Task) /\ Once(Wanted)
      /\ ToSet(Wanted) = (IF p THEN {fetch} ELSE {}) \cup (IF q(0) THEN {fill(0)} ELSE {})
                            \cup (IF q(1) THEN {fill(1)} ELSE {})
  <2>1. 0 \in Uart /\ (q(1) => 1 \in Uart)
    OBVIOUS
  <2>2. p \in BOOLEAN /\ q(0) \in BOOLEAN /\ q(1) \in BOOLEAN
    BY DEF RxInterrupt, TxInterrupt
  <2> HIDE DEF p, q
  <2> QED BY <1>1, <2>1, <2>2, ThreeOnce
<1>3. tasks \in Seq(Task) /\ Len(tasks) \in Nat /\ room \in Nat
  BY DEF TypeOK
<1>4. d \in Seq(Task) /\ Once(d) /\ Len(d) <= room /\ ToSet(d) \subseteq ToSet(Wanted)
  <2> HIDE DEF room
  <2> QED BY <1>2, <1>3, FirstOnce
<1>5. /\ int_ena' = [u \in Uart |->
             int_ena[u] \ ((IF u = 0 /\ RxInterrupt THEN {"rx"} ELSE {})
                             \cup (IF TxInterrupt(u) THEN {"tx"} ELSE {}))]
      /\ tasks' = tasks \o d
      /\ rx_posted' = rx_posted + (IF fetch \in ToSet(d) THEN 1 ELSE 0)
      /\ tx_posted' = [u \in Uart |->
                         tx_posted[u] + (IF fill(u) \in ToSet(d) THEN 1 ELSE 0)]
      /\ refused' = refused \cup (ToSet(Wanted) \ ToSet(d))
      /\ UNCHANGED <<hardware, queues, autofill, bridge, pc, cpu, touched>>
  BY DEF uart_callback
<1>6. /\ fetch \in ToSet(Wanted) <=> p
      /\ \A u \in Uart : fill(u) \in ToSet(Wanted) <=> q(u)
      /\ ToSet(Wanted) \subseteq Task
  <2>1. /\ fetch # fill(0) /\ fetch # fill(1) /\ fill(0) # fill(1)
        /\ \A u \in Uart : fill(u) # fetch /\ u \in {0, 1}
    BY Distinct
  <2>2. ToSet(Wanted) \subseteq Task
    BY <1>2 DEF ToSet
  <2> HIDE DEF p
  <2>3. fetch \in ToSet(Wanted) <=> p
    BY <1>2, <2>1
  <2>4. ASSUME NEW u \in Uart PROVE fill(u) \in ToSet(Wanted) <=> q(u)
    <3>1. CASE u = 0
      BY <1>2, <2>1, <3>1
    <3>2. CASE u = 1
      BY <1>2, <2>1, <3>2
    <3> QED BY <2>1, <3>1, <3>2
  <2> QED BY <2>2, <2>3, <2>4
<1> HIDE DEF d, room
<1>7. \A t : /\ Count(tasks', t) = Count(tasks, t) + (IF t \in ToSet(d) THEN 1 ELSE 0)
             /\ Count(tasks, t) \in Nat
  BY <1>3, <1>4, <1>5, CountConcat, Places DEF Once
<1>8. /\ fetch \in ToSet(d) => rx_posted = 0
      /\ \A u \in Uart : fill(u) \in ToSet(d) => tx_posted[u] = 0
  BY <1>4, <1>6
<1>9. /\ \A u \in Uart : int_ena'[u] \subseteq int_ena[u]
      /\ "rx" \in int_ena[0] => RxInterrupt \/ "rx" \in int_ena'[0]
      /\ \A u \in Uart : "tx" \in int_ena[u] => TxInterrupt(u) \/ "tx" \in int_ena'[u]
  <2> HIDE DEF p, q
  <2>1. ASSUME NEW u \in Uart
        PROVE  int_ena'[u] = int_ena[u] \ ((IF u = 0 /\ RxInterrupt THEN {"rx"} ELSE {})
                                 \cup (IF TxInterrupt(u) THEN {"tx"} ELSE {}))
    BY <1>5
  <2> QED BY <2>1
<1>10. TypeOK'
  <2>1. tasks' \in Seq(Task) /\ Len(tasks') <= TaskQueueLength
    BY <1>3, <1>4, <1>5 DEF room
  <2>2. rx_posted' \in 0 .. 1
    BY <1>5, <1>8 DEF TypeOK
  <2>3. tx_posted' \in [Uart -> 0 .. 1]
    BY <1>5, <1>8, SMTT(30) DEF TypeOK
  <2>4. int_ena' \in [Uart -> SUBSET {"rx", "tx"}]
    BY <1>5 DEF TypeOK
  <2>5. refused' \subseteq Task
    BY <1>5, <1>6 DEF TypeOK
  <2> QED BY <1>5, <2>1, <2>2, <2>3, <2>4, <2>5 DEF TypeOK, hardware, queues
<1>11. PostedInv'
  <2>1. rx_posted' = Count(tasks', fetch) + One(Receiving')
    BY <1>5, <1>7 DEF PostedInv, Receiving, One
  <2>2. ASSUME NEW u \in Uart
        PROVE  tx_posted'[u] = Count(tasks', fill(u)) + One(Sending(u)')
    <3>1. /\ tx_posted'[u] = tx_posted[u] + (IF fill(u) \in ToSet(d) THEN 1 ELSE 0)
          /\ Sending(u)' <=> Sending(u)
      BY <1>5 DEF Sending
    <3>2. One(Sending(u)') = One(Sending(u))
      BY <3>1 DEF One, Sending
    <3>3. tx_posted[u] = Count(tasks, fill(u)) + One(Sending(u)) /\ One(Sending(u)) \in Nat
      BY DEF PostedInv, One
    <3> QED BY <1>7, <3>1, <3>2, <3>3
  <2> QED BY <2>1, <2>2 DEF PostedInv
<1>12. LoadedInv'
  <2>1. pc' = "fetch_loaded" => cpu'.count = rx_posted'
    BY <1>5, <1>7, <1>8 DEF LoadedInv, PostedInv, Receiving, One
  <2>2. pc' = "fill_loaded" => cpu'.count = tx_posted'[cpu'.uart]
    <3> SUFFICES ASSUME pc = "fill_loaded" PROVE cpu.count = tx_posted'[cpu.uart]
      BY <1>5
    <3>1. cpu.uart \in Uart /\ Sending(cpu.uart) /\ cpu.count = tx_posted[cpu.uart]
      BY DEF TypeOK, Sending, LoadedInv
    <3>2. tx_posted[cpu.uart] # 0
      <4>1. One(Sending(cpu.uart)) = 1
        BY <3>1 DEF One
      <4>2. tx_posted[cpu.uart] = Count(tasks, fill(cpu.uart)) + One(Sending(cpu.uart))
        BY <3>1 DEF PostedInv
      <4> QED BY <1>7, <4>1, <4>2
    <3>3. fill(cpu.uart) \notin ToSet(d)
      BY <1>8, <3>1, <3>2
    <3>4. tx_posted[cpu.uart] \in Nat
      BY <3>1 DEF TypeOK
    <3> QED BY <1>5, <3>1, <3>3, <3>4
  <2>3. /\ pc' = "rx_loaded" => int_ena'[0] \subseteq cpu'.ena
        /\ pc' = "tx_loaded" => int_ena'[cpu'.uart] \subseteq cpu'.ena
    BY <1>5, <1>9 DEF LoadedInv, TypeOK
  <2>4. pc' \in {"tx_enable", "tx_loaded"} /\ ~cpu'.want /\ touched'[cpu'.uart] = "flush"
          => send_queue'[cpu'.uart] = 0
    BY <1>5 DEF LoadedInv, queues
  <2> QED BY <2>1, <2>2, <2>3, <2>4 DEF LoadedInv
<1>13. ServedInv'
  <2>1. RxServed'
    <3>1. CASE "rx" \in int_ena[0] /\ RxInterrupt
      <4>1. CASE rx_posted = 0
        <5>1. fetch \in ToSet(d) \/ fetch \in refused'
          BY <1>5, <1>6, <3>1, <4>1
        <5>2. fetch \in ToSet(d) => Count(tasks', fetch) > 0
          BY <1>7
        <5> QED BY <5>1, <5>2 DEF RxServed
      <4>2. CASE rx_posted # 0
        <5>1. Count(tasks', fetch) > 0 \/ Receiving
          BY <1>7, <4>2 DEF PostedInv, One
        <5> QED BY <1>5, <5>1 DEF Receiving, RxServed
      <4> QED BY <4>1, <4>2
    <3>2. CASE "rx" \in int_ena[0] /\ ~RxInterrupt
      BY <1>9, <3>2 DEF RxServed
    <3>3. CASE "rx" \notin int_ena[0]
      <4>1. Count(tasks, fetch) > 0 => Count(tasks', fetch) > 0
        BY <1>7
      <4> QED BY <1>5, <3>3, <4>1 DEF ServedInv, RxServed
    <3> QED BY <3>1, <3>2, <3>3
  <2>2. ASSUME NEW u \in Uart, send_queue'[u] > 0, touched'[u] = "flush"
        PROVE  TxServed(u)'
    <3>1. TxServed(u)
      BY <1>5, <2>2 DEF ServedInv, queues
    <3>2. CASE "tx" \in int_ena[u] /\ TxInterrupt(u)
      <4>1. CASE tx_posted[u] = 0
        <5>1. fill(u) \in ToSet(d) \/ fill(u) \in refused'
          BY <1>5, <1>6, <3>2, <4>1
        <5>2. fill(u) \in ToSet(d) => Count(tasks', fill(u)) > 0
          BY <1>7
        <5> QED BY <5>1, <5>2 DEF TxServed
      <4>2. CASE tx_posted[u] # 0
        <5>1. Count(tasks', fill(u)) > 0 \/ Sending(u)
          BY <1>7, <4>2 DEF PostedInv, One
        <5> QED BY <1>5, <5>1 DEF Sending, TxServed
      <4> QED BY <4>1, <4>2
    <3>3. CASE "tx" \in int_ena[u] /\ ~TxInterrupt(u)
      BY <1>9, <3>3 DEF TxServed
    <3>4. CASE "tx" \notin int_ena[u]
      <4>1. Count(tasks, fill(u)) > 0 => Count(tasks', fill(u)) > 0
        BY <1>7
      <4> QED BY <1>5, <3>1, <3>4, <4>1 DEF TxServed
    <3> QED BY <3>2, <3>3, <3>4
  <2> QED BY <2>1, <2>2 DEF ServedInv
<1> QED BY <1>10, <1>11, <1>12, <1>13
-----------------------------------------------------------------------------
(* The invariant holds at the start and is kept by every step.             *)
LEMMA InitIInv == Init => IInv
<1> SUFFICES ASSUME Init PROVE IInv
  OBVIOUS
<1> USE UartAssumption
<1>1. \A t : Count(tasks, t) = 0
  BY CountEmpty DEF Init
<1>2. TypeOK
  BY DEF Init, TypeOK, Blank, PC
<1>3. PostedInv /\ LoadedInv /\ ServedInv
  BY <1>1 DEF Init, PostedInv, LoadedInv, ServedInv, RxServed, Receiving, Sending, One
<1> QED BY <1>2, <1>3 DEF IInv

LEMMA StepPreserves == IInv /\ [Next]_vars => IInv'
<1> SUFFICES ASSUME IInv, [Next]_vars PROVE IInv'
  OBVIOUS
<1>1. CASE UNCHANGED vars
  BY <1>1 DEF IInv, TypeOK, PostedInv, LoadedInv, ServedInv, RxServed, TxServed,
       Receiving, Sending, vars, hardware, queues, posted, history
<1>2. CASE Quiet
  BY <1>2, QuietPreserves
<1>3. CASE uart_callback
  BY <1>3, CallbackPreserves
<1>4. CASE RunTask \/ PostOther
  BY <1>4, RunTaskPreserves, PostOtherPreserves
<1>5. CASE Running
  BY <1>5, FetchPreserves, FillPreserves DEF Running
<1>6. CASE Calls
  <2>1. ASSUME NEW u \in Uart, uart_flush(u) PROVE IInv'
    <3>1. uart_send_string(u, 0) /\ 0 \in Nat
      BY <2>1 DEF uart_flush
    <3> QED BY <3>1, CallsPreserve
  <2>2. ASSUME NEW u \in Uart, NEW n \in 1 .. SendSize, uart_send_string(u, n) PROVE IInv'
    <3>1. n \in Nat
      BY UartAssumption
    <3> QED BY <2>2, <3>1, CallsPreserve
  <2>3. ASSUME NEW u \in Uart, uart_send(u) \/ \E e \in BOOLEAN : uart_autofill(u, e)
        PROVE  IInv'
    BY <2>3, CallsPreserve
  <2>4. CASE Quiet
    BY <2>4, QuietPreserves
  <2> QED BY <1>6, <2>1, <2>2, <2>3, <2>4 DEF Calls, Quiet
<1> QED BY <1>1, <1>2, <1>3, <1>4, <1>5, <1>6 DEF Next, Quiet

(* The type invariant of the driver (uart.c 30-80).                        *)
THEOREM TypeCorrect == Spec => []TypeOK
<1>1. IInv => TypeOK
  BY DEF IInv
<1> QED BY <1>1, InitIInv, StepPreserves, PTL DEF Spec

(* For every number of UARTs and every size: the posted counts that the    *)
(* interrupt handler decides by are exactly the fetch and fill tasks still *)
(* to start (uart.c 58-115, 223-340), whatever the handler interrupts.     *)
THEOREM PostedExactCorrect == Spec => []PostedExact
<1>1. IInv => PostedExact
  <2> SUFFICES ASSUME IInv PROVE PostedExact
    OBVIOUS
  <2>1. \A t : Pending(t) = Count(tasks, t)
    BY DEF Pending, Count
  <2>2. Starting(fetch) = One(Receiving)
    BY Distinct DEF Starting, Receiving, One
  <2>3. ASSUME NEW u \in Uart PROVE Starting(fill(u)) = One(Sending(u))
    <3>1. fill(u) # fetch /\ (fill(u) = fill(cpu.uart) <=> u = cpu.uart)
      BY Distinct
    <3> QED BY <3>1 DEF Starting, Sending, One
  <2> QED BY <2>1, <2>2, <2>3 DEF IInv, PostedInv, PostedExact
<1> QED BY <1>1, InitIInv, StepPreserves, PTL DEF Spec

(* And no interrupt that is needed is off with nobody left to switch it    *)
(* on, unless its task was refused by a full queue (uart.c 90-115).        *)
THEOREM ServedCorrect == Spec => []Served
<1>1. IInv => Served
  <2> SUFFICES ASSUME IInv PROVE Served
    OBVIOUS
  <2>1. \A t : Pending(t) = Count(tasks, t)
    BY DEF Pending, Count
  <2> QED BY <2>1 DEF IInv, ServedInv, RxServed, TxServed, Served, ReceiverServed,
               SenderServed, Fetching, Filling
<1> QED BY <1>1, InitIInv, StepPreserves, PTL DEF Spec
=============================================================================
