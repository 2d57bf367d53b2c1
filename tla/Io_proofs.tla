------------------------------ MODULE Io_proofs ------------------------------
(***************************************************************************)
(* Proofs about the I/O core, for any bridges, commands and inputs.        *)
(***************************************************************************)
EXTENDS Io, FiniteSetTheorems, SequenceTheorems, WellFoundedInduction, TLAPS

-----------------------------------------------------------------------------
(* What a set of numbers holds that holds 0 and with a number the next.    *)
LEMMA CountingUp ==
  ASSUME NEW G, 0 \in G, \A n \in Nat : n \in G => n + 1 \in G
  PROVE  Nat \subseteq G
<1> DEFINE T == Nat \ G
<1> SUFFICES ASSUME T # {} PROVE FALSE
  OBVIOUS
<1>1. PICK n \in T : \A m \in T : <<m, n>> \notin OpToRel(<, Nat)
  BY WFMin, NatLessThanWellFounded, Zenon
<1>2. n \in Nat \ {0}
  OBVIOUS
<1>3. n - 1 \in Nat /\ n - 1 < n
  BY <1>2
<1>4. <<n - 1, n>> \in OpToRel(<, Nat)
  BY <1>2, <1>3 DEF OpToRel
<1>5. n - 1 \in G
  BY <1>1, <1>3, <1>4
<1>6. n \in G
  BY <1>3, <1>5, <1>2
<1> QED BY <1>6

LEMMA OnlyOne == ASSUME NEW e PROVE Only({e}) = e
  BY DEF Only

LEMMA TriggerNextIs == ASSUME NEW r PROVE TriggerNext(r) = TriggerStep(r)
<1>1. {TriggerStep(s) : s \in {r}} = {TriggerStep(r)}
  OBVIOUS
<1> QED BY <1>1, OnlyOne DEF TriggerNext

LEMMA ChangedNextIs ==
  ASSUME NEW w, NEW n, NEW status, NEW level, NEW alert
  PROVE  ChangedNext(w, n, status, level, alert)
           = ChangedIf(w, <<Gpio, n>>, status, level, alert)
<1> DEFINE F(x) == ChangedIf(x, <<Gpio, n>>, status, level, alert)
<1>1. {F(x) : x \in {w}} = {F(w)}
  <2> HIDE DEF F
  <2> QED OBVIOUS
<1> QED BY <1>1, OnlyOne DEF ChangedNext

(* There is such a function as the runs of io_trigger_pin, of any length.  *)
Run(f, a, k) ==
  f = [n \in 0 .. k |-> IF n = 0 THEN a ELSE TriggerNext(f[n - 1])]

LEMMA RunGrows ==
  ASSUME NEW a, NEW k \in Nat, NEW f, Run(f, a, k)
  PROVE  \E g : Run(g, a, k + 1)
<1> DEFINE last == TriggerNext(f[k])
           g == [n \in 0 .. k + 1 |-> IF n = k + 1 THEN last ELSE f[n]]
           h == [n \in 0 .. k + 1 |-> IF n = 0 THEN a ELSE TriggerNext(g[n - 1])]
<1>1. \A n \in 0 .. k : f[n] = IF n = 0 THEN a ELSE TriggerNext(f[n - 1])
  BY DEF Run
<1>2. ASSUME NEW n \in 0 .. k + 1 PROVE g[n] = h[n]
  <2>1. CASE n = k + 1
    <3>1. n - 1 = k /\ k \in 0 .. k + 1 /\ k # k + 1 /\ n # 0
      BY <2>1
    <3>2. g[n - 1] = f[k]
      BY <3>1
    <3> QED BY <2>1, <3>1, <3>2
  <2>2. CASE n # k + 1
    <3>1. n \in 0 .. k /\ g[n] = f[n]
      BY <2>2
    <3>2. CASE n = 0
      BY <1>1, <3>1, <3>2
    <3>3. CASE n # 0
      <4>1. n - 1 \in 0 .. k + 1 /\ n - 1 # k + 1
        BY <3>1, <3>3
      <4>2. g[n - 1] = f[n - 1]
        BY <4>1
      <4> QED BY <1>1, <3>1, <3>3, <4>2
    <3> QED BY <3>2, <3>3
  <2> QED BY <2>1, <2>2
<1>3. g = h
  BY <1>2
<1>4. Run(g, a, k + 1)
  BY <1>3 DEF Run
<1> HIDE DEF g
<1> QED BY <1>4

LEMMA RunExists == ASSUME NEW a, NEW k \in Nat PROVE \E f : Run(f, a, k)
<1> DEFINE G == {n \in Nat : \E f : Run(f, a, n)}
<1>1. 0 \in G
  <2>1. Run([n \in 0 .. 0 |-> a], a, 0)
    BY DEF Run
  <2> QED BY <2>1
<1>2. \A n \in Nat : n \in G => n + 1 \in G
  BY RunGrows
<1> HIDE DEF G
<1>3. k \in G
  BY <1>1, <1>2, CountingUp
<1> QED BY <1>3 DEF G

(* What io_trigger_pin does is done step by step, from what it is asked.   *)
LEMMA TriggerRun ==
  ASSUME NEW m, NEW p, NEW action
  PROVE  \E f : /\ f[0] = Asked(m, p, action)
                /\ \A n \in Nat : n < MaxTriggers => f[n + 1] = TriggerStep(f[n])
                /\ io_trigger_pin(m, p, action) = f[MaxTriggers].machine
<1> DEFINE a == Asked(m, p, action)
           f == CHOOSE g : Run(g, a, MaxTriggers)
<1>1. MaxTriggers \in Nat /\ MaxTriggers > 0
  BY IoPinsAssumption
<1>2. Run(f, a, MaxTriggers)
  <2> HIDE DEF a
  <2> QED BY RunExists, <1>1, Zenon
<1>3. io_trigger_pin(m, p, action) = f[MaxTriggers].machine
  BY Zenon DEF io_trigger_pin, Run
<1> HIDE DEF f, a
<1>4. \A n \in 0 .. MaxTriggers : f[n] = IF n = 0 THEN a ELSE TriggerNext(f[n - 1])
  BY <1>2 DEF Run
<1>5. f[0] = a
  BY <1>1, <1>4
<1>6. ASSUME NEW n \in Nat, n < MaxTriggers PROVE f[n + 1] = TriggerStep(f[n])
  <2>1. n + 1 \in 0 .. MaxTriggers /\ n + 1 # 0 /\ (n + 1) - 1 = n
    BY <1>1, <1>6
  <2>2. f[n + 1] = TriggerNext(f[n])
    BY <1>4, <2>1
  <2> QED BY <2>2, TriggerNextIs
<1> QED BY <1>3, <1>5, <1>6 DEF a

(* ... and as the ones of io_gpio_pins_changed.                            *)
Seen(f, a, status, level, alert, k) ==
  f = [n \in 0 .. k |-> IF n = 0 THEN a ELSE ChangedNext(f[n - 1], n - 1, status, level, alert)]

LEMMA SeenGrows ==
  ASSUME NEW a, NEW status, NEW level, NEW alert, NEW k \in Nat, NEW f, Seen(f, a, status, level, alert, k)
  PROVE  \E g : Seen(g, a, status, level, alert, k + 1)
<1> DEFINE last == ChangedNext(f[k], k, status, level, alert)
           g == [n \in 0 .. k + 1 |-> IF n = k + 1 THEN last ELSE f[n]]
           h == [n \in 0 .. k + 1 |-> IF n = 0 THEN a ELSE ChangedNext(g[n - 1], n - 1, status, level, alert)]
<1>1. \A n \in 0 .. k : f[n] = IF n = 0 THEN a ELSE ChangedNext(f[n - 1], n - 1, status, level, alert)
  BY DEF Seen
<1>2. ASSUME NEW n \in 0 .. k + 1 PROVE g[n] = h[n]
  <2>1. CASE n = k + 1
    <3>1. n - 1 = k /\ k \in 0 .. k + 1 /\ k # k + 1 /\ n # 0
      BY <2>1
    <3>2. g[n - 1] = f[k]
      BY <3>1
    <3> QED BY <2>1, <3>1, <3>2
  <2>2. CASE n # k + 1
    <3>1. n \in 0 .. k /\ g[n] = f[n]
      BY <2>2
    <3>2. CASE n = 0
      BY <1>1, <3>1, <3>2
    <3>3. CASE n # 0
      <4>1. n - 1 \in 0 .. k + 1 /\ n - 1 # k + 1
        BY <3>1, <3>3
      <4>2. g[n - 1] = f[n - 1]
        BY <4>1
      <4> QED BY <1>1, <3>1, <3>3, <4>2
    <3> QED BY <3>2, <3>3
  <2> QED BY <2>1, <2>2
<1>3. g = h
  BY <1>2
<1>4. Seen(g, a, status, level, alert, k + 1)
  BY <1>3 DEF Seen
<1> HIDE DEF g
<1> QED BY <1>4

LEMMA SeenExists == ASSUME NEW a, NEW status, NEW level, NEW alert, NEW k \in Nat PROVE \E f : Seen(f, a, status, level, alert, k)
<1> DEFINE G == {n \in Nat : \E f : Seen(f, a, status, level, alert, n)}
<1>1. 0 \in G
  <2>1. Seen([n \in 0 .. 0 |-> a], a, status, level, alert, 0)
    BY DEF Seen
  <2> QED BY <2>1
<1>2. \A n \in Nat : n \in G => n + 1 \in G
  BY SeenGrows
<1> HIDE DEF G
<1>3. k \in G
  BY <1>1, <1>2, CountingUp
<1> QED BY <1>3 DEF G

(* What io_gpio_pins_changed does is done pin by pin.                      *)
ChangedBy(f, m, status, level, alert) ==
  /\ f[0] = m
  /\ \A n \in 0 .. 15 : f[n + 1] = ChangedIf(f[n], <<Gpio, n>>, status, level, alert)
  /\ PinsChanged(m, status, level, alert) = f[16]

LEMMA ChangedRun ==
  ASSUME NEW m, NEW status, NEW level, NEW alert
  PROVE  \E f : ChangedBy(f, m, status, level, alert)
<1> DEFINE f == CHOOSE g : Seen(g, m, status, level, alert, io_info_entry_gpio.pins)
<1>1. io_info_entry_gpio.pins = 16
  BY DEF io_info_entry_gpio
<1>2. Seen(f, m, status, level, alert, 16)
  BY SeenExists, <1>1, Zenon
<1>3. PinsChanged(m, status, level, alert) = f[io_info_entry_gpio.pins]
  BY Zenon DEF PinsChanged, Seen
<1> HIDE DEF f
<1>4. \A n \in 0 .. 16 : f[n] = IF n = 0 THEN m
                                ELSE ChangedNext(f[n - 1], n - 1, status, level, alert)
  BY <1>2 DEF Seen
<1>5. f[0] = m
  BY <1>4
<1>6. ASSUME NEW n \in 0 .. 15
      PROVE  f[n + 1] = ChangedIf(f[n], <<Gpio, n>>, status, level, alert)
  <2>1. n + 1 \in 0 .. 16 /\ n + 1 # 0 /\ (n + 1) - 1 = n
    OBVIOUS
  <2>2. f[n + 1] = ChangedNext(f[n], n, status, level, alert)
    BY <1>4, <2>1
  <2> QED BY <2>2, ChangedNextIs
<1> QED BY <1>1, <1>3, <1>5, <1>6 DEF ChangedBy
-----------------------------------------------------------------------------
(* The parts of a machine, of the pins P ...                               *)
IsConfig(c) ==
  {"mode", "llmode", "flags", "suspended", "direction", "speed", "shared"} \subseteq DOMAIN c
IsData(d) == {"value", "saved", "speed", "direction", "previous"} \subseteq DOMAIN d

Shape(m, P) ==
  /\ {"config", "data", "out"} \subseteq DOMAIN m
  /\ DOMAIN m.config = P /\ DOMAIN m.data = P /\ DOMAIN m.out = P
  /\ \A p \in P : IsConfig(m.config[p]) /\ IsData(m.data[p])

(* ... and what stays when pins do what they do: how they are configured,  *)
(* what they count (but for the pins V), and suspended ones altogether.    *)
Kept(m, w, P, V) ==
  /\ Shape(w, P) /\ w.config = m.config
  /\ \A q \in P :
       /\ q \notin V => w.data[q].value = m.data[q].value
       /\ m.config[q].suspended => /\ w.out[q] = m.out[q]
                                   /\ w.data[q].direction = m.data[q].direction

LEMMA KeptSelf ==
  ASSUME NEW m, NEW P, NEW V, Shape(m, P) PROVE Kept(m, m, P, V)
BY DEF Kept

LEMMA KeptTransitive ==
  ASSUME NEW m, NEW w, NEW x, NEW P, NEW V, Kept(m, w, P, V), Kept(w, x, P, V)
  PROVE  Kept(m, x, P, V)
BY DEF Kept

LEMMA KeptMore ==
  ASSUME NEW m, NEW w, NEW P, NEW V, NEW W, V \subseteq W, Kept(m, w, P, V)
  PROVE  Kept(m, w, P, W)
BY DEF Kept

LEMMA PutOut ==
  ASSUME NEW m, NEW P, NEW p \in P, NEW v, Shape(m, P), ~m.config[p].suspended
  PROVE  LET w == [m EXCEPT !.out[p] = v]
         IN  Kept(m, w, P, {}) /\ w.out[p] = v /\ w.data = m.data /\ w.config = m.config
<1> DEFINE w == [m EXCEPT !.out[p] = v]
<1>1. /\ DOMAIN w = DOMAIN m /\ w.config = m.config /\ w.data = m.data
      /\ w.out = [m.out EXCEPT ![p] = v]
  BY DEF Shape
<1>2. /\ DOMAIN w.out = P /\ w.out[p] = v
      /\ \A q \in P : q # p => w.out[q] = m.out[q]
  BY <1>1 DEF Shape
<1>3. Shape(w, P)
  BY <1>1, <1>2 DEF Shape
<1> HIDE DEF w
<1>4. Kept(m, w, P, {})
  BY <1>1, <1>2, <1>3 DEF Kept
<1> QED BY <1>1, <1>2, <1>4 DEF w

LEMMA PutData ==
  ASSUME NEW m, NEW P, NEW p \in P, NEW d, Shape(m, P), ~m.config[p].suspended,
         IsData(d), d.value = m.data[p].value
  PROVE  LET w == [m EXCEPT !.data[p] = d]
         IN  Kept(m, w, P, {}) /\ w.data[p] = d /\ w.out = m.out /\ w.config = m.config
<1> DEFINE w == [m EXCEPT !.data[p] = d]
<1>1. /\ DOMAIN w = DOMAIN m /\ w.config = m.config /\ w.out = m.out
      /\ w.data = [m.data EXCEPT ![p] = d]
  BY DEF Shape
<1>2. /\ DOMAIN w.data = P /\ w.data[p] = d
      /\ \A q \in P : q # p => w.data[q] = m.data[q]
  BY <1>1 DEF Shape
<1>3. Shape(w, P)
  BY <1>1, <1>2 DEF Shape
<1> HIDE DEF w
<1>4. Kept(m, w, P, {})
  BY <1>1, <1>2, <1>3 DEF Kept
<1> QED BY <1>1, <1>2, <1>4 DEF w

LEMMA PutCount ==
  ASSUME NEW m, NEW P, NEW p \in P, NEW v, Shape(m, P)
  PROVE  LET w == [m EXCEPT !.data[p].value = v]
         IN  Kept(m, w, P, {p}) /\ w.data[p].value = v /\ w.out = m.out
<1> DEFINE w == [m EXCEPT !.data[p].value = v]
           d == [m.data[p] EXCEPT !.value = v]
<1>1. /\ DOMAIN w = DOMAIN m /\ w.config = m.config /\ w.out = m.out
      /\ w.data = [m.data EXCEPT ![p] = d]
  BY DEF Shape
<1>2. IsData(d) /\ d.value = v /\ d.direction = m.data[p].direction
  BY DEF Shape, IsData
<1> HIDE DEF d
<1>3. /\ DOMAIN w.data = P /\ w.data[p] = d
      /\ \A q \in P : q # p => w.data[q] = m.data[q]
  BY <1>1 DEF Shape
<1>4. Shape(w, P)
  BY <1>1, <1>2, <1>3 DEF Shape
<1> HIDE DEF w
<1>5. Kept(m, w, P, {p})
  BY <1>1, <1>2, <1>3, <1>4 DEF Kept
<1> QED BY <1>1, <1>2, <1>3, <1>5 DEF w

(* The device's write_pin, of a pin that is not suspended.                 *)
LEMMA DeviceKeeps ==
  ASSUME NEW m, NEW P, NEW p \in P, NEW v, Shape(m, P), ~m.config[p].suspended
  PROVE  /\ Kept(m, DeviceWrite(m, p, v).machine, P, {})
         /\ DeviceWrite(m, p, v).machine.data = m.data
         /\ DeviceWrite(m, p, v).ok <=> m.config[p].llmode \in Outputs
         /\ m.config[p].llmode \in Outputs =>
              DeviceWrite(m, p, v).machine.out[p] = Clipped(m.config[p].llmode, v)
<1>1. CASE m.config[p].llmode \in Outputs
  <2> DEFINE c == Clipped(m.config[p].llmode, v)
             w == [m EXCEPT !.out[p] = c]
  <2>1. DeviceWrite(m, p, v) = [ok |-> TRUE, machine |-> w]
    BY <1>1 DEF DeviceWrite, Good
  <2>2. Kept(m, w, P, {}) /\ w.out[p] = c /\ w.data = m.data
    <3> HIDE DEF c
    <3> QED BY PutOut
  <2> HIDE DEF w
  <2> QED BY <1>1, <2>1, <2>2
<1>2. CASE m.config[p].llmode \notin Outputs
  <2>1. DeviceWrite(m, p, v) = [ok |-> FALSE, machine |-> m]
    BY <1>2 DEF DeviceWrite, Bad
  <2> QED BY <1>2, <2>1, KeptSelf
<1> QED BY <1>1, <1>2

LEMMA WriteKeeps ==
  ASSUME NEW m, NEW P, NEW p \in P, NEW v, Shape(m, P)
  PROVE  /\ Kept(m, WritePin(m, p, v).machine, P, {p})
         /\ m.config[p].suspended \/ m.config[p].mode \notin CountedModes
              => Kept(m, WritePin(m, p, v).machine, P, {})
<1>1. CASE m.config[p].suspended
  <2>1. WritePin(m, p, v).machine = m
    BY <1>1 DEF WritePin, Bad
  <2> QED BY <2>1, KeptSelf
<1>2. CASE ~m.config[p].suspended /\ m.config[p].mode \in CountedModes
  <2>1. WritePin(m, p, v).machine = [m EXCEPT !.data[p].value = v]
    BY <1>2 DEF WritePin, Good
  <2>2. Kept(m, [m EXCEPT !.data[p].value = v], P, {p})
    BY PutCount
  <2> QED BY Zenon, <1>2, <2>1, <2>2
<1>3. CASE ~m.config[p].suspended /\ m.config[p].mode \notin CountedModes
  <2>1. WritePin(m, p, v) = DeviceWrite(m, p, v)
    BY <1>3 DEF WritePin
  <2>2. Kept(m, WritePin(m, p, v).machine, P, {})
    BY <1>3, <2>1, DeviceKeeps
  <2> QED BY <2>2, KeptMore
<1> QED BY <1>1, <1>2, <1>3
-----------------------------------------------------------------------------
(* io_trigger_pin_x, mode by mode; what switching off leaves.              *)
LEMMA TimerKeeps ==
  ASSUME NEW m, NEW P, NEW p \in P, NEW action, Shape(m, P), ~m.config[p].suspended
  PROVE  /\ Kept(m, TriggerTimer(m, p, action).machine, P, {})
         /\ action = "off" /\ m.config[p].llmode \in Outputs =>
              TriggerTimer(m, p, action).machine.data[p].direction = "none"
<1> DEFINE Then(w, speed, direction) ==
             IF w.ok THEN Good([w.machine EXCEPT !.data[p].speed = speed,
                                                 !.data[p].direction = direction])
             ELSE w
<1>1. ASSUME NEW v, NEW speed, NEW direction
      PROVE  LET w == Then(DeviceWrite(m, p, v), speed, direction)
             IN  /\ Kept(m, w.machine, P, {})
                 /\ m.config[p].llmode \in Outputs => w.machine.data[p].direction = direction
  <2> DEFINE x == DeviceWrite(m, p, v)
             w == Then(x, speed, direction)
             d == [x.machine.data[p] EXCEPT !.speed = speed, !.direction = direction]
             y == [x.machine EXCEPT !.data[p] = d]
  <2>1. /\ Kept(m, x.machine, P, {}) /\ x.machine.data = m.data
        /\ x.ok <=> m.config[p].llmode \in Outputs
    BY DeviceKeeps
  <2> HIDE DEF x
  <2>2. Shape(x.machine, P) /\ ~x.machine.config[p].suspended
    BY <2>1 DEF Kept
  <2>3. IsData(d) /\ d.value = x.machine.data[p].value /\ d.direction = direction
    BY <2>2 DEF Shape, IsData
  <2>4. Kept(x.machine, y, P, {}) /\ y.data[p] = d
    <3> HIDE DEF d
    <3> QED BY <2>2, <2>3, PutData
  <2>5. y = [x.machine EXCEPT !.data[p].speed = speed, !.data[p].direction = direction]
    BY <2>2 DEF Shape
  <2>6. x.ok => w.machine = y
    BY <2>5 DEF Good
  <2>7. ~x.ok => w = x
    OBVIOUS
  <2> HIDE DEF y, w, d
  <2>8. Kept(m, w.machine, P, {})
    BY <2>1, <2>4, <2>6, <2>7, KeptTransitive
  <2>9. m.config[p].llmode \in Outputs => w.machine.data[p].direction = direction
    BY <2>1, <2>3, <2>4, <2>6
  <2> QED BY <2>8, <2>9, Zenon DEF w, x
<1>2. CASE action \in {"off", "stop"}
  <2>1. TriggerTimer(m, p, action) = Then(DeviceWrite(m, p, Rest(m.config[p])), 0, "none")
    BY <1>2 DEF TriggerTimer
  <2> HIDE DEF Then
  <2> QED BY <1>1, <2>1
<1>3. CASE action \in {"on", "start"}
  <2> DEFINE c == m.config[p]
  <2>1. TriggerTimer(m, p, action)
          = Then(DeviceWrite(m, p, 1 - Rest(c)), c.speed, c.direction)
    BY <1>3 DEF TriggerTimer
  <2> HIDE DEF Then
  <2> QED BY <1>1, <1>3, <2>1
<1>4. CASE action \notin {"off", "stop", "on", "start"}
  <2>1. TriggerTimer(m, p, action) = Bad(m)
    BY <1>4 DEF TriggerTimer
  <2> QED BY <1>4, <2>1, KeptSelf DEF Bad
<1> QED BY <1>2, <1>3, <1>4

LEMMA PwmStepData ==
  ASSUME NEW m, NEW p, NEW action \in Actions \ {"none"}, IsData(m.data[p])
  PROVE  /\ IsData(PwmStep(m, p, action).data)
         /\ PwmStep(m, p, action).data.value = m.data[p].value
         /\ action = "off" => PwmStep(m, p, action).data.direction = "none"
<1>1. CASE action = "off"
  BY <1>1 DEF PwmStep, PwmOff, IsData
<1>2. CASE action = "on"
  BY <1>2 DEF PwmStep, PwmOn, IsData
<1>3. CASE action = "toggle"
  BY <1>3 DEF PwmStep, PwmOn, PwmOff, IsData
<1>4. CASE action = "stop"
  BY <1>4 DEF PwmStep, PwmStop, IsData
<1>5. CASE action = "start"
  BY <1>5 DEF PwmStep, PwmStart, IsData
<1>6. CASE action = "down"
  BY <1>6 DEF PwmStep, PwmDown, IsData
<1>7. CASE action = "up"
  BY <1>7 DEF PwmStep, PwmUp, IsData
<1> QED BY <1>1, <1>2, <1>3, <1>4, <1>5, <1>6, <1>7 DEF Actions

LEMMA PwmKeeps ==
  ASSUME NEW m, NEW P, NEW p \in P, NEW action, Shape(m, P), ~m.config[p].suspended
  PROVE  /\ Kept(m, TriggerPwm(m, p, action).machine, P, {})
         /\ action = "off" =>
              TriggerPwm(m, p, action).machine.data[p].direction = "none"
<1>1. CASE action \notin Actions \ {"none"}
  <2>1. action # "off" /\ TriggerPwm(m, p, action) = Bad(m)
    BY <1>1 DEF TriggerPwm, Actions
  <2> QED BY <2>1, KeptSelf DEF Bad
<1>2. CASE action \in Actions \ {"none"}
  <2> DEFINE d == PwmStep(m, p, action).data
             v == PwmStep(m, p, action).value
             w == [m EXCEPT !.data[p] = d]
             x == DeviceWrite(w, p, v)
  <2>1. TriggerPwm(m, p, action) = x
    BY <1>2, Zenon DEF TriggerPwm
  <2>2. IsData(m.data[p])
    BY DEF Shape
  <2>3. IsData(d) /\ d.value = m.data[p].value /\ (action = "off" => d.direction = "none")
    BY <1>2, <2>2, PwmStepData
  <2> HIDE DEF d, v
  <2>4. Kept(m, w, P, {}) /\ w.data[p] = d
    BY <2>3, PutData
  <2>5. Shape(w, P) /\ ~w.config[p].suspended
    BY <2>4 DEF Kept
  <2> HIDE DEF w
  <2>6. Kept(w, x.machine, P, {}) /\ x.machine.data = w.data
    BY <2>5, DeviceKeeps
  <2> HIDE DEF x
  <2> QED BY <2>1, <2>3, <2>4, <2>6, KeptTransitive
<1> QED BY <1>1, <1>2

LEMMA ModeKeeps ==
  ASSUME NEW m, NEW P, NEW p \in P, NEW action, Shape(m, P), ~m.config[p].suspended
  PROVE  Kept(m, TriggerMode(m, p, action).machine, P, {})
<1> DEFINE mode == m.config[p].mode
<1>0. Kept(m, Bad(m).machine, P, {})
  BY KeptSelf DEF Bad
<1>1. Kept(m, TriggerDigital(m, p, action).machine, P, {})
  BY <1>0, DeviceKeeps DEF TriggerDigital
<1>2. Kept(m, TriggerCounter(m, p, action).machine, P, {})
  BY <1>0, DeviceKeeps DEF TriggerCounter
<1>3. TriggerMode(m, p, action) \in
        {TriggerDigital(m, p, action), TriggerCounter(m, p, action),
         TriggerTimer(m, p, action), TriggerPwm(m, p, action), Bad(m)}
  <2>1. CASE mode \in {"output_digital", "lcd"}
    BY <2>1 DEF TriggerMode, PwmModes
  <2>2. CASE mode = "counter"
    BY <2>2 DEF TriggerMode, PwmModes
  <2>3. CASE mode = "timer"
    BY <2>3 DEF TriggerMode, PwmModes
  <2>4. CASE mode \in PwmModes
    BY <2>4 DEF TriggerMode, PwmModes
  <2>5. CASE mode \notin {"output_digital", "lcd", "counter", "timer"} \cup PwmModes
    BY <2>5 DEF TriggerMode, PwmModes
  <2> QED BY <2>1, <2>2, <2>3, <2>4, <2>5
<1> QED BY <1>0, <1>1, <1>2, <1>3, TimerKeeps, PwmKeeps

(* io_trigger_pin, step by step.                                           *)
IsRun(r) == {"ok", "machine", "todo"} \subseteq DOMAIN r

LEMMA StepKeeps ==
  ASSUME NEW r, NEW P, IsRun(r), Shape(r.machine, P)
  PROVE  IsRun(TriggerStep(r)) /\ Kept(r.machine, TriggerStep(r).machine, P, {})
<1> DEFINE m == r.machine
           t == Head(r.todo)
           p == <<t.io, t.pin>>
           done == TriggerMode(m, p, t.action)
           todo == SelectSeq(m.config[p].shared.trigger,
                             LAMBDA u : u.action # "off") \o Tail(r.todo)
<1>1. Kept(m, m, P, {})
  BY KeptSelf
<1>2. CASE ~r.ok \/ r.todo = <<>>
  <2>1. TriggerStep(r) = r
    BY <1>2 DEF TriggerStep
  <2> QED BY <1>1, <2>1
<1>3. CASE ~(~r.ok \/ r.todo = <<>>) /\ (p \notin DOMAIN m.config \/ m.config[p].suspended)
  <2>1. TriggerStep(r) = [r EXCEPT !.ok = FALSE]
    <3> HIDE DEF m, p, todo, done
    <3> QED BY <1>3, Zenon DEF TriggerStep, m, p
  <2> QED BY <1>1, <2>1 DEF IsRun
<1>4. CASE /\ ~(~r.ok \/ r.todo = <<>>) /\ p \in DOMAIN m.config /\ ~m.config[p].suspended
           /\ m.config[p].mode = "trigger"
  <2>1. TriggerStep(r) = [r EXCEPT !.todo = todo]
    <3>1. TriggerStep(r) = [r EXCEPT !.todo = SelectSeq(m.config[p].shared.trigger,
                             LAMBDA u : u.action # "off") \o Tail(@)]
      BY <1>4, Zenon DEF TriggerStep
    <3> QED BY <3>1 DEF IsRun
  <2> HIDE DEF todo
  <2> QED BY <1>1, <2>1 DEF IsRun
<1>5. CASE /\ ~(~r.ok \/ r.todo = <<>>) /\ p \in DOMAIN m.config /\ ~m.config[p].suspended
           /\ m.config[p].mode # "trigger"
  <2>1. TriggerStep(r) = [ok |-> done.ok, machine |-> done.machine, todo |-> Tail(r.todo)]
    BY <1>5, Zenon DEF TriggerStep
  <2>2. p \in P
    BY <1>5 DEF Shape
  <2>3. Kept(m, done.machine, P, {})
    <3> HIDE DEF p
    <3> QED BY <1>5, <2>2, ModeKeeps
  <2> HIDE DEF done
  <2> QED BY <2>1, <2>3 DEF IsRun
<1> QED BY <1>2, <1>3, <1>4, <1>5

LEMMA TriggerKeeps ==
  ASSUME NEW m, NEW P, NEW p, NEW action, Shape(m, P)
  PROVE  Kept(m, io_trigger_pin(m, p, action), P, {})
<1>1. PICK f : /\ f[0] = Asked(m, p, action)
               /\ \A n \in Nat : n < MaxTriggers => f[n + 1] = TriggerStep(f[n])
               /\ io_trigger_pin(m, p, action) = f[MaxTriggers].machine
  BY TriggerRun
<1> DEFINE G == {n \in Nat : n <= MaxTriggers =>
                               IsRun(f[n]) /\ Kept(m, f[n].machine, P, {})}
<1>2. 0 \in G
  <2>1. IsRun(f[0]) /\ f[0].machine = m
    BY <1>1 DEF Asked, IsRun
  <2> QED BY <2>1, KeptSelf
<1>3. ASSUME NEW n \in Nat, n \in G PROVE n + 1 \in G
  <2> SUFFICES ASSUME n + 1 <= MaxTriggers
               PROVE  IsRun(f[n + 1]) /\ Kept(m, f[n + 1].machine, P, {})
    OBVIOUS
  <2>1. n < MaxTriggers /\ n <= MaxTriggers
    BY IoPinsAssumption
  <2>2. IsRun(f[n]) /\ Kept(m, f[n].machine, P, {})
    BY <1>3, <2>1
  <2>3. f[n + 1] = TriggerStep(f[n])
    BY <1>1, <2>1
  <2>4. Shape(f[n].machine, P)
    BY <2>2 DEF Kept
  <2>5. IsRun(f[n + 1]) /\ Kept(f[n].machine, f[n + 1].machine, P, {})
    BY <2>2, <2>3, <2>4, StepKeeps
  <2> QED BY <2>2, <2>5, KeptTransitive
<1>4. MaxTriggers \in G
  <2> HIDE DEF G
  <2>1. Nat \subseteq G
    BY <1>2, <1>3, CountingUp
  <2> QED BY <2>1, IoPinsAssumption
<1> QED BY <1>1, <1>4, IoPinsAssumption

(* Of a pin that triggers no other, it is one step.                        *)
LEMMA TriggerSingle ==
  ASSUME NEW m, NEW P, NEW p \in P, NEW action, Shape(m, P), p = <<p[1], p[2]>>,
         ~m.config[p].suspended, m.config[p].mode # "trigger"
  PROVE  io_trigger_pin(m, p, action) = TriggerMode(m, p, action).machine
<1>1. PICK f : /\ f[0] = Asked(m, p, action)
               /\ \A n \in Nat : n < MaxTriggers => f[n + 1] = TriggerStep(f[n])
               /\ io_trigger_pin(m, p, action) = f[MaxTriggers].machine
  BY TriggerRun
<1> DEFINE t == [io |-> p[1], pin |-> p[2], action |-> action]
           done == TriggerMode(m, p, action)
<1>2. /\ f[0].ok = TRUE /\ f[0].machine = m /\ f[0].todo = <<t>>
      /\ Head(f[0].todo) = t /\ f[0].todo # <<>> /\ Tail(f[0].todo) = <<>>
  <2>1. f[0] = [ok |-> TRUE, machine |-> m, todo |-> <<t>>]
    BY <1>1 DEF Asked
  <2> HIDE DEF t
  <2>2. <<t>> \in Seq({t}) /\ Head(<<t>>) = t /\ <<t>> # <<>> /\ Tail(<<t>>) = <<>>
    OBVIOUS
  <2> QED BY <2>1, <2>2
<1>3. TriggerStep(f[0]) = [ok |-> done.ok, machine |-> done.machine, todo |-> <<>>]
  <2>1. <<t.io, t.pin>> = p /\ t.action = action
    OBVIOUS
  <2>2. p \in DOMAIN m.config
    BY DEF Shape
  <2> HIDE DEF t, done
  <2> QED BY <1>2, <2>1, <2>2, Zenon DEF TriggerStep, done
<1>4. f[1].todo = <<>> /\ f[1].machine = done.machine
  <2>1. f[0 + 1] = TriggerStep(f[0])
    BY <1>1, IoPinsAssumption
  <2> HIDE DEF done
  <2> QED BY <1>3, <2>1
<1> HIDE DEF done
<1> DEFINE G == {n \in Nat : n + 1 <= MaxTriggers =>
                   f[n + 1].todo = <<>> /\ f[n + 1].machine = done.machine}
<1>5. 0 \in G
  BY <1>4
<1>6. ASSUME NEW n \in Nat, n \in G PROVE n + 1 \in G
  <2> SUFFICES ASSUME (n + 1) + 1 <= MaxTriggers
               PROVE  f[(n + 1) + 1].todo = <<>> /\ f[(n + 1) + 1].machine = done.machine
    OBVIOUS
  <2>1. n + 1 < MaxTriggers /\ n + 1 <= MaxTriggers /\ n + 1 \in Nat
    BY IoPinsAssumption
  <2>2. f[(n + 1) + 1] = TriggerStep(f[n + 1])
    BY <1>1, <2>1
  <2>3. f[n + 1].todo = <<>> /\ f[n + 1].machine = done.machine
    BY <1>6, <2>1
  <2>4. TriggerStep(f[n + 1]) = f[n + 1]
    BY <2>3 DEF TriggerStep
  <2> QED BY <2>2, <2>3, <2>4
<1>7. MaxTriggers - 1 \in G
  <2> HIDE DEF G
  <2>1. Nat \subseteq G
    BY <1>5, <1>6, CountingUp
  <2> QED BY <2>1, IoPinsAssumption
<1>8. f[MaxTriggers].machine = done.machine
  <2>1. (MaxTriggers - 1) + 1 = MaxTriggers /\ MaxTriggers - 1 \in Nat
    BY IoPinsAssumption
  <2> QED BY <1>7, <2>1
<1> QED BY <1>1, <1>8 DEF done
-----------------------------------------------------------------------------
(* io_pin_changed: what it sets off changes no count but the pin's own.    *)
LEMMA OneUpKeeps ==
  ASSUME NEW m, NEW P, NEW p \in P, Shape(m, P)
  PROVE  Kept(m, OneUp(m, p), P, {p}) /\ OneUp(m, p).data[p].value = m.data[p].value + 1
<1>1. OneUp(m, p) = [m EXCEPT !.data[p].value = m.data[p].value + 1]
  BY DEF OneUp, Shape, IsData
<1> DEFINE w == [m EXCEPT !.data[p].value = m.data[p].value + 1]
<1>2. Kept(m, w, P, {p})
  BY PutCount
<1>3. w.data[p].value = m.data[p].value + 1
  BY DEF Shape, IsData
<1> QED BY <1>1, <1>2, <1>3

(* ... after a change of its own count.                                    *)
Counted1(m, w, P, p) ==
  Kept(m, w, P, {p}) /\ w.data[p].value = m.data[p].value + 1

LEMMA CountedOn ==
  ASSUME NEW m, NEW w, NEW P, NEW p \in P, NEW q, NEW action, Counted1(m, w, P, p)
  PROVE  Counted1(m, io_trigger_pin(w, q, action), P, p)
<1> DEFINE x == io_trigger_pin(w, q, action)
<1>1. Shape(w, P)
  BY DEF Counted1, Kept
<1>2. Kept(w, x, P, {})
  BY <1>1, TriggerKeeps
<1> HIDE DEF x
<1>3. Kept(w, x, P, {p}) /\ x.data[p].value = w.data[p].value
  BY <1>2, KeptMore DEF Kept
<1>4. Kept(m, x, P, {p})
  BY <1>3, KeptTransitive DEF Counted1
<1> QED BY <1>3, <1>4 DEF Counted1, x

LEMMA ChangedTriggerKeeps ==
  ASSUME NEW m, NEW P, NEW p \in P, Shape(m, P)
  PROVE  Counted1(m, ChangedTrigger(m, p), P, p)
<1> DEFINE Follow(w, t) == IF t.action = "none" THEN w
                           ELSE io_trigger_pin(w, <<t.io, t.pin>>, t.action)
           t == m.config[p].shared.trigger
<1>1. ASSUME NEW w, NEW u, Counted1(m, w, P, p) PROVE Counted1(m, Follow(w, u), P, p)
  BY <1>1, CountedOn
<1>2. ChangedTrigger(m, p) = Follow(Follow(OneUp(m, p), t[1]), t[2])
  BY DEF ChangedTrigger
<1> HIDE DEF Follow, t
<1>3. Counted1(m, OneUp(m, p), P, p)
  BY OneUpKeeps DEF Counted1
<1>4. Counted1(m, Follow(OneUp(m, p), t[1]), P, p)
  BY <1>1, <1>3
<1>5. Counted1(m, Follow(Follow(OneUp(m, p), t[1]), t[2]), P, p)
  BY <1>1, <1>4
<1> QED BY <1>2, <1>5

LEMMA ChangedRotaryKeeps ==
  ASSUME NEW m, NEW P, NEW p \in P, NEW level, Shape(m, P)
  PROVE  Kept(m, ChangedRotary(m, p, level), P, {p})
<1> DEFINE t == m.config[p].shared
           turn == Decoded(m, p, level)
           w == io_trigger_pin(OneUp(m, p), <<t.io, t.pin>>, turn)
<1>1. ChangedRotary(m, p, level) \in {m, OneUp(m, p), w}
  BY DEF ChangedRotary
<1>2. Counted1(m, OneUp(m, p), P, p)
  BY OneUpKeeps DEF Counted1
<1>3. Counted1(m, w, P, p)
  BY <1>2, CountedOn
<1> HIDE DEF w
<1> QED BY <1>1, <1>2, <1>3, KeptSelf DEF Counted1

LEMMA ChangedKeeps ==
  ASSUME NEW m, NEW P, NEW p \in P, NEW level, NEW alert, Shape(m, P)
  PROVE  LET w == PinChanged(m, p, level, alert)
         IN  /\ Kept(m, w, P, {p})
             /\ m.config[p].mode \in {"counter", "trigger"} =>
                  IF Counts(m, p, level)
                  THEN w.data[p].value = m.data[p].value + 1
                  ELSE w.data[p].value = m.data[p].value
<1> DEFINE mode == m.config[p].mode
           w == CASE mode \in {"counter", "pcint"} /\ Counts(m, p, level) -> OneUp(m, p)
                  [] mode = "trigger" /\ Counts(m, p, level) -> ChangedTrigger(m, p)
                  [] mode = "rotary_encoder" -> ChangedRotary(m, p, level)
                  [] OTHER -> m
           a == IF alert = NoPin THEN w ELSE io_trigger_pin(w, alert, "on")
           x == [a EXCEPT !.data[p].previous = level[p]]
<1>1. PinChanged(m, p, level, alert) = x
  BY Zenon DEF PinChanged
<1>2. /\ Kept(m, w, P, {p})
      /\ mode \in {"counter", "trigger"} =>
           IF Counts(m, p, level) THEN w.data[p].value = m.data[p].value + 1
           ELSE w.data[p].value = m.data[p].value
  <2>1. CASE mode \in {"counter", "pcint"} /\ Counts(m, p, level)
    BY <2>1, OneUpKeeps
  <2>2. CASE mode = "trigger" /\ Counts(m, p, level)
    BY <2>2, ChangedTriggerKeeps DEF Counted1
  <2>3. CASE mode = "rotary_encoder"
    BY <2>3, ChangedRotaryKeeps
  <2>4. CASE /\ ~(mode \in {"counter", "pcint"} /\ Counts(m, p, level))
             /\ ~(mode = "trigger" /\ Counts(m, p, level)) /\ mode # "rotary_encoder"
    <3>1. w = m
      BY <2>4
    <3> HIDE DEF w
    <3> QED BY <2>4, <3>1, KeptSelf
  <2> QED BY <2>1, <2>2, <2>3, <2>4
<1> HIDE DEF w
<1>3. Shape(w, P)
  BY <1>2 DEF Kept
<1>4. Kept(w, a, P, {})
  BY <1>3, KeptSelf, TriggerKeeps
<1> HIDE DEF a
<1>5. Shape(a, P)
  BY <1>4 DEF Kept
<1>6. Kept(a, x, P, {})
  <2> DEFINE d == [a.data[p] EXCEPT !.previous = level[p]]
  <2>1. /\ DOMAIN x = DOMAIN a /\ x.config = a.config /\ x.out = a.out
        /\ x.data = [a.data EXCEPT ![p] = d]
    BY <1>5 DEF Shape
  <2>2. IsData(d) /\ d.value = a.data[p].value /\ d.direction = a.data[p].direction
    BY <1>5 DEF Shape, IsData
  <2> HIDE DEF x, d
  <2>3. /\ DOMAIN x.data = P /\ x.data[p] = d
        /\ \A q \in P : q # p => x.data[q] = a.data[q]
    BY <1>5, <2>1 DEF Shape
  <2>4. Shape(x, P)
    BY <1>5, <2>1, <2>2, <2>3 DEF Shape
  <2> QED BY <2>1, <2>2, <2>3, <2>4 DEF Kept
<1> HIDE DEF x
<1>7. Kept(w, x, P, {})
  BY <1>4, <1>6, KeptTransitive
<1>8. Kept(w, x, P, {p}) /\ x.data[p].value = w.data[p].value
  BY <1>7, KeptMore DEF Kept
<1>9. Kept(m, x, P, {p})
  BY <1>2, <1>8, KeptTransitive
<1> QED BY <1>1, <1>2, <1>8, <1>9

LEMMA IfKeeps ==
  ASSUME NEW m, NEW P, NEW p, NEW status, NEW level, NEW alert,
         status \subseteq P, Shape(m, P)
  PROVE  LET w == ChangedIf(m, p, status, level, alert)
         IN  /\ Kept(m, w, P, {p})
             /\ p \in P /\ m.config[p].mode \in {"counter", "trigger"} =>
                  IF p \in status /\ m.config[p].llmode = "counter" /\ Counts(m, p, level)
                  THEN w.data[p].value = m.data[p].value + 1
                  ELSE w.data[p].value = m.data[p].value
<1> DEFINE w == PinChanged(m, p, level, alert)
<1>1. CASE p \in status /\ m.config[p].llmode = "counter"
  <2>1. ChangedIf(m, p, status, level, alert) = w
    BY <1>1 DEF ChangedIf
  <2>2. /\ Kept(m, w, P, {p})
        /\ m.config[p].mode \in {"counter", "trigger"} =>
             IF Counts(m, p, level) THEN w.data[p].value = m.data[p].value + 1
             ELSE w.data[p].value = m.data[p].value
    BY <1>1, ChangedKeeps
  <2> HIDE DEF w
  <2> QED BY <1>1, <2>1, <2>2
<1>2. CASE ~(p \in status /\ m.config[p].llmode = "counter")
  <2>1. ChangedIf(m, p, status, level, alert) = m
    BY <1>2 DEF ChangedIf
  <2> QED BY <1>2, <2>1, KeptSelf
<1> QED BY <1>1, <1>2

\* What a report has been to the inputs of the internal device.
CountedTo(m, w, P, status, level) ==
  \A i \in 0 .. 15 :
    <<Gpio, i>> \in P /\ m.config[<<Gpio, i>>].mode \in {"counter", "trigger"} =>
      IF /\ <<Gpio, i>> \in status /\ m.config[<<Gpio, i>>].llmode = "counter"
         /\ Counts(m, <<Gpio, i>>, level)
      THEN w.data[<<Gpio, i>>].value = m.data[<<Gpio, i>>].value + 1
      ELSE w.data[<<Gpio, i>>].value = m.data[<<Gpio, i>>].value

LEMMA PinsKeep ==
  ASSUME NEW m, NEW P, NEW status, NEW level, NEW alert, status \subseteq P, Shape(m, P)
  PROVE  /\ Shape(PinsChanged(m, status, level, alert), P)
         /\ PinsChanged(m, status, level, alert).config = m.config
         /\ \A q \in P : m.config[q].suspended =>
              /\ PinsChanged(m, status, level, alert).out[q] = m.out[q]
              /\ PinsChanged(m, status, level, alert).data[q].direction
                   = m.data[q].direction
         /\ CountedTo(m, PinsChanged(m, status, level, alert), P, status, level)
<1>0. PICK f : ChangedBy(f, m, status, level, alert)
  BY ChangedRun
<1>1. /\ f[0] = m
      /\ \A n \in 0 .. 15 : f[n + 1] = ChangedIf(f[n], <<Gpio, n>>, status, level, alert)
      /\ PinsChanged(m, status, level, alert) = f[16]
  BY <1>0 DEF ChangedBy
<1> DEFINE Up1(i) == <<Gpio, i>> \in status /\ m.config[<<Gpio, i>>].llmode = "counter"
                       /\ Counts(m, <<Gpio, i>>, level)
           Here(i) == <<Gpio, i>> \in P
                        /\ m.config[<<Gpio, i>>].mode \in {"counter", "trigger"}
           Value(w, i) == w.data[<<Gpio, i>>].value
           Good1(n) == /\ Kept(m, f[n], P, P)
                       /\ \A i \in 0 .. 15 : Here(i) =>
                            IF i < n /\ Up1(i) THEN Value(f[n], i) = Value(m, i) + 1
                            ELSE Value(f[n], i) = Value(m, i)
           G == {n \in Nat : n <= 16 => Good1(n)}
<1>2. 0 \in G
  <2>1. Kept(m, f[0], P, P)
    BY <1>1, KeptSelf
  <2>2. ASSUME NEW i \in 0 .. 15 PROVE ~(i < 0) /\ Value(f[0], i) = Value(m, i)
    BY <1>1
  <2> QED BY <2>1, <2>2
<1>3. ASSUME NEW n \in Nat, n \in G PROVE n + 1 \in G
  <2> HIDE DEF Good1
  <2> SUFFICES ASSUME n + 1 <= 16 PROVE Good1(n + 1)
    OBVIOUS
  <2> USE DEF Good1
  <2> DEFINE p == <<Gpio, n>>
             w == f[n]
             x == f[n + 1]
  <2>1. n <= 16 /\ n \in 0 .. 15
    OBVIOUS
  <2>2. Good1(n)
    BY <1>3, <2>1
  <2>3. x = ChangedIf(w, p, status, level, alert)
    BY <1>1, <2>1
  <2>4. Shape(w, P) /\ w.config = m.config
    BY <2>2 DEF Kept
  <2>5. /\ Kept(w, x, P, {p})
        /\ p \in P /\ w.config[p].mode \in {"counter", "trigger"} =>
             IF p \in status /\ w.config[p].llmode = "counter" /\ Counts(w, p, level)
             THEN x.data[p].value = w.data[p].value + 1
             ELSE x.data[p].value = w.data[p].value
    <3> HIDE DEF w, x, p
    <3> QED BY <2>3, <2>4, IfKeeps
  <2>6. Counts(w, p, level) <=> Counts(m, p, level)
    BY <2>4 DEF Counts, Flagged
  <2>7. ASSUME NEW i \in 0 .. 15, Here(i)
        PROVE  IF i < n + 1 /\ Up1(i) THEN Value(x, i) = Value(m, i) + 1
               ELSE Value(x, i) = Value(m, i)
    <3>1. CASE i = n
      <4>1. ~(i < n) /\ i < n + 1 /\ <<Gpio, i>> = p
        BY <3>1
      <4>2. Value(w, i) = Value(m, i)
        BY <2>2, <4>1, <2>7
      <4>3. IF Up1(i) THEN x.data[p].value = w.data[p].value + 1
            ELSE x.data[p].value = w.data[p].value
        <5> HIDE DEF w, x
        <5> QED BY <2>4, <2>5, <2>6, <2>7, <4>1
      <4> HIDE DEF Up1, w, x
      <4> QED BY <4>1, <4>2, <4>3
    <3>2. CASE i # n
      <4>1. (i < n + 1 <=> i < n) /\ <<Gpio, i>> # p
        BY <3>2
      <4>2. Value(x, i) = Value(w, i)
        <5> HIDE DEF w, x
        <5> QED BY <2>5, <2>7, <4>1 DEF Kept
      <4>3. IF i < n /\ Up1(i) THEN Value(w, i) = Value(m, i) + 1
            ELSE Value(w, i) = Value(m, i)
        BY <2>2, <2>7
      <4> HIDE DEF Up1, w, x
      <4> QED BY <4>1, <4>2, <4>3
    <3> QED BY <3>1, <3>2
  <2>8. Kept(m, x, P, P)
    <3> HIDE DEF x
    <3>0. CASE p \in P
      <4>1. Kept(w, x, P, P)
        BY <2>5, <3>0, KeptMore
      <4> QED BY <2>2, <4>1, KeptTransitive
    <3>1. CASE p \notin P
      <4>1. Kept(w, x, P, P)
        BY <2>5, <3>1 DEF Kept
      <4> QED BY <2>2, <4>1, KeptTransitive
    <3> QED BY <3>0, <3>1
  <2> QED BY <2>7, <2>8
<1>4. Good1(16)
  <2>1. 16 \in G
    <3> HIDE DEF G
    <3> QED BY <1>2, <1>3, CountingUp
  <2> HIDE DEF Good1
  <2> QED BY <2>1
<1>5. \A i \in 0 .. 15 : i < 16
  OBVIOUS
<1>6. CountedTo(m, f[16], P, status, level)
  BY <1>4, <1>5 DEF CountedTo
<1> QED BY <1>1, <1>4, <1>6 DEF Kept
-----------------------------------------------------------------------------
(* io_init: what it makes of a pin's settings is the pin as its mode says, *)
(* with the mode's parameters, or disabled.                                *)
Tuned(c, d) ==
  /\ IsConfig(c) /\ IsConfig(d)
  /\ d.suspended = c.suspended /\ d.flags = c.flags
  /\ \/ d.mode = c.mode /\ d.llmode = c.llmode
     \/ d.mode = "disabled" /\ d.llmode = "disabled"

LEMMA TunedSelf == ASSUME NEW c, IsConfig(c) PROVE Tuned(c, c)
BY DEF Tuned

LEMMA TunedOff == ASSUME NEW c, IsConfig(c) PROVE Tuned(c, Off(c))
BY DEF Tuned, Off, IsConfig

LEMMA TunedTo ==
  ASSUME NEW c, NEW s, NEW v, NEW d, IsConfig(c)
  PROVE  /\ Tuned(c, [c EXCEPT !.shared = v])
         /\ Tuned(c, [c EXCEPT !.speed = s, !.direction = d])
         /\ Tuned(c, [c EXCEPT !.speed = s, !.shared = v])
BY DEF Tuned, IsConfig

(* What io_init starts from.                                               *)
Found(p, entries) == [RestoredMode(p, entries) EXCEPT !.flags = Get(entries, "flags", {})]

StoredDriven(entries) ==
  Has(entries, {"mode", "llmode"}) /\ entries["mode"] \in DrivenModes
    => entries["llmode"] \in Outputs \cup {"disabled"}

LEMMA FoundIs ==
  ASSUME NEW p, NEW entries
  PROVE  LET c == Found(p, entries)
         IN  /\ IsConfig(c) /\ c.suspended = FALSE
             /\ c.flags = Get(entries, "flags", {})
             /\ c.mode = RestoredMode(p, entries).mode
             /\ c.llmode = RestoredMode(p, entries).llmode
             /\ StoredDriven(entries) /\ c.mode \in DrivenModes => c.llmode \in Outputs
<1> DEFINE r == RestoredMode(p, entries)
           b == Blank
           whole == /\ Has(entries, {"mode", "llmode"})
                    /\ entries["mode"] # "disabled" /\ entries["llmode"] # "disabled"
<1>0. /\ IsConfig(b) /\ b.suspended = FALSE
      /\ b.mode = "disabled" /\ b.llmode = "disabled"
  BY DEF Blank, IsConfig
<1>1. CASE whole
  <2>1. r = [b EXCEPT !.mode = entries["mode"], !.llmode = entries["llmode"]]
    BY <1>1 DEF RestoredMode
  <2> HIDE DEF r, b
  <2>2. /\ IsConfig(r) /\ r.suspended = FALSE
        /\ r.mode = entries["mode"] /\ r.llmode = entries["llmode"]
    BY <1>0, <2>1 DEF IsConfig
  <2>3. StoredDriven(entries) /\ r.mode \in DrivenModes => r.llmode \in Outputs
    BY <1>1, <2>2 DEF StoredDriven
  <2> QED BY <2>2, <2>3 DEF Found, IsConfig, r
<1>2. CASE ~whole /\ p[1] = Gpio /\ p[2] \in {1, 3}
  <2>1. r = [b EXCEPT !.mode = "uart", !.llmode = "uart"]
    BY <1>2 DEF RestoredMode
  <2> HIDE DEF r, b
  <2>2. /\ IsConfig(r) /\ r.suspended = FALSE /\ r.mode = "uart" /\ r.llmode = "uart"
    BY <1>0, <2>1 DEF IsConfig
  <2>3. r.mode \notin DrivenModes
    BY <2>2 DEF DrivenModes, PwmModes
  <2> QED BY <2>2, <2>3 DEF Found, IsConfig, r
<1>3. CASE ~whole /\ ~(p[1] = Gpio /\ p[2] \in {1, 3})
  <2>1. r = b
    BY <1>3 DEF RestoredMode
  <2> HIDE DEF r, b
  <2>3. r.mode \notin DrivenModes
    BY <1>0, <2>1 DEF DrivenModes, PwmModes
  <2> QED BY <1>0, <2>1, <2>3 DEF Found, IsConfig, r
<1> QED BY <1>1, <1>2, <1>3

LEMMA RestoredPinTuned ==
  ASSUME NEW p, NEW entries
  PROVE  Tuned(Found(p, entries), RestoredPin(p, entries))
<1> DEFINE c == Found(p, entries)
<1>0. IsConfig(c)
  BY FoundIs
<1>1. RestoredPin(p, entries) \in
        {RestoreRotary(entries, c), RestoreTrigger(p, entries, c),
         RestoreTimer(p, entries, c), RestorePwm(p, entries, c), RestoreI2c(p, entries, c),
         RestoreLcd(entries, c), RestoreChecked(p, c)}
  <2>1. RestoredPin(p, entries) =
          CASE c.mode = "rotary_encoder" -> RestoreRotary(entries, c)
            [] c.mode = "trigger" -> RestoreTrigger(p, entries, c)
            [] c.mode = "timer" -> RestoreTimer(p, entries, c)
            [] c.mode \in {"output_pwm1", "output_pwm2"} -> RestorePwm(p, entries, c)
            [] c.mode = "i2c" -> RestoreI2c(p, entries, c)
            [] c.mode = "lcd" -> RestoreLcd(entries, c)
            [] OTHER -> RestoreChecked(p, c)
    BY DEF RestoredPin, Found
  <2> HIDE DEF c
  <2>2. CASE c.mode \in {"output_pwm1", "output_pwm2"}
    BY <2>1, <2>2
  <2>3. CASE c.mode \in {"rotary_encoder", "trigger", "timer", "i2c", "lcd"}
    BY <2>1, <2>3
  <2>4. CASE c.mode \notin {"rotary_encoder", "trigger", "timer", "i2c", "lcd",
                            "output_pwm1", "output_pwm2"}
    BY <2>1, <2>4
  <2> QED BY <2>2, <2>3, <2>4
<1> HIDE DEF c
<1>2. Tuned(c, c) /\ Tuned(c, Off(c))
  BY <1>0, TunedSelf, TunedOff
<1>3. \A v : Tuned(c, [c EXCEPT !.shared = v])
  BY <1>0, TunedTo
<1>4. \A s, d : Tuned(c, [c EXCEPT !.speed = s, !.direction = d])
  BY <1>0, TunedTo
<1>5. \A s, v : Tuned(c, [c EXCEPT !.speed = s, !.shared = v])
  BY <1>0, TunedTo
<1>6. Tuned(c, RestoreRotary(entries, c))
  BY <1>2, <1>3, Zenon DEF RestoreRotary
<1>7. Tuned(c, RestoreTrigger(p, entries, c))
  BY <1>2, <1>3, Zenon DEF RestoreTrigger
<1>8. Tuned(c, RestoreTimer(p, entries, c))
  BY <1>2, <1>4, Zenon DEF RestoreTimer
<1>9. Tuned(c, RestorePwm(p, entries, c))
  BY <1>2, <1>5, Zenon DEF RestorePwm
<1>10. Tuned(c, RestoreI2c(p, entries, c))
  BY <1>2, <1>3, Zenon DEF RestoreI2c
<1>11. Tuned(c, RestoreLcd(entries, c))
  BY <1>2, <1>3, Zenon DEF RestoreLcd
<1>12. Tuned(c, RestoreChecked(p, c))
  BY <1>2, Zenon DEF RestoreChecked
<1> QED BY <1>1, <1>6, <1>7, <1>8, <1>9, <1>10, <1>11, <1>12 DEF c

LEMMA RestoredTuned ==
  ASSUME NEW S, NEW p \in DOMAIN S
  PROVE  Tuned(Found(p, S[p]), Restored(S)[p])
<1> DEFINE alone == [q \in DOMAIN S |-> RestoredPin(q, S[q])]
           c == alone[p]
           d == [c EXCEPT !.shared.partner = RestoredPartner(p, alone)]
<1>1. Restored(S)[p] = IF c.mode # "rotary_encoder" THEN c ELSE d
  BY DEF Restored
<1>2. Tuned(Found(p, S[p]), c)
  BY RestoredPinTuned
<1> HIDE DEF alone
<1> DEFINE v == [c.shared EXCEPT !.partner = RestoredPartner(p, alone)]
<1>3. d = [c EXCEPT !.shared = v]
  OBVIOUS
<1> HIDE DEF c, d, v
<1>4. IsConfig(c)
  BY <1>2 DEF Tuned
<1>5. Tuned(c, d)
  BY <1>3, <1>4, TunedTo
<1>6. Tuned(Found(p, S[p]), d)
  BY <1>2, <1>5 DEF Tuned
<1> QED BY <1>1, <1>2, <1>6

LEMMA RestoredIs ==
  ASSUME NEW S
  PROVE  /\ DOMAIN Restored(S) = DOMAIN S
         /\ \A p \in DOMAIN S :
              LET c == Restored(S)[p]
              IN  /\ IsConfig(c) /\ c.suspended = FALSE
                  /\ StoredDriven(S[p]) /\ c.mode \in DrivenModes => c.llmode \in Outputs
<1>1. DOMAIN Restored(S) = DOMAIN S
  BY DEF Restored
<1>2. ASSUME NEW p \in DOMAIN S
      PROVE  LET c == Restored(S)[p]
             IN  /\ IsConfig(c) /\ c.suspended = FALSE
                 /\ StoredDriven(S[p]) /\ c.mode \in DrivenModes => c.llmode \in Outputs
  <2> DEFINE c == Restored(S)[p]
             f == Found(p, S[p])
  <2>1. Tuned(f, c)
    BY RestoredTuned
  <2>2. /\ f.suspended = FALSE
        /\ StoredDriven(S[p]) /\ f.mode \in DrivenModes => f.llmode \in Outputs
    BY FoundIs
  <2> HIDE DEF c, f
  <2>3. "disabled" \notin DrivenModes
    BY DEF DrivenModes, PwmModes
  <2>4. IsConfig(c) /\ c.suspended = FALSE
    BY <2>1, <2>2 DEF Tuned
  <2>5. ASSUME StoredDriven(S[p]), c.mode \in DrivenModes PROVE c.llmode \in Outputs
    BY <2>1, <2>2, <2>3, <2>5 DEF Tuned
  <2> QED BY <2>4, <2>5 DEF c
<1> QED BY <1>1, <1>2

LEMMA StartedKeeps ==
  ASSUME NEW m, NEW P, NEW p \in P, Shape(m, P) PROVE Kept(m, Started(m, p), P, {})
<1>1. Kept(m, m, P, {})
  BY KeptSelf
<1>2. \A action : Kept(m, io_trigger_pin(m, p, action), P, {})
  BY TriggerKeeps
<1>3. Kept(m, io_trigger_pin(io_trigger_pin(m, p, "stop"), p, "off"), P, {})
  <2> DEFINE w == io_trigger_pin(m, p, "stop")
  <2>1. Kept(m, w, P, {})
    BY <1>2
  <2> HIDE DEF w
  <2>0. Shape(w, P)
    BY <2>1 DEF Kept
  <2>2. Kept(w, io_trigger_pin(w, p, "off"), P, {})
    BY <2>0, TriggerKeeps
  <2>3. Kept(m, io_trigger_pin(w, p, "off"), P, {})
    BY <2>1, <2>2, KeptTransitive
  <2> QED BY <2>3 DEF w
<1> QED BY <1>1, <1>2, <1>3, Zenon DEF Started

(* A machine put together from what was made of each pin.                  *)
Assembled(m, after, P) ==
  [config |-> m.config,
   data |-> [p \in P |-> after[p].data[p]], out |-> [p \in P |-> after[p].out[p]]]

LEMMA AssembledKeeps ==
  ASSUME NEW m, NEW P, NEW after, NEW V, Shape(m, P),
         \A p \in P : Kept(m, after[p], P, V)
  PROVE  Kept(m, Assembled(m, after, P), P, V)
<1> DEFINE w == Assembled(m, after, P)
<1>1. /\ DOMAIN w = {"config", "data", "out"} /\ w.config = m.config
      /\ DOMAIN w.data = P /\ DOMAIN w.out = P
      /\ \A p \in P : w.data[p] = after[p].data[p] /\ w.out[p] = after[p].out[p]
  BY DEF Assembled
<1> HIDE DEF w
<1>2. Shape(w, P)
  BY <1>1 DEF Shape, Kept
<1> QED BY <1>1, <1>2 DEF Kept, w

LEMMA BootedIs ==
  ASSUME NEW S
  PROVE  /\ Shape(Booted(S), DOMAIN S) /\ Booted(S).config = Restored(S)
         /\ \A p \in DOMAIN S : Booted(S).data[p].value = 0
<1> DEFINE P == DOMAIN S
           resting == [config |-> Restored(S), data |-> [p \in P |-> Idle],
                       out |-> [p \in P |-> 0]]
           started == [p \in P |-> Started(resting, p)]
<1>1. Shape(resting, P)
  <2>1. IsData(Idle)
    BY DEF IsData, Idle
  <2> QED BY <2>1, RestoredIs DEF Shape
<1>2. Booted(S) = Assembled(resting, started, P)
  BY Zenon DEF Booted, Assembled
<1>3. resting.config = Restored(S) /\ \A p \in P : resting.data[p].value = 0
  BY DEF Idle
<1> HIDE DEF resting
<1>4. \A p \in P : Kept(resting, started[p], P, {})
  BY <1>1, StartedKeeps
<1> HIDE DEF started
<1>5. Kept(resting, Booted(S), P, {})
  BY <1>1, <1>2, <1>4, AssembledKeeps
<1> QED BY <1>3, <1>5 DEF Kept

LEMMA WrittenKeeps ==
  ASSUME NEW m, NEW values, Shape(m, Pins)
  PROVE  Kept(m, Written(m, values), Pins, DOMAIN values)
<1> DEFINE after == [p \in Pins |-> IF p \in DOMAIN values
                                    THEN WritePin(m, p, values[p]).machine ELSE m]
           w == Written(m, values)
<1>1. ASSUME NEW p \in Pins PROVE Kept(m, after[p], Pins, DOMAIN values)
  <2>1. CASE p \in DOMAIN values
    <3>1. after[p] = WritePin(m, p, values[p]).machine
      BY <2>1
    <3>2. Kept(m, WritePin(m, p, values[p]).machine, Pins, {p})
      BY WriteKeeps
    <3> QED BY <2>1, <3>1, <3>2, KeptMore
  <2>2. CASE p \notin DOMAIN values
    <3>1. after[p] = m
      BY <2>2
    <3> QED BY <3>1, KeptSelf
  <2> QED BY <2>1, <2>2
<1>2. /\ DOMAIN w = DOMAIN m /\ w.config = m.config
      /\ w.data = [p \in Pins |-> after[p].data[p]]
      /\ w.out = [p \in Pins |-> after[p].out[p]]
  BY DEF Written, Shape
<1> HIDE DEF after
<1>3. Kept(m, Assembled(m, after, Pins), Pins, DOMAIN values)
  BY <1>1, AssembledKeeps
<1>4. LET x == Assembled(m, after, Pins)
      IN  w.config = x.config /\ w.data = x.data /\ w.out = x.out
  BY <1>2 DEF Assembled
<1> HIDE DEF w
<1>5. Shape(w, Pins)
  BY <1>2, <1>3, <1>4 DEF Kept, Shape
<1> QED BY <1>3, <1>4, <1>5 DEF Kept, w
-----------------------------------------------------------------------------
(* io_periodic_fast, of one pin: a suspended timer that is at rest stays.  *)
LEMMA TickKeeps ==
  ASSUME NEW m, NEW P, NEW p \in P, NEW rate, Shape(m, P),
         m.config[p].suspended /\ m.config[p].mode = "timer"
           => m.data[p].direction = "none"
  PROVE  Kept(m, PeriodicFast(m, p, rate), P, {})
<1> DEFINE d == m.data[p]
           up == d.direction = "up"
           repeat == Flagged(m, p, "repeat")
           w == DeviceWrite(m, p, IF up THEN 1 ELSE 0).machine
           s == IF repeat THEN m.config[p].speed ELSE 0
           e == IF ~repeat THEN "none" ELSE IF up THEN "down" ELSE "up"
           x == [m EXCEPT !.data[p].speed = d.speed - rate]
           y == [w EXCEPT !.data[p].speed = s, !.data[p].direction = e]
<1>1. CASE m.config[p].mode = "timer" /\ d.direction # "none"
  <2>1. ~m.config[p].suspended
    BY <1>1
  <2>2. PeriodicFast(m, p, rate) \in {x, y}
    <3> HIDE DEF x, y
    <3> QED BY <1>1, Zenon DEF PeriodicFast, TimerTick, x, y
  <2>3. Kept(m, x, P, {})
    <3> DEFINE v == d.speed - rate
               c == [d EXCEPT !.speed = v]
    <3> HIDE DEF v
    <3>1. IsData(c) /\ c.value = m.data[p].value
      BY DEF Shape, IsData
    <3>2. x = [m EXCEPT !.data[p] = c]
      BY DEF Shape, IsData, v
    <3> HIDE DEF c, x
    <3> QED BY <2>1, <3>1, <3>2, PutData
  <2>4. Kept(m, y, P, {})
    <3>1. Kept(m, w, P, {}) /\ w.data = m.data
      BY <2>1, DeviceKeeps
    <3> HIDE DEF w, s, e
    <3>2. Shape(w, P) /\ ~w.config[p].suspended
      BY <2>1, <3>1 DEF Kept
    <3> DEFINE c == [w.data[p] EXCEPT !.speed = s, !.direction = e]
    <3>3. IsData(c) /\ c.value = w.data[p].value
      BY <3>2 DEF Shape, IsData
    <3>4. y = [w EXCEPT !.data[p] = c]
      BY <3>2 DEF Shape, IsData
    <3> HIDE DEF c, y
    <3>5. Kept(w, y, P, {})
      BY <3>2, <3>3, <3>4, PutData
    <3> QED BY <3>1, <3>5, KeptTransitive
  <2> HIDE DEF x, y
  <2> QED BY <2>2, <2>3, <2>4
<1>2. CASE ~(m.config[p].mode = "timer" /\ d.direction # "none")
  <2>1. PeriodicFast(m, p, rate) \in {m, io_trigger_pin(m, p, m.data[p].direction)}
    BY <1>2 DEF PeriodicFast, TimerTick
  <2> QED BY <2>1, KeptSelf, TriggerKeeps
<1> QED BY <1>1, <1>2

\* ... and whatever a suspended one does it stays a timer, and counts nothing.
LEMMA TickShapes ==
  ASSUME NEW m, NEW P, NEW p \in P, NEW rate, Shape(m, P)
  PROVE  LET w == PeriodicFast(m, p, rate)
         IN  /\ Shape(w, P) /\ w.config = m.config
             /\ \A q \in P : w.data[q].value = m.data[q].value
<1> DEFINE d == m.data[p]
           up == d.direction = "up"
           repeat == Flagged(m, p, "repeat")
           w == DeviceWrite(m, p, IF up THEN 1 ELSE 0).machine
           s == IF repeat THEN m.config[p].speed ELSE 0
           e == IF ~repeat THEN "none" ELSE IF up THEN "down" ELSE "up"
           x == [m EXCEPT !.data[p].speed = d.speed - rate]
           y == [w EXCEPT !.data[p].speed = s, !.data[p].direction = e]
           Fine(n) == /\ Shape(n, P) /\ n.config = m.config
                      /\ \A q \in P : n.data[q].value = m.data[q].value
<1>1. Fine(m) /\ \A action : Fine(io_trigger_pin(m, p, action))
  <2>1. ASSUME NEW n, Kept(m, n, P, {}) PROVE Fine(n)
    BY <2>1 DEF Kept
  <2>2. \A action : Kept(m, io_trigger_pin(m, p, action), P, {})
    BY TriggerKeeps
  <2> HIDE DEF Fine
  <2> QED BY <2>1, <2>2, KeptSelf
<1>2. Fine(x)
  <2> DEFINE c == [d EXCEPT !.speed = d.speed - rate]
  <2>1. IsData(c) /\ c.value = m.data[p].value
    BY DEF Shape, IsData
  <2>2. /\ DOMAIN x = DOMAIN m /\ x.config = m.config /\ x.out = m.out
        /\ x.data = [m.data EXCEPT ![p] = c]
    BY DEF Shape, IsData
  <2> HIDE DEF c, x
  <2> QED BY <2>1, <2>2 DEF Shape
<1>3. Fine(w) /\ w.data = m.data
  <2>1. w \in {m} \cup {[m EXCEPT !.out[p] = v] : v \in {Clipped(m.config[p].llmode, 0),
                                                        Clipped(m.config[p].llmode, 1)}}
    BY DEF DeviceWrite, Good, Bad
  <2>2. ASSUME NEW v PROVE LET n == [m EXCEPT !.out[p] = v] IN Fine(n) /\ n.data = m.data
    BY DEF Shape
  <2> HIDE DEF w
  <2> QED BY <1>1, <2>1, <2>2
<1>4. Fine(y)
  <2> DEFINE c == [w.data[p] EXCEPT !.speed = s, !.direction = e]
  <2> HIDE DEF w, s, e
  <2>1. IsData(c) /\ c.value = m.data[p].value
    BY <1>3 DEF Shape, IsData
  <2>2. /\ DOMAIN y = DOMAIN w /\ y.config = w.config /\ y.out = w.out
        /\ y.data = [w.data EXCEPT ![p] = c]
    BY <1>3 DEF Shape, IsData
  <2> HIDE DEF c, y
  <2> QED BY <1>3, <2>1, <2>2 DEF Shape
<1>5. PeriodicFast(m, p, rate) \in {m, io_trigger_pin(m, p, d.direction), x, y}
  <2> HIDE DEF x, y
  <2> QED BY Zenon DEF PeriodicFast, TimerTick, x, y
<1> HIDE DEF x, y
<1> QED BY <1>1, <1>2, <1>4, <1>5

LEMMA TickedIs ==
  ASSUME Shape(machine, Pins)
  PROVE  /\ Shape(Ticked, Pins) /\ Ticked.config = machine.config
         /\ \A p \in Pins :
              /\ Ticked.data[p].value = machine.data[p].value
              /\ /\ machine.config[p].suspended
                 /\ machine.config[p].mode = "timer" => machine.data[p].direction = "none"
                 => /\ Ticked.out[p] = machine.out[p]
                    /\ Ticked.data[p].direction = machine.data[p].direction
<1> DEFINE after == [p \in Pins |-> PeriodicFast(machine, p, Rate)]
           w == Ticked
<1>1. ASSUME NEW p \in Pins
      PROVE  /\ Shape(after[p], Pins) /\ after[p].config = machine.config
             /\ after[p].data[p].value = machine.data[p].value
             /\ /\ machine.config[p].suspended
                /\ machine.config[p].mode = "timer" => machine.data[p].direction = "none"
                => /\ after[p].out[p] = machine.out[p]
                   /\ after[p].data[p].direction = machine.data[p].direction
  <2>1. /\ Shape(after[p], Pins) /\ after[p].config = machine.config
        /\ after[p].data[p].value = machine.data[p].value
    BY TickShapes
  <2>2. ASSUME machine.config[p].suspended,
               machine.config[p].mode = "timer" => machine.data[p].direction = "none"
        PROVE  /\ after[p].out[p] = machine.out[p]
               /\ after[p].data[p].direction = machine.data[p].direction
    <3>1. Kept(machine, PeriodicFast(machine, p, Rate), Pins, {})
      BY <2>2, TickKeeps
    <3> QED BY <2>2, <3>1 DEF Kept
  <2> HIDE DEF after
  <2> QED BY <2>1, <2>2
<1>2. /\ DOMAIN w = DOMAIN machine /\ w.config = machine.config
      /\ w.data = [p \in Pins |-> after[p].data[p]]
      /\ w.out = [p \in Pins |-> after[p].out[p]]
  BY DEF Ticked, Shape
<1> HIDE DEF after, w
<1>3. Shape(w, Pins)
  BY <1>1, <1>2 DEF Shape
<1> QED BY <1>1, <1>2, <1>3 DEF w
-----------------------------------------------------------------------------
(* The sequencer.  A second post while the first is in the queue is one    *)
(* that history knows of: so the one that is there once an entry's time    *)
(* runs is a second one.                                                   *)
Records ==
  /\ {"unsaved", "remade", "doubled", "falls", "turns", "slips", "together"}
       \subseteq DOMAIN history
  /\ {"start", "current", "repeats", "left"} \subseteq DOMAIN sequencer
  /\ world \in Worlds

SequencerInv ==
  /\ Records
  /\ sequencer.left \in Int /\ posts \in Nat /\ history.doubled \in BOOLEAN
  /\ posts > 1 => history.doubled = TRUE
  /\ sequencer.repeats > 0 /\ sequencer.left >= 0 => posts = 0 \/ history.doubled = TRUE

LEMMA Nothing ==
  /\ {"unsaved", "remade", "doubled", "falls", "turns", "slips", "together"}
       \subseteq DOMAIN NoHistory
  /\ NoHistory.doubled = FALSE /\ NoHistory.doubled \in BOOLEAN
  /\ NoHistory.remade = {} /\ NoHistory.unsaved = {}
  /\ {"start", "current", "repeats", "left"} \subseteq DOMAIN Stopped
  /\ Stopped.left = -1 /\ Stopped.left \in Int /\ ~(Stopped.left >= 0)
BY DEF NoHistory, Stopped

LEMMA SequencerStarts ==
  ASSUME Records, sequencer = Stopped, posts = 0, history = NoHistory PROVE SequencerInv
<1>1. /\ sequencer.left \in Int /\ ~(sequencer.left >= 0)
      /\ posts \in Nat /\ ~(posts > 1) /\ history.doubled \in BOOLEAN
  BY Nothing
<1> QED BY <1>1 DEF SequencerInv

\* The actions that leave it alone: what else they write down does not matter.
LEMMA SequencerLeft ==
  ASSUME SequencerInv, sequencer' = sequencer, posts' = posts, world' = world,
         DOMAIN history' = DOMAIN history, history'.doubled = history.doubled
  PROVE  SequencerInv'
BY DEF SequencerInv, Records

LEMMA SequencerStep == SequencerInv /\ [Next]_vars => SequencerInv'
<1> SUFFICES ASSUME SequencerInv, [Next]_vars PROVE SequencerInv'
  OBVIOUS
<1> DEFINE Same == /\ sequencer' = sequencer /\ posts' = posts /\ world' = world
                   /\ DOMAIN history' = DOMAIN history
                   /\ history'.doubled = history.doubled
<1>1. CASE UNCHANGED vars
  BY <1>1, SequencerLeft DEF vars
<1>2. ASSUME io_mode PROVE Same
  BY <1>2 DEF io_mode, Save, NoSequencer, Elsewhere, SequencerInv, Records
<1>3. ASSUME io_flag PROVE Same
  BY <1>3 DEF io_flag, Save, NoSequencer, Elsewhere, SequencerInv, Records
<1>4. ASSUME NEW m, Commanded(m) PROVE Same
  BY <1>4 DEF Commanded, NoSave, NoSequencer, Elsewhere
<1>5. ASSUME io_trigger \/ io_write \/ io_read \/ io_suspend \/ io_resume PROVE Same
  <2> HIDE DEF Same
  <2> QED BY <1>4, <1>5, Zenon DEF io_trigger, io_write, io_read, io_suspend, io_resume
<1>6. ASSUME Edge PROVE Same
  BY <1>6 DEF Edge, SequencerInv, Records
<1>7. ASSUME pc_int_read \/ pc_int_report \/ io_gpio_pins_changed PROVE Same
  BY <1>7 DEF pc_int_read, pc_int_report, io_gpio_pins_changed, Elsewhere, SequencerInv,
              Records
<1>8. ASSUME sequencer_start \/ sequencer_stop PROVE SequencerInv'
  <2>1. /\ posts' = posts /\ world' = world /\ history' = history
        /\ \/ sequencer' = Stopped
           \/ \E play : sequencer' = [Stopped EXCEPT !.start = play.start,
                          !.current = play.start - 1, !.repeats = play.repeats]
    BY <1>8 DEF sequencer_start, sequencer_stop, NoSave, Elsewhere
  <2>2. /\ {"start", "current", "repeats", "left"} \subseteq DOMAIN sequencer'
        /\ sequencer'.left \in Int /\ ~(sequencer'.left >= 0)
    BY <2>1, Nothing
  <2> QED BY <2>1, <2>2 DEF SequencerInv, Records
<1>9. ASSUME io_periodic_fast PROVE SequencerInv'
  <2> DEFINE time == Less(sequencer.left)
  <2>1. /\ sequencer' = [sequencer EXCEPT !.left = time]
        /\ posts' = IF Due(time) /\ posts < TaskQueueLength THEN posts + 1 ELSE posts
        /\ history' = [history EXCEPT !.doubled = history.doubled \/ (Due(time) /\ posts > 0)]
        /\ world' = world
    BY <1>9 DEF io_periodic_fast, Elsewhere, SequencerInv, Records
  <2>2. time \in Int /\ (time >= 0 => sequencer.left >= 0)
    BY IoAssumption DEF Less, SequencerInv
  <2> HIDE DEF time
  <2>3. Due(time) <=> sequencer.repeats > 0 /\ time < 0
    BY DEF Due
  <2>4. /\ sequencer'.left = time /\ sequencer'.repeats = sequencer.repeats
        /\ history'.doubled = (history.doubled \/ (Due(time) /\ posts > 0))
        /\ Records'
    BY <2>1 DEF SequencerInv, Records
  <2>5. posts' \in Nat
    BY <2>1 DEF SequencerInv
  <2>6. CASE Due(time)
    <3>1. posts > 0 => history'.doubled = TRUE
      BY <2>4, <2>6 DEF SequencerInv
    <3>2. history'.doubled \in BOOLEAN /\ ~(time >= 0)
      BY <2>2, <2>3, <2>4, <2>6 DEF SequencerInv
    <3>3. posts' > 1 => posts > 0
      BY <2>1 DEF SequencerInv
    <3> QED BY <2>2, <2>4, <2>5, <3>1, <3>2, <3>3 DEF SequencerInv
  <2>7. CASE ~Due(time)
    <3>1. posts' = posts /\ history'.doubled = history.doubled
      BY <2>1, <2>4, <2>7 DEF SequencerInv
    <3> QED BY <2>2, <2>4, <3>1 DEF SequencerInv
  <2> QED BY <2>6, <2>7
<1>10. ASSUME sequencer_run PROVE SequencerInv'
  <2>1. /\ posts > 0 /\ posts' = posts - 1 /\ world' = world
        /\ history' = [history EXCEPT !.doubled = history.doubled /\ posts > 1]
    BY <1>10 DEF sequencer_run, Elsewhere, SequencerInv, Records
  <2>2. /\ {"start", "current", "repeats", "left"} \subseteq DOMAIN sequencer'
        /\ sequencer'.left \in Int
    <3>1. ASSUME NEW i, NEW r, Active(i), Playing(i, r)
          PROVE  /\ {"start", "current", "repeats", "left"} \subseteq DOMAIN sequencer'
                 /\ sequencer'.left \in Int
      <4>1. world.program[i + 1].duration \in Nat
        BY <3>1, IoAssumption DEF Active, SequencerInv, Records
      <4> QED BY <3>1, <4>1 DEF Playing, SequencerInv, Records
    <3>2. ASSUME sequencer' = Stopped
          PROVE  /\ {"start", "current", "repeats", "left"} \subseteq DOMAIN sequencer'
                 /\ sequencer'.left \in Int
      BY <3>2, Nothing
    <3> QED BY <1>10, <3>1, <3>2, Zenon DEF sequencer_run
  <2>3. history'.doubled = (history.doubled /\ posts > 1)
    BY <2>1 DEF SequencerInv, Records
  <2>4. posts' \in Nat /\ (posts' > 0 => history'.doubled = TRUE)
    BY <2>1, <2>3 DEF SequencerInv
  <2>5. history'.doubled \in BOOLEAN
    BY <2>3
  <2>6. Records'
    BY <2>1, <2>2 DEF SequencerInv, Records
  <2> QED BY <2>2, <2>4, <2>5, <2>6 DEF SequencerInv
<1>11. ASSUME Reboot PROVE SequencerInv'
  <2>1. /\ sequencer' = Stopped /\ posts' = 0 /\ history' = NoHistory /\ world' = world
    BY <1>11 DEF Reboot
  <2>2. /\ sequencer'.left \in Int /\ ~(sequencer'.left >= 0)
        /\ posts' \in Nat /\ ~(posts' > 1) /\ history'.doubled \in BOOLEAN
    BY <2>1, Nothing
  <2>3. Records'
    BY <2>1, Nothing DEF SequencerInv, Records
  <2> QED BY <2>2, <2>3 DEF SequencerInv
<1> HIDE DEF Same
<1>12. ASSUME Same PROVE SequencerInv'
  BY <1>12, SequencerLeft DEF Same
<1> QED BY <1>1, <1>2, <1>3, <1>5, <1>6, <1>7, <1>8, <1>9, <1>10, <1>11, <1>12 DEF Next

(* An entry of the program is not cut short (io.c 1839, sequencer.c 373):  *)
(* while its time runs the sequencer's task is in the queue only if it was *)
(* posted twice.                                                           *)
THEOREM EntriesLastCorrect == Spec => []EntriesLast
<1>1. Init => SequencerInv
  <2> SUFFICES ASSUME Init PROVE SequencerInv
    OBVIOUS
  <2>1. Records
    BY Nothing DEF Init, Records
  <2> QED BY <2>1, SequencerStarts DEF Init
<1>2. SequencerInv => EntriesLast
  BY DEF SequencerInv, EntriesLast
<1> QED BY <1>1, <1>2, SequencerStep, PTL DEF Spec
-----------------------------------------------------------------------------
(* io-mode.  What a command for one pin does to the configuration: to the  *)
(* pin itself ...                                                          *)
Renamed == {"mode", "llmode", "flags"}
RencNumbers == {"renc.remote", "renc.trigger_pin.io", "renc.trigger_pin.pin"}

OwnOnly(config, new, p, P) ==
  /\ DOMAIN new = P /\ \A q \in P \ {p} : new[q] = config[q]
  /\ IsConfig(new[p])
  /\ new[p].flags = config[p].flags /\ new[p].suspended = config[p].suspended

Apart(out, config, p, P) ==
  /\ OwnOnly(config, out.config, p, P)
  /\ DOMAIN out.entries \cap (Renamed \cup RencNumbers) = {}

LEMMA Owned ==
  ASSUME NEW config, NEW P, NEW p \in P, DOMAIN config = P, IsConfig(config[p]),
         NEW v, NEW s, NEW d
  PROVE  /\ OwnOnly(config, config, p, P)
         /\ OwnOnly(config, [config EXCEPT ![p].shared = v], p, P)
         /\ OwnOnly(config, [config EXCEPT ![p].direction = d, ![p].speed = s], p, P)
         /\ OwnOnly(config, [config EXCEPT ![p].speed = s, ![p].shared = v], p, P)
<1>1. OwnOnly(config, config, p, P)
  BY DEF OwnOnly
<1>2. OwnOnly(config, [config EXCEPT ![p].shared = v], p, P)
  BY DEF OwnOnly, IsConfig
<1>3. OwnOnly(config, [config EXCEPT ![p].direction = d, ![p].speed = s], p, P)
  BY DEF OwnOnly, IsConfig
<1>4. OwnOnly(config, [config EXCEPT ![p].speed = s, ![p].shared = v], p, P)
  BY DEF OwnOnly, IsConfig
<1> QED BY <1>1, <1>2, <1>3, <1>4

LEMMA BranchOf ==
  ASSUME NEW p, NEW config, NEW cmd
  PROVE  LET out == Branch(p, config, cmd)
             args == cmd.args
         IN  /\ cmd.mode = "input_digital" => out = InputDigital(p, config)
             /\ cmd.mode = "counter" => out = Counter(p, config)
             /\ cmd.mode = "rotary_encoder" => out = RotaryEncoder(p, config, args)
             /\ cmd.mode = "trigger" => out = Trigger(p, config, args)
             /\ cmd.mode = "output_digital" => out = OutputDigital(p, config)
             /\ cmd.mode = "timer" => out = Timer(p, config, args)
             /\ cmd.mode = "input_analog" => out = InputAnalog(p, config)
             /\ cmd.mode = "output_pwm1" => out = OutputPwm1(p, config, args)
             /\ cmd.mode = "output_pwm2" => out = OutputPwm2(p, config, args)
             /\ cmd.mode = "i2c" => out = I2c(p, config, args)
             /\ cmd.mode = "uart" => out = Uart(p, config)
             /\ cmd.mode = "lcd" => out = Lcd(p, config, args)
             /\ cmd.mode = "ledpixel" => out = LedpixelMode(p, config)
             /\ cmd.mode = "cfa634" => out = Cfa634(p, config)
             /\ cmd.mode = "spi" => out = Spi(p, config)
             /\ cmd.mode = "pcint" => out = Pcint(p, config)
             /\ cmd.mode = "disabled" => out = Disable(config)
BY DEF Branch

LEMMA PlainIs ==
  ASSUME NEW config, NEW P, NEW p \in P, DOMAIN config = P, IsConfig(config[p]),
         NEW cap, NEW llmode
  PROVE  LET out == Plain(p, config, cap, llmode)
         IN  out.ok => /\ Can(p, cap) /\ Apart(out, config, p, P)
                       /\ out.llmode = llmode /\ out.entries = <<>> /\ out.config = config
<1>1. OwnOnly(config, config, p, P)
  BY Owned
<1>2. DOMAIN <<>> = {}
  OBVIOUS
<1> QED BY <1>1, <1>2 DEF Plain, Accepted, Refused, Apart

\* What the modes set: the union, or what a timer has.
SharedSet(config, p, v) == [config EXCEPT ![p].shared = v]
TimerSet(config, p, args) ==
  [config EXCEPT ![p].direction = args[1], ![p].speed = args[2] % SpeedLimit]

LEMMA TimerIs ==
  ASSUME NEW config, NEW P, NEW p \in P, DOMAIN config = P, IsConfig(config[p]), NEW args
  PROVE  LET out == Timer(p, config, args)
         IN  out.ok =>
               /\ Can(p, "output_digital") /\ Apart(out, config, p, P)
               /\ out.llmode = "output_digital"
               /\ out.entries
                    = Entry("timer.direction", args[1]) ++ Entry("timer.delay", args[2])
               /\ out.config = TimerSet(config, p, args)
<1> DEFINE e == Entry("timer.direction", args[1]) ++ Entry("timer.delay", args[2])
           c == TimerSet(config, p, args)
           out == Timer(p, config, args)
<1> SUFFICES ASSUME out.ok
             PROVE  /\ Can(p, "output_digital") /\ Apart(out, config, p, P)
                    /\ out.llmode = "output_digital" /\ out.entries = e /\ out.config = c
  OBVIOUS
<1>1. Can(p, "output_digital") /\ out = Accepted("output_digital", e, c)
  BY Zenon DEF Timer, Refused, TimerSet
<1>2. OwnOnly(config, c, p, P)
  BY Owned DEF TimerSet
<1>3. DOMAIN e = {"timer.direction", "timer.delay"}
  BY DEF ++, Entry
<1> HIDE DEF e, c, out
<1> QED BY <1>1, <1>2, <1>3 DEF Accepted, Apart, Renamed, RencNumbers

\* What the two pwm modes save and set.
PwmUpper(args) == IF Arg(args, 2, 0) = 0 THEN Unbounded ELSE args[2]
PwmEntries(lower, upper, speed) ==
  (IF speed > 0 THEN Entry("outputa.speed", speed) ELSE <<>>)
    ++ (IF lower > 0 THEN Entry("outputa.lower", lower) ELSE <<>>)
    ++ (IF upper < Unbounded THEN Entry("outputa.upper", upper) ELSE <<>>)
PwmShared(lower, upper) ==
  [kind |-> "pwm", lower |-> lower % BoundLimit, upper |-> upper % BoundLimit]
PwmSet(config, p, args) ==
  [config EXCEPT ![p].speed = Arg(args, 3, 0) % SpeedLimit,
                 ![p].shared = PwmShared(Arg(args, 1, 0), PwmUpper(args))]

LEMMA ModulatedIs ==
  ASSUME NEW config, NEW P, NEW p \in P, DOMAIN config = P, IsConfig(config[p]),
         NEW args, NEW llmode, NEW out, out = Modulated(p, config, args, llmode), out.ok
  PROVE  /\ Can(p, llmode) /\ Apart(out, config, p, P) /\ out.llmode = llmode
         /\ out.entries = PwmEntries(Arg(args, 1, 0), PwmUpper(args), Arg(args, 3, 0))
         /\ out.config = PwmSet(config, p, args)
<1> DEFINE e == PwmEntries(Arg(args, 1, 0), PwmUpper(args), Arg(args, 3, 0))
           c == PwmSet(config, p, args)
<1>1. Can(p, llmode) /\ out = Accepted(llmode, e, c)
  BY Zenon DEF Modulated, Refused, PwmEntries, PwmUpper, PwmShared, PwmSet
<1>2. OwnOnly(config, c, p, P)
  BY Owned DEF PwmSet
<1>3. DOMAIN e \subseteq {"outputa.speed", "outputa.lower", "outputa.upper"}
  BY DEF ++, Entry, PwmEntries
<1> HIDE DEF e, c
<1>4. Apart(out, config, p, P) /\ out.llmode = llmode /\ out.entries = e /\ out.config = c
  BY <1>1, <1>2, <1>3 DEF Accepted, Apart, Renamed, RencNumbers
<1> QED BY <1>1, <1>4, Zenon DEF e, c

LEMMA I2cIs ==
  ASSUME NEW config, NEW P, NEW p \in P, DOMAIN config = P, IsConfig(config[p]), NEW args
  PROVE  LET out == I2c(p, config, args)
         IN  out.ok =>
               /\ Can(p, "i2c") /\ Apart(out, config, p, P) /\ out.llmode = "i2c"
               /\ out.entries = Entry("i2c.pinmode", args[1])
               /\ out.config = SharedSet(config, p, [kind |-> "i2c", pin_mode |-> args[1]])
<1> DEFINE e == Entry("i2c.pinmode", args[1])
           c == SharedSet(config, p, [kind |-> "i2c", pin_mode |-> args[1]])
           out == I2c(p, config, args)
<1> SUFFICES ASSUME out.ok
             PROVE  /\ Can(p, "i2c") /\ Apart(out, config, p, P)
                    /\ out.llmode = "i2c" /\ out.entries = e /\ out.config = c
  OBVIOUS
<1>1. Can(p, "i2c") /\ out = Accepted("i2c", e, c)
  BY Zenon DEF I2c, Refused, SharedSet
<1>2. OwnOnly(config, c, p, P)
  BY Owned DEF SharedSet
<1>3. DOMAIN e = {"i2c.pinmode"}
  BY DEF Entry
<1> HIDE DEF e, c, out
<1> QED BY <1>1, <1>2, <1>3 DEF Accepted, Apart, Renamed, RencNumbers

LcdShared(use) == [kind |-> "lcd", pin_use |-> use]

LEMMA LcdIs ==
  ASSUME NEW config, NEW P, NEW p \in P, DOMAIN config = P, IsConfig(config[p]), NEW args
  PROVE  LET out == Lcd(p, config, args)
             use == Arg(args, 1, "")
         IN  out.ok =>
               /\ Apart(out, config, p, P) /\ out.llmode \in Outputs
               /\ out.entries = Entry("lcd.pin", use)
               /\ out.config = SharedSet(config, p, LcdShared(use))
<1> DEFINE use == Arg(args, 1, "")
           llmode == IF use = "bl" THEN Backlight(p) ELSE "output_digital"
           e == Entry("lcd.pin", use)
           c == SharedSet(config, p, LcdShared(use))
           out == Lcd(p, config, args)
<1> SUFFICES ASSUME out.ok
             PROVE  /\ Apart(out, config, p, P)
                    /\ out.llmode \in Outputs /\ out.entries = e /\ out.config = c
  OBVIOUS
<1>1. out = Accepted(llmode, e, c)
  BY Zenon DEF Lcd, Refused, SharedSet, LcdShared
<1>2. OwnOnly(config, c, p, P)
  BY Owned DEF SharedSet
<1>3. DOMAIN e = {"lcd.pin"}
  BY DEF Entry
<1>4. llmode \in Outputs
  BY DEF Backlight, Outputs
<1> HIDE DEF e, c, out, llmode
<1> QED BY <1>1, <1>2, <1>3, <1>4 DEF Accepted, Apart, Renamed, RencNumbers

LEMMA LedpixelIs ==
  ASSUME NEW config, NEW P, NEW p \in P, DOMAIN config = P, IsConfig(config[p])
  PROVE  LET out == LedpixelMode(p, config)
         IN  out.ok => /\ ~RefusedLedpixel(p) /\ Apart(out, config, p, P)
                       /\ out.llmode \in {"i2s", "uart"}
                       /\ out.entries = <<>> /\ out.config = config
<1>1. OwnOnly(config, config, p, P)
  BY Owned
<1>2. DOMAIN <<>> = {}
  OBVIOUS
<1> QED BY <1>1, <1>2 DEF LedpixelMode, Accepted, Refused, Apart

LEMMA DisableIs ==
  ASSUME NEW config, NEW P, NEW p \in P, DOMAIN config = P, IsConfig(config[p])
  PROVE  LET out == Disable(config)
         IN  /\ Apart(out, config, p, P) /\ out.llmode = "disabled"
             /\ out.entries = <<>> /\ out.config = config
<1>1. OwnOnly(config, config, p, P)
  BY Owned
<1>2. DOMAIN <<>> = {}
  OBVIOUS
<1> QED BY <1>1, <1>2 DEF Disable, Accepted, Apart

\* What mode trigger saves and sets.
FirstOf(args) == Target(args[2], args[3], args[1])
SecondOf(args) ==
  IF Complete(args, 4) THEN Target(args[5], args[6], args[4]) ELSE NoTrigger
TriggersSaved(a, b) ==
  TriggerEntries(a, "trigger.0.io", "trigger.0.pin", "trigger.0.type")
    ++ (IF b.action = "none" THEN <<>> ELSE
          TriggerEntries(b, "trigger.1.io", "trigger.1.pin", "trigger.1.type"))

LEMMA TriggerIs ==
  ASSUME NEW config, NEW P, NEW p \in P, DOMAIN config = P, IsConfig(config[p]), NEW args
  PROVE  LET out == Trigger(p, config, args)
             shared == Triggers(FirstOf(args), SecondOf(args))
         IN  out.ok =>
               /\ Can(p, "counter") /\ Complete(args, 1)
               /\ Apart(out, config, p, P) /\ out.llmode = "counter"
               /\ out.entries = TriggersSaved(FirstOf(args), SecondOf(args))
               /\ out.config = SharedSet(config, p, shared)
<1> DEFINE e == TriggersSaved(FirstOf(args), SecondOf(args))
           c == SharedSet(config, p, Triggers(FirstOf(args), SecondOf(args)))
           out == Trigger(p, config, args)
<1> SUFFICES ASSUME out.ok
             PROVE  /\ Can(p, "counter") /\ Complete(args, 1)
                    /\ Apart(out, config, p, P)
                    /\ out.llmode = "counter" /\ out.entries = e /\ out.config = c
  OBVIOUS
<1>1. Can(p, "counter") /\ Complete(args, 1) /\ out = Accepted("counter", e, c)
  BY Zenon DEF Trigger, Refused, FirstOf, SecondOf, TriggersSaved, SharedSet
<1>2. OwnOnly(config, c, p, P)
  BY Owned DEF SharedSet
<1>3. DOMAIN e \subseteq {"trigger.0.io", "trigger.0.pin", "trigger.0.type",
                          "trigger.1.io", "trigger.1.pin", "trigger.1.type"}
  BY DEF ++, Entry, TriggersSaved, TriggerEntries
<1> HIDE DEF e, c, out
<1> QED BY <1>1, <1>2, <1>3 DEF Accepted, Apart, Renamed, RencNumbers

(* ... and to another, the 'a' pin that a 'b' pin of an encoder has found. *)
EncoderA(p, config, args) == <<p[1], Smallest(Partners(p, config, Arg(args, 1, "")))>>

RencPaired(config, p, a, type) ==
  [config EXCEPT ![a].shared.partner = p[2], ![p].shared = Renc(type, a[2], config[a].shared)]

RotarySet(out, p, config, args) ==
  LET type == Arg(args, 1, "")
      own == RencTarget(args)
      a == EncoderA(p, config, args)
  IN  /\ Can(p, "rotary_encoder") /\ type \in RencPins /\ out.llmode = "counter"
      /\ ~IsB(type) => /\ out.entries = RencEntries(type, own)
                       /\ out.config = SharedSet(config, p, Renc(type, Partner(config[p]), own))
      /\ IsB(type) => /\ Partners(p, config, type) # {}
                      /\ out.entries = RencEntries(type, config[a].shared)
                      /\ out.config = RencPaired(config, p, a, type)

LEMMA RotaryIs ==
  ASSUME NEW p, NEW config, NEW args, RotaryEncoder(p, config, args).ok
  PROVE  RotarySet(RotaryEncoder(p, config, args), p, config, args)
<1> DEFINE type == Arg(args, 1, "")
           own == RencTarget(args)
           a == EncoderA(p, config, args)
           c1 == SharedSet(config, p, Renc(type, Partner(config[p]), own))
           c2 == RencPaired(config, p, a, type)
           out == RotaryEncoder(p, config, args)
<1> SUFFICES /\ Can(p, "rotary_encoder") /\ type \in RencPins /\ out.llmode = "counter"
             /\ ~IsB(type) => out.entries = RencEntries(type, own) /\ out.config = c1
             /\ IsB(type) => /\ Partners(p, config, type) # {}
                             /\ out.entries = RencEntries(type, config[a].shared)
                             /\ out.config = c2
  BY Zenon DEF RotarySet
<1>1. /\ Can(p, "rotary_encoder") /\ type \in RencPins
      /\ ~IsB(type) => out = Accepted("counter", RencEntries(type, own), c1)
      /\ IsB(type) => /\ Partners(p, config, type) # {}
                      /\ out = Accepted("counter", RencEntries(type, config[a].shared), c2)
  BY Zenon DEF RotaryEncoder, Refused, EncoderA, RencPaired, SharedSet
<1> HIDE DEF out, c1, c2, own, type, a
<1> QED BY <1>1 DEF Accepted

LEMMA RencEntriesNamed ==
  ASSUME NEW type, NEW t
  PROVE  DOMAIN RencEntries(type, t) \subseteq RencNumbers \cup {"renc.pintype"}
BY DEF RencEntries, RencNumbers, ++, Entry

(* What no command for p does: touch the mode or the flags of another pin, *)
(* or the suspension of any.                                               *)
Touched(config, new, p, P) ==
  /\ DOMAIN new = P
  /\ \A q \in P :
       /\ IsConfig(new[q]) /\ new[q].suspended = config[q].suspended
       /\ q # p => /\ new[q].mode = config[q].mode /\ new[q].llmode = config[q].llmode
                   /\ new[q].flags = config[q].flags

LEMMA RotaryTouches ==
  ASSUME NEW config, NEW P, NEW p \in P, DOMAIN config = P,
         \A q \in P : IsConfig(config[q]), NEW args
  PROVE  LET out == RotaryEncoder(p, config, args)
         IN  out.ok => /\ Touched(config, out.config, p, P) /\ out.llmode = "counter"
                       /\ DOMAIN out.entries \cap Renamed = {}
<1> DEFINE out == RotaryEncoder(p, config, args)
           type == Arg(args, 1, "")
           a == EncoderA(p, config, args)
<1> SUFFICES ASSUME out.ok
             PROVE  /\ Touched(config, out.config, p, P) /\ out.llmode = "counter"
                    /\ DOMAIN out.entries \cap Renamed = {}
  OBVIOUS
<1>0. RotarySet(out, p, config, args)
  BY RotaryIs
<1>1. CASE ~IsB(type)
  <2> DEFINE v == Renc(type, Partner(config[p]), RencTarget(args))
  <2>1. /\ out.llmode = "counter" /\ out.entries = RencEntries(type, RencTarget(args))
        /\ out.config = SharedSet(config, p, v)
    BY <1>0, <1>1, Zenon DEF RotarySet
  <2> DEFINE y == SharedSet(config, p, v)
  <2> HIDE DEF out, v
  <2>2. Touched(config, y, p, P)
    BY DEF Touched, IsConfig, SharedSet
  <2>4. DOMAIN RencEntries(type, RencTarget(args)) \subseteq RencNumbers \cup {"renc.pintype"}
    BY RencEntriesNamed
  <2>3. DOMAIN out.entries \cap Renamed = {}
    BY <2>1, <2>4 DEF Renamed, RencNumbers
  <2> HIDE DEF y
  <2> QED BY <2>1, <2>2, <2>3 DEF y
<1>2. CASE IsB(type)
  <2> DEFINE v == Renc(type, a[2], config[a].shared)
             u == [config[a].shared EXCEPT !.partner = p[2]]
             x == [config EXCEPT ![a].shared = u]
             y == [x EXCEPT ![p].shared = v]
  <2>1. /\ out.llmode = "counter" /\ out.entries = RencEntries(type, config[a].shared)
        /\ out.config = RencPaired(config, p, a, type)
    BY <1>0, <1>2, Zenon DEF RotarySet
  <2>2. out.config = y
    <3> HIDE DEF v, a
    <3> QED BY <2>1 DEF RencPaired, v
  <2> HIDE DEF out, v, u, a
  <2>3. Touched(config, x, p, P) /\ \A q \in P : x[q].mode = config[q].mode
    BY DEF Touched, IsConfig
  <2> HIDE DEF x
  <2>4. Touched(config, y, p, P)
    BY <2>3 DEF Touched, IsConfig
  <2>6. DOMAIN RencEntries(type, config[a].shared) \subseteq RencNumbers \cup {"renc.pintype"}
    BY RencEntriesNamed
  <2>5. DOMAIN out.entries \cap Renamed = {}
    BY <2>1, <2>6 DEF Renamed, RencNumbers
  <2> QED BY <2>1, <2>2, <2>4, <2>5
<1> QED BY <1>1, <1>2

LEMMA BranchTouches ==
  ASSUME NEW config, NEW P, NEW p \in P, DOMAIN config = P,
         \A q \in P : IsConfig(config[q]), NEW cmd, cmd.mode \in io_mode_traits
  PROVE  LET out == Branch(p, config, cmd)
         IN  out.ok => /\ Touched(config, out.config, p, P)
                       /\ DOMAIN out.entries \cap Renamed = {}
                       /\ cmd.mode \in DrivenModes => out.llmode \in Outputs
<1> DEFINE out == Branch(p, config, cmd)
           args == cmd.args
<1> SUFFICES ASSUME out.ok
             PROVE  /\ Touched(config, out.config, p, P)
                    /\ DOMAIN out.entries \cap Renamed = {}
                    /\ cmd.mode \in DrivenModes => out.llmode \in Outputs
  OBVIOUS
<1>1. CASE cmd.mode = "rotary_encoder"
  <2>1. out = RotaryEncoder(p, config, args)
    BY <1>1, BranchOf, Zenon
  <2> HIDE DEF out
  <2> QED BY <1>1, <2>1, RotaryTouches DEF DrivenModes, PwmModes
<1>2. CASE cmd.mode # "rotary_encoder"
  <2>1. Apart(out, config, p, P) /\ (cmd.mode \in DrivenModes => out.llmode \in Outputs)
    <3>1. CASE cmd.mode \in {"input_digital", "counter", "output_digital", "input_analog",
                             "uart", "cfa634", "spi", "pcint"}
      <4>1. \E cap, llmode : /\ out = Plain(p, config, cap, llmode)
                             /\ cmd.mode = "output_digital" => llmode = "output_digital"
        BY <3>1, BranchOf DEF InputDigital, Counter, OutputDigital, InputAnalog, Uart, Cfa634,
                              Spi, Pcint
      <4> HIDE DEF out
      <4> QED BY <3>1, <4>1, PlainIs DEF DrivenModes, PwmModes, Outputs
    <3>2. CASE cmd.mode = "trigger"
      <4>1. out = Trigger(p, config, args)
        BY <3>2, BranchOf, Zenon
      <4> HIDE DEF out
      <4> QED BY <3>2, <4>1, TriggerIs DEF DrivenModes, PwmModes
    <3>3. CASE cmd.mode = "timer"
      <4>1. out = Timer(p, config, args)
        BY <3>3, BranchOf, Zenon
      <4> HIDE DEF out
      <4> QED BY <3>3, <4>1, TimerIs DEF Outputs
    <3>4. CASE cmd.mode \in PwmModes
      <4>1. out = Modulated(p, config, args, cmd.mode)
        BY <3>4, BranchOf DEF OutputPwm1, OutputPwm2, PwmModes
      <4> HIDE DEF out
      <4>2. Apart(out, config, p, P) /\ out.llmode = cmd.mode
        <5>1. IsConfig(config[p]) /\ out.ok
          OBVIOUS
        <5>2. \A llmode : out = Modulated(p, config, args, llmode) =>
                            Apart(out, config, p, P) /\ out.llmode = llmode
          BY <5>1, ModulatedIs
        <5> QED BY <4>1, <5>2
      <4> QED BY <3>4, <4>2 DEF Outputs, PwmModes
    <3>5. CASE cmd.mode = "i2c"
      <4>1. out = I2c(p, config, args)
        BY <3>5, BranchOf, Zenon
      <4> HIDE DEF out
      <4> QED BY <3>5, <4>1, I2cIs DEF DrivenModes, PwmModes
    <3>6. CASE cmd.mode = "lcd"
      <4>1. out = Lcd(p, config, args)
        BY <3>6, BranchOf, Zenon
      <4> HIDE DEF out
      <4> QED BY <3>6, <4>1, LcdIs
    <3>7. CASE cmd.mode = "ledpixel"
      <4>1. out = LedpixelMode(p, config)
        BY <3>7, BranchOf, Zenon
      <4> HIDE DEF out
      <4> QED BY <3>7, <4>1, LedpixelIs DEF DrivenModes, PwmModes
    <3>8. CASE cmd.mode = "disabled"
      <4>1. out = Disable(config)
        BY <3>8, BranchOf, Zenon
      <4> HIDE DEF out
      <4> QED BY <3>8, <4>1, DisableIs DEF DrivenModes, PwmModes
    <3> QED BY <1>2, <3>1, <3>2, <3>3, <3>4, <3>5, <3>6, <3>7, <3>8
            DEF io_mode_traits, PwmModes
  <2> HIDE DEF out
  <2>2. Touched(config, out.config, p, P)
    BY <2>1 DEF Apart, OwnOnly, Touched
  <2> QED BY <2>1, <2>2 DEF Apart
<1> QED BY <1>1, <1>2
-----------------------------------------------------------------------------
(* What memory and flash look like at all times: each pin that is driven   *)
(* can be, here and after a restart.                                       *)
Fit(m, S) ==
  /\ Shape(m, DOMAIN S)
  /\ \A p \in DOMAIN S :
       /\ m.config[p].mode \in DrivenModes => m.config[p].llmode \in Outputs
       /\ StoredDriven(S[p])

(* ... and what the interrupts tell.                                       *)
Levels == [Pins -> {0, 1}]
Interrupts ==
  /\ world.contacts \subseteq Pins /\ contacts \in [world.contacts -> {0, 1}]
  /\ pending \subseteq world.contacts
  /\ latch # NoLatch => latch \in Levels
  /\ reports \in Seq([status : SUBSET world.contacts, level : Levels])

Core == SequencerInv /\ Pins = DOMAIN world.store /\ Fit(machine, store) /\ Interrupts

\* A pin that is set up anew, by a mode or a flag.
Reconfigured(m, w, P, p) ==
  /\ Shape(w, P) /\ w.data = m.data
  /\ \A q \in P :
       /\ w.config[q].suspended = m.config[q].suspended /\ w.out[q] \in {0, m.out[q]}
       /\ q # p => /\ w.config[q].mode = m.config[q].mode
                   /\ w.config[q].llmode = m.config[q].llmode
                   /\ w.config[q].flags = m.config[q].flags

LEMMA SetUpIs ==
  ASSUME NEW p, NEW config, Shape(machine, Pins), Touched(machine.config, config, p, Pins)
  PROVE  /\ Reconfigured(machine, SetUp(p, config), Pins, p)
         /\ SetUp(p, config).config = config
<1> DEFINE w == SetUp(p, config)
           off == [machine.out EXCEPT ![p] = 0]
<1>1. /\ DOMAIN w = DOMAIN machine /\ w.config = config /\ w.data = machine.data
      /\ w.out \in {off, machine.out}
  BY DEF SetUp, Shape
<1> HIDE DEF w
<1>2. DOMAIN w.out = Pins /\ \A q \in Pins : w.out[q] \in {0, machine.out[q]}
  BY <1>1 DEF Shape
<1>3. Shape(w, Pins)
  BY <1>1, <1>2 DEF Shape, Touched
<1> QED BY <1>1, <1>2, <1>3 DEF Reconfigured, Touched, w

Forced(cmd, out, p) == [out.config[p] EXCEPT !.mode = cmd.mode, !.llmode = out.llmode]

LEMMA ForcedIs ==
  ASSUME NEW p, NEW cmd, NEW out
  PROVE  LET c == Forced(cmd, out, p)
         IN  InForce(p, cmd, out)
               = [out.config EXCEPT ![p] = IF init_pin_mode(p, c) THEN c ELSE Off(c)]
BY Zenon DEF InForce, Off, Forced

LEMMA InForceIs ==
  ASSUME NEW config, NEW P, NEW p \in P, NEW cmd, NEW out, Touched(config, out.config, p, P)
  PROVE  LET new == InForce(p, cmd, out)
         IN  /\ Touched(config, new, p, P)
             /\ \/ new[p].mode = cmd.mode /\ new[p].llmode = out.llmode
                \/ new[p].mode = "disabled" /\ new[p].llmode = "disabled"
<1> DEFINE new == InForce(p, cmd, out)
           c == Forced(cmd, out, p)
           d == IF init_pin_mode(p, c) THEN c ELSE Off(c)
<1>1. new = [out.config EXCEPT ![p] = d]
  BY ForcedIs, Zenon
<1>2. /\ IsConfig(c) /\ c.suspended = out.config[p].suspended
      /\ c.mode = cmd.mode /\ c.llmode = out.llmode
  BY DEF Touched, IsConfig, Forced
<1> HIDE DEF c
<1>3. /\ IsConfig(Off(c)) /\ Off(c).suspended = c.suspended
      /\ Off(c).mode = "disabled" /\ Off(c).llmode = "disabled"
  BY <1>2 DEF Off, IsConfig
<1>4. /\ IsConfig(d) /\ d.suspended = out.config[p].suspended
      /\ d \in {c, Off(c)}
  BY <1>2, <1>3
<1> HIDE DEF d, new
<1>5. Touched(config, new, p, P) /\ new[p] = d
  BY <1>1, <1>4 DEF Touched
<1> QED BY <1>2, <1>3, <1>4, <1>5, Zenon DEF new

(* What flash is given by a mode, and by a flag.                           *)
LEMMA SavedIs ==
  ASSUME NEW cmd, NEW out
  PROVE  /\ cmd.mode = "disabled" => Saved(cmd, out) = <<>>
         /\ cmd.mode # "disabled" =>
              LET e == Saved(cmd, out)
              IN  /\ DOMAIN e = {"mode", "llmode"} \cup DOMAIN out.entries
                  /\ e["mode"] = cmd.mode /\ e["llmode"] = out.llmode
                  /\ \A n \in DOMAIN out.entries \ {"mode", "llmode"} : e[n] = out.entries[n]
<1>1. CASE cmd.mode = "disabled"
  BY <1>1 DEF Saved
<1>2. CASE cmd.mode # "disabled"
  <2> DEFINE f == Entry("mode", cmd.mode) ++ Entry("llmode", out.llmode)
             e == f ++ out.entries
  <2>1. Saved(cmd, out) = e
    BY <1>2, Zenon DEF Saved
  <2>2. DOMAIN f = {"mode", "llmode"} /\ f["mode"] = cmd.mode /\ f["llmode"] = out.llmode
    BY DEF ++, Entry
  <2> HIDE DEF f
  <2>3. /\ DOMAIN e = {"mode", "llmode"} \cup DOMAIN out.entries
        /\ \A n \in DOMAIN e : e[n] = IF n \in DOMAIN f THEN f[n] ELSE out.entries[n]
    BY <2>2 DEF ++
  <2> HIDE DEF e
  <2> QED BY <1>2, <2>1, <2>2, <2>3
<1> QED BY <1>1, <1>2

LEMMA ModeSets ==
  ASSUME Core, io_mode
  PROVE  \E cmd \in world.modes :
           /\ cmd.pin \in Pins
           /\ Reconfigured(machine, machine', Pins, cmd.pin)
           /\ Fit(machine', store') /\ DOMAIN store' = Pins
           /\ history'.falls = history.falls /\ history'.slips = history.slips
           /\ history.remade \subseteq history'.remade
           /\ machine.config[cmd.pin].suspended => cmd.pin \in history'.remade
<1>1. PICK cmd \in world.modes :
        LET p == cmd.pin
            out == Branch(p, machine.config, cmd)
        IN  /\ out.ok
            /\ machine' = SetUp(p, InForce(p, cmd, out))
            /\ Save(p, Saved(cmd, out),
                    [history EXCEPT
                       !.unsaved = @ \ {p},
                       !.remade = IF machine.config[p].suspended THEN @ \cup {p} ELSE @])
  BY DEF io_mode
<1> DEFINE p == cmd.pin
           out == Branch(p, machine.config, cmd)
           new == InForce(p, cmd, out)
           after == [history EXCEPT
                       !.unsaved = @ \ {p},
                       !.remade = IF machine.config[p].suspended THEN @ \cup {p} ELSE @]
           e == Saved(cmd, out)
<1>2. p \in Pins /\ cmd.mode \in io_mode_traits
  <2>1. world \in Worlds
    BY DEF Core, SequencerInv, Records
  <2> QED BY <2>1, IoAssumption DEF Core, SequencerInv, Given
<1>3. Shape(machine, Pins) /\ \A q \in Pins : IsConfig(machine.config[q])
  BY DEF Core, Fit, Shape, Pins
<1>4. out.ok /\ machine' = SetUp(p, new) /\ Save(p, e, after) /\ world' = world
      /\ sequencer' = sequencer
  BY <1>1 DEF io_mode, Elsewhere, NoSequencer
<1> HIDE DEF p
<1>5. /\ Touched(machine.config, out.config, p, Pins)
      /\ cmd.mode \in DrivenModes => out.llmode \in Outputs
  <2>1. DOMAIN machine.config = Pins
    BY <1>3 DEF Shape
  <2> HIDE DEF Pins
  <2> QED BY <1>2, <1>3, <1>4, <2>1, BranchTouches
<1> HIDE DEF out
<1>6. /\ Touched(machine.config, new, p, Pins)
      /\ \/ new[p].mode = cmd.mode /\ new[p].llmode = out.llmode
         \/ new[p].mode = "disabled" /\ new[p].llmode = "disabled"
  BY <1>2, <1>5, InForceIs
<1> HIDE DEF new
<1>7. Reconfigured(machine, machine', Pins, p) /\ machine'.config = new
  BY <1>3, <1>4, <1>6, SetUpIs
<1>8. StoredDriven(e)
  <2>1. CASE cmd.mode = "disabled"
    <3>1. e = <<>>
      BY <2>1, SavedIs, Zenon
    <3>2. DOMAIN <<>> = {}
      OBVIOUS
    <3> HIDE DEF e
    <3> QED BY <3>1, <3>2 DEF StoredDriven, Has
  <2>2. CASE cmd.mode # "disabled"
    <3>1. e["mode"] = cmd.mode /\ e["llmode"] = out.llmode
      BY <2>2, SavedIs
    <3> HIDE DEF e
    <3> QED BY <1>5, <3>1 DEF StoredDriven
  <2> QED BY <2>1, <2>2
<1> HIDE DEF e
<1>9. DOMAIN store' = Pins /\ \A q \in Pins : store'[q] \in {store[q], e}
  BY <1>4 DEF Save, Pins
<1>10. Fit(machine', store')
  <2>1. Shape(machine', Pins)
    BY <1>7 DEF Reconfigured
  <2>2. "disabled" \notin DrivenModes
    BY DEF DrivenModes, PwmModes
  <2>3. ASSUME NEW q \in Pins, machine'.config[q].mode \in DrivenModes
        PROVE  machine'.config[q].llmode \in Outputs
    BY <1>5, <1>6, <1>7, <2>2, <2>3 DEF Reconfigured, Core, Fit, Pins
  <2>4. ASSUME NEW q \in Pins PROVE StoredDriven(store'[q])
    BY <1>8, <1>9 DEF Core, Fit, Pins
  <2> QED BY <1>9, <2>1, <2>3, <2>4 DEF Fit
<1>11. /\ DOMAIN after = DOMAIN history /\ after.falls = history.falls
       /\ after.slips = history.slips
       /\ after.remade = IF machine.config[p].suspended THEN history.remade \cup {p}
                         ELSE history.remade
  BY DEF Core, SequencerInv, Records
<1> HIDE DEF after
<1>12. /\ DOMAIN history' = DOMAIN history /\ history'.falls = history.falls
       /\ history'.slips = history.slips /\ history'.remade = after.remade
  BY <1>4, <1>11 DEF Save, Core, SequencerInv, Records
<1> QED BY <1>2, <1>7, <1>9, <1>10, <1>11, <1>12 DEF p

LEMMA FlagSets ==
  ASSUME Core, io_flag
  PROVE  \E cmd \in world.flags :
           /\ cmd.pin \in Pins
           /\ Reconfigured(machine, machine', Pins, cmd.pin)
           /\ machine'.config[cmd.pin].mode = machine.config[cmd.pin].mode
           /\ Fit(machine', store') /\ DOMAIN store' = Pins
           /\ history'.falls = history.falls /\ history'.slips = history.slips
           /\ history'.remade = history.remade
<1>1. PICK cmd \in world.flags :
        LET p == cmd.pin
            flags == IF cmd.on THEN machine.config[p].flags \cup {cmd.flag}
                     ELSE machine.config[p].flags \ {cmd.flag}
            config == [machine.config EXCEPT ![p].flags = flags]
        IN  /\ machine' = SetUp(p, config)
            /\ Save(p, Entry("flags", flags) ++ store[p], history)
  BY DEF io_flag
<1> DEFINE p == cmd.pin
           flags == IF cmd.on THEN machine.config[p].flags \cup {cmd.flag}
                    ELSE machine.config[p].flags \ {cmd.flag}
           config == [machine.config EXCEPT ![p].flags = flags]
           e == Entry("flags", flags) ++ store[p]
<1>2. p \in Pins
  <2>1. world \in Worlds
    BY DEF Core, SequencerInv, Records
  <2> QED BY <2>1, IoAssumption DEF Core, SequencerInv
<1>3. Shape(machine, Pins)
  BY DEF Core, Fit, Pins
<1>4. /\ machine' = SetUp(p, config) /\ Save(p, e, history)
      /\ world' = world /\ sequencer' = sequencer
  BY <1>1 DEF io_flag, Elsewhere, NoSequencer
<1> HIDE DEF p, flags
<1>5. Touched(machine.config, config, p, Pins)
  BY <1>3 DEF Touched, Shape, IsConfig
<1>6. config[p].mode = machine.config[p].mode /\ config[p].llmode = machine.config[p].llmode
  BY <1>2, <1>3 DEF Shape, IsConfig
<1> HIDE DEF config
<1>7. Reconfigured(machine, machine', Pins, p) /\ machine'.config = config
  BY <1>3, <1>4, <1>5, SetUpIs
<1>8. StoredDriven(e)
  <2>1. StoredDriven(store[p])
    BY <1>2 DEF Core, Fit, Pins
  <2>2. /\ DOMAIN e = {"flags"} \cup DOMAIN store[p]
        /\ \A n \in DOMAIN e \ {"flags"} : e[n] = store[p][n]
    BY DEF ++, Entry
  <2> HIDE DEF e
  <2>3. Has(e, {"mode", "llmode"}) =>
          /\ Has(store[p], {"mode", "llmode"})
          /\ e["mode"] = store[p]["mode"] /\ e["llmode"] = store[p]["llmode"]
    BY <2>2 DEF Has
  <2> QED BY <2>1, <2>3 DEF StoredDriven
<1> HIDE DEF e
<1>9. DOMAIN store' = Pins /\ \A q \in Pins : store'[q] \in {store[q], e}
  BY <1>4 DEF Save, Pins
<1>10. Fit(machine', store')
  <2>1. Shape(machine', Pins)
    BY <1>7 DEF Reconfigured
  <2>3. ASSUME NEW q \in Pins, machine'.config[q].mode \in DrivenModes
        PROVE  machine'.config[q].llmode \in Outputs
    BY <1>6, <1>7, <2>3 DEF Reconfigured, Core, Fit, Pins
  <2>4. ASSUME NEW q \in Pins PROVE StoredDriven(store'[q])
    BY <1>8, <1>9 DEF Core, Fit, Pins
  <2> QED BY <1>9, <2>1, <2>3, <2>4 DEF Fit
<1>12. /\ DOMAIN history' = DOMAIN history /\ history'.falls = history.falls
       /\ history'.slips = history.slips /\ history'.remade = history.remade
  BY <1>4 DEF Save, Core, SequencerInv, Records
<1> QED BY <1>2, <1>6, <1>7, <1>9, <1>10, <1>12 DEF p

(* What a pin is switched off by before it is suspended.                   *)
LEMMA QuietIs ==
  ASSUME NEW m, NEW P, NEW p \in P, Shape(m, P), p = <<p[1], p[2]>>
  PROVE  LET w == Quiet(m, p)
         IN  /\ Kept(m, w, P, {p})
             /\ /\ ~m.config[p].suspended /\ m.config[p].mode \in DrivenModes
                /\ m.config[p].llmode \in Outputs
                => /\ w.out[p] = 0
                   /\ m.config[p].mode \in PwmModes \cup {"timer"}
                        => w.data[p].direction = "none"
<1> DEFINE w1 == io_trigger_pin(m, p, "stop")
           w2 == io_trigger_pin(w1, p, "off")
           w3 == WritePin(w2, p, 0).machine
<1>1. Quiet(m, p) = w3
  BY DEF Quiet
<1>2. Kept(m, w1, P, {})
  BY TriggerKeeps
<1> HIDE DEF w1
<1>3. Shape(w1, P) /\ w1.config = m.config
  BY <1>2 DEF Kept
<1>4. Kept(w1, w2, P, {})
  BY <1>3, TriggerKeeps
<1>5. ASSUME ~m.config[p].suspended, m.config[p].mode \in PwmModes \cup {"timer"},
             m.config[p].llmode \in Outputs
      PROVE  w2.data[p].direction = "none"
  <2>1. w2 = TriggerMode(w1, p, "off").machine
    BY <1>3, <1>5, TriggerSingle DEF PwmModes
  <2>2. CASE m.config[p].mode = "timer"
    <3>1. TriggerMode(w1, p, "off") = TriggerTimer(w1, p, "off")
      BY <1>3, <2>2 DEF TriggerMode, PwmModes
    <3> HIDE DEF w2
    <3> QED BY <1>3, <1>5, <2>1, <3>1, TimerKeeps
  <2>3. CASE m.config[p].mode \in PwmModes
    <3>1. TriggerMode(w1, p, "off") = TriggerPwm(w1, p, "off")
      BY <1>3, <2>3 DEF TriggerMode, PwmModes
    <3> HIDE DEF w2
    <3> QED BY <1>3, <1>5, <2>1, <3>1, PwmKeeps
  <2> QED BY <1>5, <2>2, <2>3
<1> HIDE DEF w2
<1>6. Shape(w2, P) /\ w2.config = m.config
  BY <1>3, <1>4 DEF Kept
<1>7. Kept(w2, w3, P, {p})
  BY <1>6, WriteKeeps
<1>8. ASSUME ~m.config[p].suspended, m.config[p].mode \in DrivenModes,
             m.config[p].llmode \in Outputs
      PROVE  w3.out[p] = 0 /\ w3.data = w2.data
  <2>1. w3 = DeviceWrite(w2, p, 0).machine
    BY <1>6, <1>8 DEF WritePin, DrivenModes, PwmModes, CountedModes
  <2>2. Clipped(m.config[p].llmode, 0) = 0
    BY DEF Clipped, MaxValue
  <2> HIDE DEF w3
  <2> QED BY <1>6, <1>8, <2>1, <2>2, DeviceKeeps
<1> HIDE DEF w3
<1>9. Kept(m, w3, P, {p})
  <2>1. Kept(m, w2, P, {})
    BY <1>2, <1>4, KeptTransitive
  <2>2. Kept(m, w2, P, {p})
    BY <2>1, KeptMore
  <2> QED BY <1>7, <2>2, KeptTransitive
<1>10. PwmModes \cup {"timer"} \subseteq DrivenModes
  BY DEF DrivenModes
<1> QED BY <1>1, <1>5, <1>8, <1>9, <1>10

LEMMA Pinned ==
  ASSUME Core
  PROVE  /\ \A p \in Pins : p = <<p[1], p[2]>>
         /\ Shape(machine, Pins) /\ DOMAIN machine.config = Pins
         /\ world \in Worlds /\ world.suspends \cup world.reads \subseteq Pins
         /\ \A p \in world.contacts : p[1] = Gpio /\ p[2] \in 0 .. 15
         /\ \A cmd \in world.modes \cup world.flags \cup world.triggers \cup world.writes :
              cmd.pin \in Pins
         /\ \A i \in DOMAIN world.program : world.program[i].pin \in Pins
<1>1. world \in Worlds /\ Pins = DOMAIN world.store
  BY DEF Core, SequencerInv, Records
<1>2. /\ Pins \subseteq AllPins
      /\ world.suspends \cup world.reads \cup world.contacts \subseteq Pins
      /\ \A p \in world.contacts : p[1] = Gpio
      /\ \A cmd \in world.modes \cup world.flags \cup world.triggers \cup world.writes :
           cmd.pin \in Pins
      /\ \A i \in DOMAIN world.program : world.program[i].pin \in Pins
  BY <1>1, IoAssumption
<1>3. \A p \in AllPins : p = <<p[1], p[2]>> /\ p[2] \in Nat /\ p[2] < NumberOfPins(p[1])
  BY DEF AllPins
<1>4. NumberOfPins(Gpio) = 16
  BY DEF NumberOfPins, io_info, io_info_entry_gpio, Gpio
<1>5. Shape(machine, Pins)
  BY DEF Core, Fit, Pins
<1>6. ASSUME NEW p \in world.contacts PROVE p[2] \in 0 .. 15
  BY <1>2, <1>3, <1>4
<1> QED BY <1>1, <1>2, <1>3, <1>5, <1>6 DEF Shape

LEMMA SuspendSets ==
  ASSUME Core, NEW p \in Pins,
         machine' = [Quiet(machine, p) EXCEPT !.config[p].suspended = TRUE]
  PROVE  LET w == Quiet(machine, p)
         IN  /\ Shape(machine', Pins) /\ machine'.out = w.out /\ machine'.data = w.data
             /\ \A q \in Pins :
                  /\ machine'.config[q].mode = machine.config[q].mode
                  /\ machine'.config[q].llmode = machine.config[q].llmode
                  /\ machine'.config[q].flags = machine.config[q].flags
                  /\ q # p => machine'.config[q].suspended = machine.config[q].suspended
<1> DEFINE w == Quiet(machine, p)
           c == [w.config[p] EXCEPT !.suspended = TRUE]
<1>1. Shape(w, Pins) /\ w.config = machine.config
  BY Pinned, QuietIs DEF Kept
<1> HIDE DEF w
<1>2. /\ DOMAIN machine' = DOMAIN w /\ machine'.out = w.out /\ machine'.data = w.data
      /\ machine'.config = [w.config EXCEPT ![p] = c]
  BY <1>1 DEF Shape, w
<1>3. /\ IsConfig(c) /\ c.mode = w.config[p].mode /\ c.llmode = w.config[p].llmode
      /\ c.flags = w.config[p].flags
  BY <1>1 DEF Shape, IsConfig
<1> HIDE DEF c
<1>4. Shape(machine', Pins)
  BY <1>1, <1>2, <1>3 DEF Shape
<1>5. \A q \in Pins : /\ machine'.config[q].mode = machine.config[q].mode
                      /\ machine'.config[q].llmode = machine.config[q].llmode
                      /\ machine'.config[q].flags = machine.config[q].flags
                      /\ q # p => machine'.config[q].suspended = machine.config[q].suspended
  BY <1>1, <1>2, <1>3 DEF Shape
<1> QED BY <1>2, <1>4, <1>5 DEF w

LEMMA ResumeSets ==
  ASSUME Core, NEW p \in Pins, machine' = [machine EXCEPT !.config[p].suspended = FALSE]
  PROVE  /\ Shape(machine', Pins)
         /\ machine'.out = machine.out /\ machine'.data = machine.data
         /\ \A q \in Pins :
              /\ machine'.config[q].mode = machine.config[q].mode
              /\ machine'.config[q].llmode = machine.config[q].llmode
              /\ machine'.config[q].flags = machine.config[q].flags
              /\ machine'.config[q].suspended = IF q = p THEN FALSE
                                                ELSE machine.config[q].suspended
<1> DEFINE c == [machine.config[p] EXCEPT !.suspended = FALSE]
<1>1. Shape(machine, Pins)
  BY Pinned
<1>2. /\ DOMAIN machine' = DOMAIN machine
      /\ machine'.out = machine.out /\ machine'.data = machine.data
      /\ machine'.config = [machine.config EXCEPT ![p] = c]
  BY <1>1 DEF Shape
<1>3. /\ IsConfig(c) /\ c.mode = machine.config[p].mode
      /\ c.llmode = machine.config[p].llmode
      /\ c.flags = machine.config[p].flags /\ c.suspended = FALSE
  BY <1>1 DEF Shape, IsConfig
<1> HIDE DEF c
<1>4. Shape(machine', Pins)
  BY <1>1, <1>2, <1>3 DEF Shape
<1> QED BY <1>1, <1>2, <1>3, <1>4 DEF Shape

(* The pins whose counts somebody may write, and what leaves the others.   *)
PutPins ==
  {w.pin : w \in world.writes} \cup {p \in world.reads : Flagged(machine, p, "reset-on-read")}
    \cup {world.program[i].pin : i \in DOMAIN world.program}

LEMMA CommandsKeep ==
  ASSUME Core, io_trigger \/ io_write \/ io_read \/ sequencer_run
  PROVE  Kept(machine, machine', Pins, PutPins)
<1>0. Shape(machine, Pins) /\ Kept(machine, machine, Pins, PutPins)
  BY Pinned, KeptSelf
<1>1. CASE io_trigger
  <2>1. PICK t \in world.triggers : machine' = io_trigger_pin(machine, t.pin, t.action)
    BY <1>1 DEF io_trigger, Commanded
  <2>2. Kept(machine, machine', Pins, {})
    BY <1>0, <2>1, TriggerKeeps
  <2> QED BY <2>2, KeptMore
<1>2. CASE io_write
  <2>1. PICK w \in world.writes : machine' = WritePin(machine, w.pin, w.value).machine
    BY <1>2 DEF io_write, Commanded
  <2>2. w.pin \in Pins /\ {w.pin} \subseteq PutPins
    BY Pinned DEF PutPins
  <2>3. Kept(machine, machine', Pins, {w.pin})
    BY <1>0, <2>1, <2>2, WriteKeeps
  <2> QED BY <2>2, <2>3, KeptMore
<1>3. CASE io_read
  <2>1. PICK p \in world.reads : machine' = ReadPin(machine, p).machine
    BY <1>3 DEF io_read, Commanded
  <2>2. p \in Pins
    BY Pinned
  <2>3. CASE Flagged(machine, p, "reset-on-read")
    <3>1. {p} \subseteq PutPins
      BY <2>3 DEF PutPins
    <3>2. machine' \in {machine, WritePin(machine, p, 0).machine}
      BY <2>1 DEF ReadPin, Good
    <3>3. Kept(machine, WritePin(machine, p, 0).machine, Pins, {p})
      BY <1>0, <2>2, WriteKeeps
    <3>4. Kept(machine, WritePin(machine, p, 0).machine, Pins, PutPins)
      BY <3>1, <3>3, KeptMore
    <3> QED BY <1>0, <3>2, <3>4
  <2>4. CASE ~Flagged(machine, p, "reset-on-read")
    <3>1. machine' = machine
      BY <2>1, <2>4 DEF ReadPin, Good
    <3> QED BY <1>0, <3>1
  <2> QED BY <2>3, <2>4
<1>4. CASE sequencer_run
  <2>1. machine' = machine \/ \E i, r : Active(i) /\ Playing(i, r)
    BY <1>4, Zenon DEF sequencer_run
  <2>2. ASSUME NEW i, NEW r, Active(i), Playing(i, r)
        PROVE  Kept(machine, machine', Pins, PutPins)
    <3> DEFINE p == world.program[i + 1].pin
    <3>1. p \in Pins /\ {p} \subseteq PutPins
      BY <2>2, Pinned DEF Active, PutPins
    <3>2. \E v : machine' = WritePin(machine, p, v).machine
      BY <2>2 DEF Playing
    <3> HIDE DEF p
    <3>3. Kept(machine, machine', Pins, {p})
      BY <1>0, <3>1, <3>2, WriteKeeps
    <3> QED BY <3>1, <3>3, KeptMore
  <2> QED BY <1>0, <2>1, <2>2
<1> QED BY <1>1, <1>2, <1>3, <1>4

LEMMA KeptFits ==
  ASSUME NEW m, NEW w, NEW S, NEW V, Fit(m, S), Kept(m, w, DOMAIN S, V)
  PROVE  Fit(w, S)
BY DEF Fit, Kept

LEMMA BootedFits ==
  ASSUME NEW S, \A p \in DOMAIN S : StoredDriven(S[p]) PROVE Fit(Booted(S), S)
BY BootedIs, RestoredIs DEF Fit

\* The interrupts' own steps, and the task they post.
LEMMA InterruptsStep ==
  ASSUME Core, Edge \/ pc_int_read \/ pc_int_report \/ io_gpio_pins_changed
  PROVE  Interrupts' /\ store' = store /\ world' = world /\ history'.remade = history.remade
<1> DEFINE Report == [status : SUBSET world.contacts, level : Levels]
<1>0. /\ contacts \in [world.contacts -> {0, 1}] /\ pending \subseteq world.contacts
      /\ latch # NoLatch => latch \in Levels
      /\ reports \in Seq(Report) /\ world.contacts \subseteq Pins
      /\ {"remade", "falls", "turns", "slips", "together"} \subseteq DOMAIN history
  BY DEF Core, Interrupts, SequencerInv, Records
<1>1. CASE Edge
  <2>1. PICK p \in world.contacts :
          /\ contacts' = [contacts EXCEPT ![p] = 1 - @] /\ pending' = pending \cup {p}
          /\ history' = [history EXCEPT
               !.falls[p] = @ + contacts[p],
               !.turns = @ + Turned(contacts'),
               !.slips = IF p \in pending \/ latch # NoLatch THEN @ + 1 ELSE @]
    BY <1>1 DEF Edge
  <2>2. store' = store /\ world' = world /\ latch' = latch /\ reports' = reports
    BY <1>1 DEF Edge
  <2>3. contacts' \in [world.contacts -> {0, 1}] /\ pending' \subseteq world.contacts
    <3>1. 1 - contacts[p] \in {0, 1}
      BY <1>0
    <3> QED BY <1>0, <2>1, <3>1
  <2>4. history'.remade = history.remade
    BY <2>1
  <2> QED BY <1>0, <2>2, <2>3, <2>4 DEF Interrupts, Levels, Pins
<1>2. CASE pc_int_read
  <2>1. /\ store' = store /\ world' = world /\ history' = history /\ contacts' = contacts
        /\ pending' = pending /\ reports' = reports /\ latch' = Level(contacts)
    BY <1>2 DEF pc_int_read
  <2>2. Level(contacts) \in Levels
    BY <1>0 DEF Level, Levels
  <2> QED BY <1>0, <2>1, <2>2 DEF Interrupts, Levels, Pins
<1>3. CASE pc_int_report
  <2> DEFINE r == [status |-> pending, level |-> latch]
  <2>1. /\ store' = store /\ world' = world /\ contacts' = contacts
        /\ pending' = {} /\ latch' = NoLatch /\ reports' \in {reports, Append(reports, r)}
    BY <1>3 DEF pc_int_report, Elsewhere
  <2>2. r \in Report
    BY <1>0, <1>3 DEF pc_int_report
  <2>3. Append(reports, r) \in Seq(Report)
    <3> HIDE DEF r, Report
    <3> QED BY <1>0, <2>2
  <2>4. history'.remade = history.remade
    BY <1>0, <1>3 DEF pc_int_report
  <2> HIDE DEF r
  <2> QED BY <1>0, <2>1, <2>3, <2>4 DEF Interrupts, Levels, Pins
<1>4. CASE io_gpio_pins_changed
  <2>1. /\ store' = store /\ world' = world /\ history' = history /\ contacts' = contacts
        /\ pending' = pending /\ latch' = latch /\ reports' = Tail(reports)
        /\ reports # <<>>
    BY <1>4 DEF io_gpio_pins_changed
  <2>2. Tail(reports) \in Seq(Report)
    <3> HIDE DEF Report
    <3> QED BY <1>0, <2>1
  <2> QED BY <1>0, <2>1, <2>2 DEF Interrupts, Levels, Pins
<1> QED BY <1>1, <1>2, <1>3, <1>4

LEMMA CoreSame ==
  ASSUME Core, SequencerInv', Fit(machine', store'), DOMAIN store' = Pins, world' = world,
         contacts' = contacts, pending' = pending, latch' = latch, reports' = reports
  PROVE  Core'
<1>1. Levels' = Levels /\ Pins' = Pins
  BY DEF Levels, Pins
<1> QED BY <1>1 DEF Core, Interrupts

LEMMA ReportsIn ==
  ASSUME Core, reports # <<>>
  PROVE  Head(reports).status \subseteq Pins /\ Head(reports).level \in Levels
<1> DEFINE Report == [status : SUBSET world.contacts, level : Levels]
<1>1. reports \in Seq(Report) /\ world.contacts \subseteq Pins
  BY DEF Core, Interrupts
<1>2. Head(reports) \in Report
  <2> HIDE DEF Report
  <2> QED BY <1>1
<1> QED BY <1>1, <1>2

\* What a change of the inputs is to the machine.
LEMMA ReportKeeps ==
  ASSUME Core, io_gpio_pins_changed
  PROVE  Kept(machine, machine', Pins, Pins)
<1>1. /\ reports # <<>>
      /\ machine' = PinsChanged(machine, Head(reports).status, Head(reports).level, world.alert)
  BY DEF io_gpio_pins_changed
<1>2. Shape(machine, Pins) /\ Head(reports).status \subseteq Pins
  BY <1>1, Pinned, ReportsIn
<1> QED BY <1>1, <1>2, PinsKeep DEF Kept

LEMMA CoreStep == Core /\ [Next]_vars => Core'
<1> SUFFICES ASSUME Core, [Next]_vars PROVE Core'
  OBVIOUS
<1>0. SequencerInv' /\ Shape(machine, Pins) /\ Fit(machine, store)
  BY SequencerStep, Pinned DEF Core
<1>1. CASE UNCHANGED vars
  BY <1>0, <1>1, CoreSame DEF vars, Core, Pins
<1>2. CASE io_mode
  BY <1>0, <1>2, ModeSets, CoreSame DEF io_mode, Elsewhere
<1>3. CASE io_flag
  BY <1>0, <1>3, FlagSets, CoreSame DEF io_flag, Elsewhere
<1>4. ASSUME store' = store, world' = world, contacts' = contacts, pending' = pending,
             latch' = latch, reports' = reports, Fit(machine', store)
      PROVE  Core'
  <2>1. Fit(machine', store') /\ DOMAIN store' = Pins
    BY <1>4 DEF Pins
  <2> QED BY <1>0, <1>4, <2>1, CoreSame
<1>5. CASE io_trigger \/ io_write \/ io_read \/ sequencer_run
  <2>1. Kept(machine, machine', Pins, PutPins)
    BY <1>5, CommandsKeep
  <2>2. Fit(machine', store)
    BY <1>0, <2>1, KeptFits DEF Pins
  <2> QED BY <1>4, <1>5, <2>2 DEF io_trigger, io_write, io_read, sequencer_run, Commanded,
                                  NoSave, Elsewhere
<1>6. CASE io_suspend
  <2>1. PICK p \in world.suspends :
          Commanded([Quiet(machine, p) EXCEPT !.config[p].suspended = TRUE])
    BY <1>6 DEF io_suspend
  <2>2. p \in Pins /\ machine' = [Quiet(machine, p) EXCEPT !.config[p].suspended = TRUE]
    BY <2>1, Pinned DEF Commanded
  <2>3. Fit(machine', store)
    BY <1>0, <2>2, SuspendSets DEF Fit, Pins
  <2> QED BY <1>4, <2>1, <2>3 DEF Commanded, NoSave, Elsewhere
<1>7. CASE io_resume
  <2>1. PICK p \in world.suspends : Commanded([machine EXCEPT !.config[p].suspended = FALSE])
    BY <1>7 DEF io_resume
  <2>2. p \in Pins /\ machine' = [machine EXCEPT !.config[p].suspended = FALSE]
    BY <2>1, Pinned DEF Commanded
  <2>3. Fit(machine', store)
    BY <1>0, <2>2, ResumeSets DEF Fit, Pins
  <2> QED BY <1>4, <2>1, <2>3 DEF Commanded, NoSave, Elsewhere
<1>8. CASE sequencer_start \/ sequencer_stop
  BY <1>0, <1>4, <1>8 DEF sequencer_start, sequencer_stop, NoSave, Elsewhere
<1>9. CASE io_periodic_fast
  <2>1. Shape(machine', Pins) /\ machine'.config = machine.config
    BY <1>0, <1>9, TickedIs DEF io_periodic_fast
  <2>2. Fit(machine', store)
    BY <1>0, <2>1 DEF Fit, Pins
  <2> QED BY <1>4, <1>9, <2>2 DEF io_periodic_fast, Elsewhere
<1>10. CASE Edge \/ pc_int_read \/ pc_int_report \/ io_gpio_pins_changed
  <2>1. Interrupts' /\ store' = store /\ world' = world
    BY <1>10, InterruptsStep
  <2>2. Fit(machine', store)
    <3>1. CASE io_gpio_pins_changed
      <4>1. Kept(machine, machine', Pins, Pins)
        BY <3>1, ReportKeeps
      <4> QED BY <1>0, <4>1, KeptFits DEF Pins
    <3>2. CASE Edge \/ pc_int_read \/ pc_int_report
      <4>1. machine' = machine
        BY <3>2 DEF Edge, pc_int_read, pc_int_report, Elsewhere
      <4> QED BY <1>0, <4>1
    <3> QED BY <1>10, <3>1, <3>2
  <2> QED BY <1>0, <2>1, <2>2 DEF Core, Pins
<1>11. CASE Reboot
  <2>1. /\ machine' = Booted(store) /\ pending' = {} /\ latch' = NoLatch /\ reports' = <<>>
        /\ world' = world /\ store' = store /\ contacts' = contacts
    BY <1>11 DEF Reboot
  <2>2. Fit(machine', store)
    BY <1>0, <2>1, BootedFits DEF Fit
  <2>3. Interrupts'
    BY <2>1 DEF Core, Interrupts, Levels, Pins
  <2> QED BY <1>0, <2>1, <2>2, <2>3 DEF Core, Pins
<1> QED BY <1>1, <1>2, <1>3, <1>5, <1>6, <1>7, <1>8, <1>9, <1>10, <1>11 DEF Next

LEMMA CoreStarts == Init => Core
<1> SUFFICES ASSUME Init PROVE Core
  OBVIOUS
<1>1. /\ world \in Worlds /\ store = world.store /\ posts = 0 /\ sequencer = Stopped
      /\ machine = Written(Booted(store), world.written)
      /\ contacts = [p \in world.contacts |-> 1]
      /\ pending = {} /\ latch = NoLatch /\ reports = <<>> /\ history = NoHistory
  BY DEF Init
<1>2. SequencerInv
  BY <1>1, Nothing, SequencerStarts DEF Records
<1>3. Pins \subseteq AllPins /\ world.contacts \subseteq Pins /\ \A p \in Pins : Stored(store[p])
  BY <1>1, IoAssumption DEF Pins
<1>4. Fit(Booted(store), store)
  BY <1>3, BootedFits DEF Stored, StoredDriven, Pins
<1>5. Fit(machine, store)
  <2> DEFINE b == Booted(store)
  <2>1. Shape(b, Pins)
    BY <1>4 DEF Fit, Pins
  <2> HIDE DEF b
  <2>2. Kept(b, machine, Pins, DOMAIN world.written)
    BY <1>1, <2>1, WrittenKeeps DEF b
  <2> QED BY <1>4, <2>2, KeptFits DEF Pins, b
<1>6. Interrupts
  BY <1>1, <1>3 DEF Interrupts, NoLatch
<1> QED BY <1>1, <1>2, <1>5, <1>6 DEF Core, Pins

LEMMA CoreCorrect == Spec => []Core
BY CoreStarts, CoreStep, PTL DEF Spec
-----------------------------------------------------------------------------
(* Suspended pins.                                                         *)
Still(m, p) ==
  m.config[p].suspended /\ m.config[p].mode \in DrivenModes =>
    /\ m.out[p] = 0
    /\ m.config[p].mode \in PwmModes \cup {"timer"} => m.data[p].direction = "none"

LEMMA StillKept ==
  ASSUME NEW m, NEW w, NEW P, NEW V, NEW p \in P, Kept(m, w, P, V), Still(m, p)
  PROVE  Still(w, p)
BY DEF Kept, Still

LEMMA StillReconfigured ==
  ASSUME NEW m, NEW w, NEW P, NEW p, NEW q \in P, Reconfigured(m, w, P, p), Still(m, q),
         q # p \/ ~m.config[q].suspended \/ w.config[q].mode = m.config[q].mode
  PROVE  Still(w, q)
BY DEF Reconfigured, Still

LEMMA SuspendedStep == Core /\ SuspendedStill /\ [Next]_vars => SuspendedStill'
<1> SUFFICES ASSUME Core, SuspendedStill, [Next]_vars,
                    NEW p \in Pins', p \notin history'.remade
             PROVE  Still(machine', p)
  BY DEF SuspendedStill, Still
<1>0. Shape(machine, Pins)
  BY Pinned
<1>1. \A q \in Pins : q \notin history.remade => Still(machine, q)
  BY DEF SuspendedStill, Still
<1>2. ASSUME NEW V, Kept(machine, machine', Pins, V), store' = store,
             history'.remade = history.remade
      PROVE  Still(machine', p)
  <2>1. p \in Pins /\ Still(machine, p)
    BY <1>1, <1>2 DEF Pins
  <2> QED BY <1>2, <2>1, StillKept
<1>3. ASSUME machine' = machine, store' = store, history'.remade = history.remade
      PROVE  Still(machine', p)
  BY <1>1, <1>3 DEF Pins
<1>4. CASE UNCHANGED vars
  BY <1>3, <1>4 DEF vars
<1>5. CASE io_mode
  <2>1. PICK cmd \in world.modes :
          /\ Reconfigured(machine, machine', Pins, cmd.pin) /\ DOMAIN store' = Pins
          /\ history.remade \subseteq history'.remade
          /\ machine.config[cmd.pin].suspended => cmd.pin \in history'.remade
    BY <1>5, ModeSets
  <2>2. p \in Pins /\ p \notin history.remade
    BY <2>1 DEF Pins
  <2>3. Still(machine, p)
    BY <1>1, <2>2
  <2> QED BY <2>1, <2>2, <2>3, StillReconfigured
<1>6. CASE io_flag
  <2>1. PICK cmd \in world.flags :
          /\ Reconfigured(machine, machine', Pins, cmd.pin) /\ DOMAIN store' = Pins
          /\ machine'.config[cmd.pin].mode = machine.config[cmd.pin].mode
          /\ history'.remade = history.remade
    BY <1>6, FlagSets
  <2>2. p \in Pins /\ p \notin history.remade
    BY <2>1 DEF Pins
  <2>3. Still(machine, p)
    BY <1>1, <2>2
  <2> QED BY <2>1, <2>2, <2>3, StillReconfigured
<1>7. CASE io_trigger \/ io_write \/ io_read \/ sequencer_run
  <2>1. Kept(machine, machine', Pins, PutPins)
    BY <1>7, CommandsKeep
  <2>2. store' = store /\ history'.remade = history.remade
    BY <1>7 DEF io_trigger, io_write, io_read, sequencer_run, Commanded, NoSave, Core,
                SequencerInv, Records
  <2> QED BY <1>2, <2>1, <2>2
<1>8. CASE io_suspend
  <2>1. PICK q \in world.suspends :
          Commanded([Quiet(machine, q) EXCEPT !.config[q].suspended = TRUE])
    BY <1>8 DEF io_suspend
  <2> DEFINE w == Quiet(machine, q)
  <2>2. q \in Pins /\ machine' = [w EXCEPT !.config[q].suspended = TRUE]
        /\ store' = store /\ history' = history
    BY <2>1, Pinned DEF Commanded, NoSave
  <2>3. p \in Pins /\ Still(machine, p)
    BY <1>1, <2>2 DEF Pins
  <2>4. /\ machine'.out = w.out /\ machine'.data = w.data
        /\ machine'.config[p].mode = machine.config[p].mode
        /\ p # q => machine'.config[p].suspended = machine.config[p].suspended
    BY <2>2, <2>3, SuspendSets
  <2>5. /\ Kept(machine, w, Pins, {q})
        /\ /\ ~machine.config[q].suspended /\ machine.config[q].mode \in DrivenModes
           /\ machine.config[q].llmode \in Outputs
           => /\ w.out[q] = 0
              /\ machine.config[q].mode \in PwmModes \cup {"timer"}
                   => w.data[q].direction = "none"
    BY <1>0, <2>2, Pinned, QuietIs
  <2>6. machine.config[q].mode \in DrivenModes => machine.config[q].llmode \in Outputs
    BY <2>2 DEF Core, Fit, Pins
  <2> HIDE DEF w
  <2>7. CASE machine.config[p].suspended
    <3>1. w.out[p] = machine.out[p] /\ w.data[p].direction = machine.data[p].direction
      BY <2>3, <2>5, <2>7 DEF Kept
    <3> QED BY <2>3, <2>4, <2>7, <3>1 DEF Still
  <2>8. CASE ~machine.config[p].suspended /\ p = q
    BY <2>4, <2>5, <2>6, <2>8 DEF Still
  <2>9. CASE ~machine.config[p].suspended /\ p # q
    BY <2>4, <2>9 DEF Still
  <2> QED BY <2>7, <2>8, <2>9
<1>9. CASE io_resume
  <2>1. PICK q \in world.suspends : Commanded([machine EXCEPT !.config[q].suspended = FALSE])
    BY <1>9 DEF io_resume
  <2>2. q \in Pins /\ machine' = [machine EXCEPT !.config[q].suspended = FALSE]
        /\ store' = store /\ history' = history
    BY <2>1, Pinned DEF Commanded, NoSave
  <2>3. p \in Pins /\ Still(machine, p)
    BY <1>1, <2>2 DEF Pins
  <2> QED BY <2>2, <2>3, ResumeSets DEF Still
<1>10. CASE sequencer_start \/ sequencer_stop
  BY <1>3, <1>10 DEF sequencer_start, sequencer_stop, NoSave
<1>11. CASE io_periodic_fast
  <2>1. /\ machine' = Ticked /\ store' = store /\ history'.remade = history.remade
    BY <1>11 DEF io_periodic_fast, Core, SequencerInv, Records
  <2>2. p \in Pins /\ Still(machine, p)
    BY <1>1, <2>1 DEF Pins
  <2>3. /\ machine'.config = machine.config
        /\ /\ machine.config[p].suspended
           /\ machine.config[p].mode = "timer" => machine.data[p].direction = "none"
           => /\ machine'.out[p] = machine.out[p]
              /\ machine'.data[p].direction = machine.data[p].direction
    BY <1>0, <2>1, <2>2, TickedIs
  <2>4. "timer" \in DrivenModes
    BY DEF DrivenModes
  <2> QED BY <2>2, <2>3, <2>4 DEF Still
<1>12. CASE Edge \/ pc_int_read \/ pc_int_report
  <2>1. machine' = machine
    BY <1>12 DEF Edge, pc_int_read, pc_int_report, Elsewhere
  <2> QED BY <1>3, <1>12, <2>1, InterruptsStep
<1>13. CASE io_gpio_pins_changed
  BY <1>2, <1>13, ReportKeeps, InterruptsStep
<1>14. CASE Reboot
  <2>1. machine' = Booted(store) /\ store' = store
    BY <1>14 DEF Reboot
  <2>2. p \in DOMAIN store /\ machine'.config = Restored(store)
    BY <2>1, BootedIs DEF Pins
  <2>3. Restored(store)[p].suspended = FALSE
    BY <2>2, RestoredIs
  <2> QED BY <2>2, <2>3 DEF Still
<1> QED BY <1>4, <1>5, <1>6, <1>7, <1>8, <1>9, <1>10, <1>11, <1>12, <1>13, <1>14 DEF Next

(* A suspended output is off and stays off, whatever is written, triggered *)
(* or played (io_suspend 2967-2971), unless a mode it was given since took *)
(* over the blinking of one before.                                        *)
THEOREM SuspendedStillCorrect == Spec => []SuspendedStill
<1>1. Init => SuspendedStill
  <2> SUFFICES ASSUME Init, NEW p \in Pins PROVE Still(machine, p)
    BY DEF SuspendedStill, Still
  <2>1. machine = Written(Booted(store), world.written)
    BY DEF Init
  <2> DEFINE b == Booted(store)
  <2>2. Shape(b, Pins) /\ b.config[p].suspended = FALSE
    BY BootedIs, RestoredIs DEF Pins
  <2>3. machine.config = b.config
    <3> HIDE DEF b
    <3>1. Kept(b, Written(b, world.written), Pins, DOMAIN world.written)
      BY <2>2, WrittenKeeps
    <3> QED BY <2>1, <3>1 DEF Kept, b
  <2> HIDE DEF b
  <2> QED BY <2>2, <2>3 DEF Still
<1> QED BY <1>1, CoreCorrect, SuspendedStep, PTL DEF Spec
-----------------------------------------------------------------------------
(* Counting falls.  The reports in the queue that a fall of p is in.       *)
Waiting(p, rs) == {i \in DOMAIN rs : p \in rs[i].status /\ rs[i].level[p] = 0}

LEMMA WaitingFinite ==
  ASSUME NEW p, NEW S, NEW rs \in Seq(S)
  PROVE  IsFiniteSet(Waiting(p, rs)) /\ Cardinality(Waiting(p, rs)) \in Nat
<1>1. DOMAIN rs = 1 .. Len(rs) /\ Len(rs) \in Nat
  OBVIOUS
<1>2. IsFiniteSet(1 .. Len(rs))
  BY <1>1, FS_Interval
<1>3. Waiting(p, rs) \in SUBSET (1 .. Len(rs))
  BY <1>1 DEF Waiting
<1> QED BY <1>2, <1>3, FS_Subset, FS_CardinalityType

LEMMA WaitingAppend ==
  ASSUME NEW p, NEW S, NEW rs \in Seq(S), NEW r \in S
  PROVE  Cardinality(Waiting(p, Append(rs, r)))
           = Cardinality(Waiting(p, rs)) + (IF p \in r.status /\ r.level[p] = 0 THEN 1 ELSE 0)
<1> DEFINE n == Len(rs) + 1
           ss == Append(rs, r)
<1>1. /\ DOMAIN rs = 1 .. Len(rs) /\ Len(rs) \in Nat /\ DOMAIN ss = 1 .. n
      /\ ss[n] = r /\ \A i \in 1 .. Len(rs) : ss[i] = rs[i]
  OBVIOUS
<1> HIDE DEF ss
<1>2. IsFiniteSet(Waiting(p, rs)) /\ Cardinality(Waiting(p, rs)) \in Nat
  BY WaitingFinite
<1>3. CASE p \in r.status /\ r.level[p] = 0
  <2>1. Waiting(p, ss) = Waiting(p, rs) \cup {n}
    BY <1>1, <1>3 DEF Waiting
  <2>2. n \notin Waiting(p, rs)
    BY <1>1 DEF Waiting
  <2>3. Cardinality(Waiting(p, rs) \cup {n}) = Cardinality(Waiting(p, rs)) + 1
    <3> HIDE DEF n
    <3> QED BY <1>2, <2>2, FS_AddElement
  <2> QED BY <1>3, <2>1, <2>3 DEF ss
<1>4. CASE ~(p \in r.status /\ r.level[p] = 0)
  <2>1. Waiting(p, ss) = Waiting(p, rs)
    BY <1>1, <1>4 DEF Waiting
  <2> QED BY <1>2, <1>4, <2>1 DEF ss
<1> QED BY <1>3, <1>4

LEMMA WaitingTail ==
  ASSUME NEW p, NEW S, NEW rs \in Seq(S), rs # <<>>
  PROVE  Cardinality(Waiting(p, rs)) = Cardinality(Waiting(p, Tail(rs)))
           + (IF p \in Head(rs).status /\ Head(rs).level[p] = 0 THEN 1 ELSE 0)
<1> DEFINE W == Waiting(p, rs)
           T == Waiting(p, Tail(rs))
           X == W \ {1}
           f == [i \in X |-> i - 1]
<1>1. /\ DOMAIN rs = 1 .. Len(rs) /\ Len(rs) \in Nat \ {0} /\ Head(rs) = rs[1]
      /\ Tail(rs) \in Seq(S) /\ DOMAIN Tail(rs) = 1 .. Len(rs) - 1
      /\ \A i \in 1 .. Len(rs) - 1 : Tail(rs)[i] = rs[i + 1]
  OBVIOUS
<1>2. IsFiniteSet(W) /\ Cardinality(W) \in Nat /\ IsFiniteSet(T) /\ Cardinality(T) \in Nat
  BY <1>1, WaitingFinite
<1>3. \A i \in X : i \in 2 .. Len(rs) /\ i - 1 \in T
  BY <1>1 DEF Waiting
<1>4. \A j \in T : j \in Nat /\ j + 1 \in X
  BY <1>1 DEF Waiting
<1>5. 1 \in W <=> p \in Head(rs).status /\ Head(rs).level[p] = 0
  BY <1>1 DEF Waiting
<1> HIDE DEF W, T
<1>6. f \in Bijection(X, T)
  <2>1. f \in [X -> T]
    BY <1>3
  <2>2. \A i, j \in X : f[i] = f[j] => i = j
    BY <1>3
  <2>3. \A j \in T : \E i \in X : f[i] = j
    <3> SUFFICES ASSUME NEW j \in T PROVE \E i \in X : f[i] = j
      OBVIOUS
    <3>1. j + 1 \in X /\ f[j + 1] = j
      BY <1>4
    <3> QED BY <3>1
  <2> HIDE DEF f, X
  <2> QED BY <2>1, <2>2, <2>3 DEF Bijection, Injection, Surjection, IsInjective
<1>7. /\ IsFiniteSet(X)
      /\ Cardinality(X) = IF 1 \in W THEN Cardinality(W) - 1 ELSE Cardinality(W)
  BY <1>2, FS_RemoveElement
<1> HIDE DEF f, X
<1>8. Cardinality(T) = Cardinality(X)
  BY <1>6, <1>7, FS_Bijection, ZenonT(30) DEF ExistsBijection
<1> QED BY <1>2, <1>5, <1>7, <1>8 DEF W, T

(* A fall that is pending: by the levels the handler has read or will read. *)
Coming(p, edges, lat, levels) ==
  IF p \in edges /\ (IF lat = NoLatch THEN levels ELSE lat)[p] = 0 THEN 1 ELSE 0

(* What has been counted and what is on its way is what fell, but for the  *)
(* slips: of n counted, w waiting, c coming and f fallen.                  *)
Balanced(n, w, c, f, s) == n + w + c - f <= s /\ -(n + w + c - f) <= s

CountInv ==
  /\ history.slips \in Nat /\ history.falls \in [Pins -> Int]
  /\ \A p \in world.contacts :
       Counted(p) =>
         /\ machine.data[p].value \in Int
         /\ p \in pending \/ (\E i \in DOMAIN reports : p \in reports[i].status)
              => machine.config[p].llmode = "counter"
         /\ Balanced(machine.data[p].value, Cardinality(Waiting(p, reports)),
                     Coming(p, pending, latch, contacts), history.falls[p], history.slips)

LEMMA CountSuffices == Core /\ CountInv => CountsFalls
<1> SUFFICES ASSUME Core, CountInv, NEW p \in Pins, Handled, Counted(p)
             PROVE  LET wrong == machine.data[p].value - history.falls[p]
                    IN  wrong <= history.slips /\ -wrong <= history.slips
  BY DEF CountsFalls
<1>1. p \in world.contacts
  BY DEF Counted
<1>2. Coming(p, pending, latch, contacts) = 0
  BY DEF Coming, Handled
<1>3. Cardinality(Waiting(p, reports)) = 0
  <2>1. Waiting(p, reports) = {}
    BY DEF Waiting, Handled
  <2> QED BY <2>1, FS_EmptySet
<1>4. /\ machine.data[p].value \in Int /\ history.falls[p] \in Int /\ history.slips \in Nat
      /\ Balanced(machine.data[p].value, 0, 0, history.falls[p], history.slips)
  BY <1>1, <1>2, <1>3 DEF CountInv
<1> QED BY <1>4 DEF Balanced

\* What a pin that is counted is when it is as it was.
SameHere(p) ==
  /\ machine'.config[p].mode = machine.config[p].mode
  /\ machine'.config[p].llmode = machine.config[p].llmode
  /\ machine'.config[p].flags = machine.config[p].flags
  /\ machine'.data[p].value = machine.data[p].value

LEMMA CountedBefore ==
  ASSUME NEW p, world' = world, Counted(p)',
         machine'.config[p].mode = machine.config[p].mode,
         machine'.config[p].flags = machine.config[p].flags
  PROVE  Counted(p)
BY DEF Counted, LeftAlone, Flagged

LEMMA CountLeft ==
  ASSUME CountInv, store' = store \/ DOMAIN store' = Pins, world' = world, contacts' = contacts,
         pending' = pending, latch' = latch, reports' = reports,
         history'.falls = history.falls, history'.slips = history.slips,
         \A p \in world.contacts : Counted(p)' => SameHere(p)
  PROVE  CountInv'
<1>1. Pins' = Pins
  BY DEF Pins
<1>2. history'.slips \in Nat /\ history'.falls \in [Pins -> Int]
  BY DEF CountInv
<1>3. ASSUME NEW p \in world.contacts, Counted(p)'
      PROVE  /\ machine'.data[p].value \in Int
             /\ p \in pending \/ (\E i \in DOMAIN reports : p \in reports[i].status)
                  => machine'.config[p].llmode = "counter"
             /\ Balanced(machine'.data[p].value, Cardinality(Waiting(p, reports)),
                         Coming(p, pending, latch, contacts), history.falls[p], history.slips)
  <2>1. SameHere(p)
    BY <1>3
  <2>2. Counted(p)
    BY <1>3, <2>1, CountedBefore DEF SameHere
  <2> QED BY <2>1, <2>2 DEF CountInv, SameHere
<1> QED BY <1>1, <1>2, <1>3 DEF CountInv

\* What is not set up, written or suspended is as it was.
LEMMA SetUpElsewhere ==
  ASSUME NEW q, NEW p \in Pins, Reconfigured(machine, machine', Pins, q), p # q
  PROVE  SameHere(p)
BY DEF Reconfigured, SameHere

LEMMA KeptHere ==
  ASSUME NEW V, NEW p \in Pins, Kept(machine, machine', Pins, V), p \notin V
  PROVE  SameHere(p)
BY DEF Kept, SameHere

LEMMA CountsCommands ==
  ASSUME Core, CountInv,
         \/ io_mode \/ io_flag \/ io_trigger \/ io_write \/ io_read \/ io_suspend \/ io_resume
         \/ sequencer_start \/ sequencer_stop \/ io_periodic_fast \/ sequencer_run
  PROVE  CountInv'
<1>0. Shape(machine, Pins) /\ world.contacts \subseteq Pins
  BY Pinned DEF Core, Interrupts
<1>1. CASE io_mode
  <2>1. PICK cmd \in world.modes :
          /\ Reconfigured(machine, machine', Pins, cmd.pin) /\ DOMAIN store' = Pins
          /\ history'.falls = history.falls /\ history'.slips = history.slips
    BY <1>1, ModeSets
  <2>2. world' = world /\ contacts' = contacts /\ pending' = pending /\ latch' = latch
        /\ reports' = reports
    BY <1>1 DEF io_mode, Elsewhere
  <2>3. ASSUME NEW p \in world.contacts, Counted(p)' PROVE SameHere(p)
    <3>1. p # cmd.pin
      BY <2>2, <2>3 DEF Counted, LeftAlone
    <3> QED BY <1>0, <2>1, <3>1, SetUpElsewhere
  <2> QED BY <2>1, <2>2, <2>3, CountLeft
<1>2. CASE io_flag
  <2>1. PICK cmd \in world.flags :
          /\ Reconfigured(machine, machine', Pins, cmd.pin) /\ DOMAIN store' = Pins
          /\ history'.falls = history.falls /\ history'.slips = history.slips
    BY <1>2, FlagSets
  <2>2. world' = world /\ contacts' = contacts /\ pending' = pending /\ latch' = latch
        /\ reports' = reports
    BY <1>2 DEF io_flag, Elsewhere
  <2>3. ASSUME NEW p \in world.contacts, Counted(p)' PROVE SameHere(p)
    <3>1. p # cmd.pin
      BY <2>2, <2>3 DEF Counted, LeftAlone
    <3> QED BY <1>0, <2>1, <3>1, SetUpElsewhere
  <2> QED BY <2>1, <2>2, <2>3, CountLeft
<1>3. CASE io_trigger \/ io_write \/ io_read \/ sequencer_run
  <2>1. Kept(machine, machine', Pins, PutPins)
    BY <1>3, CommandsKeep
  <2>2. /\ world' = world /\ contacts' = contacts /\ pending' = pending /\ latch' = latch
        /\ reports' = reports /\ store' = store
        /\ history'.falls = history.falls /\ history'.slips = history.slips
    BY <1>3 DEF io_trigger, io_write, io_read, sequencer_run, Commanded, NoSave, Elsewhere,
                Core, SequencerInv, Records
  <2>3. ASSUME NEW p \in world.contacts, Counted(p)' PROVE SameHere(p)
    <3>1. machine'.config = machine.config
      BY <2>1 DEF Kept
    <3>2. p \notin PutPins
      BY <2>2, <2>3, <3>1 DEF Counted, LeftAlone, Flagged, PutPins
    <3> QED BY <1>0, <2>1, <3>2, KeptHere
  <2> QED BY <2>2, <2>3, CountLeft
<1>4. CASE io_suspend
  <2>1. PICK q \in world.suspends :
          Commanded([Quiet(machine, q) EXCEPT !.config[q].suspended = TRUE])
    BY <1>4 DEF io_suspend
  <2> DEFINE w == Quiet(machine, q)
  <2>2. /\ q \in Pins /\ machine' = [w EXCEPT !.config[q].suspended = TRUE]
        /\ world' = world /\ contacts' = contacts /\ pending' = pending /\ latch' = latch
        /\ reports' = reports /\ store' = store /\ history' = history
    BY <2>1, Pinned DEF Commanded, NoSave, Elsewhere
  <2>3. Kept(machine, w, Pins, {q})
    BY <1>0, <2>2, Pinned, QuietIs
  <2>4. ASSUME NEW p \in world.contacts, Counted(p)' PROVE SameHere(p)
    <3>1. p \in Pins /\ p # q
      BY <1>0, <2>2, <2>4 DEF Counted, LeftAlone
    <3>2. /\ machine'.data = w.data
          /\ machine'.config[p].mode = machine.config[p].mode
          /\ machine'.config[p].llmode = machine.config[p].llmode
          /\ machine'.config[p].flags = machine.config[p].flags
      BY <2>2, <3>1, SuspendSets
    <3> HIDE DEF w
    <3>3. w.data[p].value = machine.data[p].value
      BY <2>3, <3>1 DEF Kept
    <3> QED BY <3>2, <3>3 DEF SameHere
  <2> QED BY <2>2, <2>4, CountLeft
<1>5. CASE io_resume
  <2>1. PICK q \in world.suspends : Commanded([machine EXCEPT !.config[q].suspended = FALSE])
    BY <1>5 DEF io_resume
  <2>2. /\ q \in Pins /\ machine' = [machine EXCEPT !.config[q].suspended = FALSE]
        /\ world' = world /\ contacts' = contacts /\ pending' = pending /\ latch' = latch
        /\ reports' = reports /\ store' = store /\ history' = history
    BY <2>1, Pinned DEF Commanded, NoSave, Elsewhere
  <2>3. ASSUME NEW p \in world.contacts PROVE SameHere(p)
    BY <1>0, <2>2, ResumeSets DEF SameHere
  <2> QED BY <2>2, <2>3, CountLeft
<1>6. CASE sequencer_start \/ sequencer_stop
  <2>1. /\ machine' = machine
        /\ world' = world /\ contacts' = contacts /\ pending' = pending /\ latch' = latch
        /\ reports' = reports /\ store' = store /\ history' = history
    BY <1>6 DEF sequencer_start, sequencer_stop, NoSave, Elsewhere
  <2>2. \A p \in world.contacts : SameHere(p)
    BY <2>1 DEF SameHere
  <2> QED BY <2>1, <2>2, CountLeft
<1>7. CASE io_periodic_fast
  <2>1. /\ machine' = Ticked
        /\ world' = world /\ contacts' = contacts /\ pending' = pending /\ latch' = latch
        /\ reports' = reports /\ store' = store
        /\ history'.falls = history.falls /\ history'.slips = history.slips
    BY <1>7 DEF io_periodic_fast, Elsewhere, Core, SequencerInv, Records
  <2>2. \A p \in world.contacts : SameHere(p)
    BY <1>0, <2>1, TickedIs DEF SameHere
  <2> QED BY <2>1, <2>2, CountLeft
<1> QED BY <1>1, <1>2, <1>3, <1>4, <1>5, <1>6, <1>7

\* The contacts are of the internal device, so that there are not many.
LEMMA ContactsFinite ==
  ASSUME Core, NEW S, S \subseteq world.contacts
  PROVE  /\ IsFiniteSet(S) /\ Cardinality(S) \in Nat
         /\ S # {} => Cardinality(S) >= 1
<1> DEFINE I == 0 .. 15
           X == {<<Gpio, i>> : i \in I}
           f == [i \in I |-> <<Gpio, i>>]
<1>1. IsFiniteSet(I)
  <2>1. 0 \in Int /\ 15 \in Int
    OBVIOUS
  <2> QED BY <2>1, FS_Interval, Zenon
<1>2. f \in Surjection(I, X)
  <2>1. f \in [I -> X]
    OBVIOUS
  <2>2. ASSUME NEW x \in X PROVE \E i \in I : f[i] = x
    OBVIOUS
  <2> HIDE DEF I, X, f
  <2> QED BY <2>1, <2>2 DEF Surjection
<1>3. IsFiniteSet(X)
  <2> HIDE DEF I, X, f
  <2> QED BY <1>1, <1>2, FS_Surjection
<1>4. S \subseteq X
  <2>1. \A p \in S : p = <<Gpio, p[2]>> /\ p[2] \in I
    BY Pinned DEF Core, Interrupts
  <2> QED BY <2>1
<1> HIDE DEF X
<1>5. IsFiniteSet(S) /\ Cardinality(S) \in Nat
  BY <1>3, <1>4, FS_Subset, FS_CardinalityType
<1>6. Cardinality(S) = 0 => S = {}
  BY <1>5, FS_EmptySet
<1> QED BY <1>5, <1>6

LEMMA CountsEdge == ASSUME Core, CountInv, Edge PROVE CountInv'
<1>1. PICK q \in world.contacts :
        /\ machine.config[q].llmode = "counter"
        /\ contacts' = [contacts EXCEPT ![q] = 1 - @]
        /\ pending' = pending \cup {q}
        /\ history' = [history EXCEPT
             !.falls[q] = @ + contacts[q],
             !.turns = @ + Turned(contacts'),
             !.slips = IF q \in pending \/ latch # NoLatch THEN @ + 1 ELSE @]
  BY DEF Edge
<1>2. /\ world' = world /\ machine' = machine /\ store' = store /\ latch' = latch
      /\ reports' = reports
  BY DEF Edge
<1> DEFINE slip == q \in pending \/ latch # NoLatch
<1>3. /\ history'.falls = [history.falls EXCEPT ![q] = history.falls[q] + contacts[q]]
      /\ history'.slips = IF slip THEN history.slips + 1 ELSE history.slips
      /\ Pins' = Pins
  BY <1>1, <1>2 DEF Core, SequencerInv, Records, CountInv, Pins
<1>4. /\ history.slips \in Nat /\ history.falls \in [Pins -> Int] /\ world.contacts \subseteq Pins
      /\ contacts \in [world.contacts -> {0, 1}] /\ reports \in Seq([status : SUBSET world.contacts, level : Levels])
      /\ latch # NoLatch => latch \in Levels
  BY DEF CountInv, Core, Interrupts
<1>5. history'.slips \in Nat /\ history'.falls \in [Pins -> Int]
  <2>1. history.falls[q] + contacts[q] \in Int
    BY <1>4
  <2> QED BY <1>3, <1>4, <2>1
<1>6. ASSUME NEW p \in world.contacts, Counted(p)'
      PROVE  /\ machine.data[p].value \in Int
             /\ p \in pending' \/ (\E i \in DOMAIN reports : p \in reports[i].status)
                  => machine.config[p].llmode = "counter"
             /\ Balanced(machine.data[p].value, Cardinality(Waiting(p, reports)),
                         Coming(p, pending', latch, contacts'), history'.falls[p],
                         history'.slips)
  <2>1. Counted(p)
    BY <1>2, <1>6, CountedBefore
  <2> DEFINE n == machine.data[p].value
             w == Cardinality(Waiting(p, reports))
             c == Coming(p, pending, latch, contacts)
             d == Coming(p, pending', latch, contacts')
             f == history.falls[p]
             g == history'.falls[p]
             s == history.slips
             t == history'.slips
  <2>2. /\ n \in Int /\ Balanced(n, w, c, f, s)
        /\ p \in pending \/ (\E i \in DOMAIN reports : p \in reports[i].status)
             => machine.config[p].llmode = "counter"
    BY <2>1 DEF CountInv
  <2>3. w \in Nat /\ f \in Int /\ s \in Nat /\ t \in Nat
    BY <1>4, <1>5, WaitingFinite
  <2>4. CASE p # q
    <3>1. g = f /\ t \in {s, s + 1}
      BY <1>3, <1>4, <2>4
    <3>2. d = c
      BY <1>1, <1>4, <2>4 DEF Coming
    <3>3. c \in {0, 1}
      BY DEF Coming
    <3>4. p \in pending' => p \in pending
      BY <1>1, <2>4
    <3> HIDE DEF n, w, c, d, f, g, s, t
    <3>5. Balanced(n, w, d, g, t)
      BY <2>2, <2>3, <3>1, <3>2, <3>3 DEF Balanced
    <3> QED BY <2>2, <3>4, <3>5 DEF n, w, d, g, t
  <2>5. CASE p = q
    <3> DEFINE b == contacts[q]
    <3>1. b \in {0, 1} /\ g = f + b /\ contacts'[p] = 1 - b
      BY <1>1, <1>3, <1>4, <2>5
    <3>5. Balanced(n, w, d, g, t)
      <4>2. CASE ~slip
        <5>1. c = 0 /\ t = s
          BY <1>3, <2>5, <4>2 DEF Coming
        <5>2. d = b
          BY <1>1, <2>5, <3>1, <4>2 DEF Coming
        <5> HIDE DEF n, w, c, d, f, g, s, t, b
        <5> QED BY <2>2, <2>3, <3>1, <5>1, <5>2 DEF Balanced
      <4>3. CASE q \in pending /\ latch = NoLatch
        <5>1. t = s + 1
          BY <1>3, <4>3
        <5>2. c = 1 - b /\ d = b
          BY <1>1, <2>5, <3>1, <4>3 DEF Coming
        <5> HIDE DEF n, w, c, d, f, g, s, t, b
        <5> QED BY <2>2, <2>3, <3>1, <5>1, <5>2 DEF Balanced
      <4>4. CASE latch # NoLatch
        <5>1. t = s + 1
          BY <1>3, <4>4
        <5>2. c \in {0, 1} /\ d \in {0, 1} /\ (q \in pending => d = c) /\ (q \notin pending => c = 0)
          BY <1>1, <2>5, <4>4 DEF Coming
        <5> HIDE DEF n, w, c, d, f, g, s, t, b
        <5> QED BY <2>2, <2>3, <3>1, <5>1, <5>2 DEF Balanced
      <4> QED BY <4>2, <4>3, <4>4
    <3> HIDE DEF n, w, d, g, t
    <3> QED BY <1>1, <2>2, <2>5, <3>5 DEF n, w, d, g, t
  <2> QED BY <2>4, <2>5
<1> QED BY <1>2, <1>3, <1>5, <1>6 DEF CountInv

LEMMA CountsRead == ASSUME Core, CountInv, pc_int_read PROVE CountInv'
<1>1. /\ latch = NoLatch /\ latch' = Level(contacts) /\ world' = world /\ machine' = machine
      /\ store' = store /\ contacts' = contacts /\ pending' = pending /\ reports' = reports
      /\ history' = history
  BY DEF pc_int_read
<1>2. contacts \in [world.contacts -> {0, 1}] /\ world.contacts \subseteq Pins
  BY DEF Core, Interrupts
<1>3. ASSUME NEW p \in world.contacts
      PROVE  /\ Counted(p)' => Counted(p)
             /\ Coming(p, pending', latch', contacts') = Coming(p, pending, latch, contacts)
  <2>1. Level(contacts)[p] = contacts[p] /\ Level(contacts)[p] = contacts'[p]
    BY <1>1, <1>2 DEF Level
  <2>2. Counted(p)' => Counted(p)
    BY <1>1, CountedBefore
  <2> QED BY <1>1, <2>1, <2>2 DEF Coming
<1>4. Pins' = Pins
  BY <1>1 DEF Pins
<1> QED BY <1>1, <1>3, <1>4 DEF CountInv

LEMMA CountsReport == ASSUME Core, CountInv, pc_int_report PROVE CountInv'
<1> DEFINE r == [status |-> pending, level |-> latch]
           Report == [status : SUBSET world.contacts, level : Levels]
           room == Len(reports) < TaskQueueLength
<1>1. /\ latch # NoLatch /\ pending' = {} /\ latch' = NoLatch /\ world' = world
      /\ machine' = machine /\ store' = store /\ contacts' = contacts
      /\ reports' = IF room THEN Append(reports, r) ELSE reports
      /\ history' = [history EXCEPT
           !.slips = IF room THEN @ ELSE @ + Cardinality(pending),
           !.together = IF Cardinality(pending) > 1 THEN @ + 1 ELSE @]
  BY DEF pc_int_report, Elsewhere
<1>2. /\ history'.falls = history.falls /\ Pins' = Pins
      /\ history'.slips = IF room THEN history.slips ELSE history.slips + Cardinality(pending)
  BY <1>1 DEF Core, SequencerInv, Records, Pins
<1>3. /\ history.slips \in Nat /\ history.falls \in [Pins -> Int] /\ world.contacts \subseteq Pins
      /\ latch \in Levels /\ reports \in Seq(Report) /\ pending \subseteq world.contacts
  BY <1>1 DEF CountInv, Core, Interrupts
<1>4. Cardinality(pending) \in Nat /\ (pending # {} => Cardinality(pending) >= 1)
  BY <1>3, ContactsFinite
<1>5. history'.slips \in Nat /\ history'.falls \in [Pins -> Int]
  BY <1>2, <1>3, <1>4
<1>6. r \in Report /\ r.status = pending /\ r.level = latch
  BY <1>3
<1> HIDE DEF r, Report
<1>7. ASSUME NEW p \in world.contacts, Counted(p)'
      PROVE  /\ machine.data[p].value \in Int
             /\ p \in pending' \/ (\E i \in DOMAIN reports' : p \in reports'[i].status)
                  => machine.config[p].llmode = "counter"
             /\ Balanced(machine.data[p].value, Cardinality(Waiting(p, reports')),
                         Coming(p, pending', latch', contacts'), history'.falls[p],
                         history'.slips)
  <2>1. Counted(p)
    BY <1>1, <1>7, CountedBefore
  <2> DEFINE n == machine.data[p].value
             w == Cardinality(Waiting(p, reports))
             v == Cardinality(Waiting(p, reports'))
             c == Coming(p, pending, latch, contacts)
             f == history.falls[p]
             s == history.slips
             t == history'.slips
  <2>2. /\ n \in Int /\ Balanced(n, w, c, f, s)
        /\ p \in pending \/ (\E i \in DOMAIN reports : p \in reports[i].status)
             => machine.config[p].llmode = "counter"
    BY <2>1 DEF CountInv
  <2>3. w \in Nat /\ f \in Int /\ s \in Nat /\ t \in Nat
    BY <1>3, <1>5, WaitingFinite
  <2>4. c = (IF p \in pending /\ latch[p] = 0 THEN 1 ELSE 0)
    BY <1>1 DEF Coming
  <2>5. Coming(p, pending', latch', contacts') = 0
    BY <1>1 DEF Coming
  <2>6. CASE room
    <3>1. reports' = Append(reports, r) /\ t = s
      BY <1>1, <1>2, <2>6
    <3>2. v = w + c
      BY <1>3, <1>6, <2>4, <3>1, WaitingAppend
    <3>3. (\E i \in DOMAIN reports' : p \in reports'[i].status)
            => p \in pending \/ (\E i \in DOMAIN reports : p \in reports[i].status)
      <4>1. /\ DOMAIN reports' = 1 .. Len(reports) + 1 /\ DOMAIN reports = 1 .. Len(reports)
            /\ reports'[Len(reports) + 1] = r /\ Len(reports) \in Nat
            /\ \A i \in 1 .. Len(reports) : reports'[i] = reports[i]
        BY <1>3, <1>6, <3>1
      <4> QED BY <1>6, <4>1
    <3>4. c \in {0, 1}
      BY <2>4
    <3> HIDE DEF n, w, v, c, f, s, t
    <3>5. Balanced(n, v, 0, f, t)
      BY <2>2, <2>3, <3>1, <3>2, <3>4 DEF Balanced
    <3> QED BY <1>1, <1>2, <2>2, <2>5, <3>3, <3>5 DEF n, v, f, t
  <2>7. CASE ~room
    <3>1. reports' = reports /\ t = s + Cardinality(pending)
      BY <1>1, <1>2, <2>7
    <3>2. c \in {0, 1} /\ c <= Cardinality(pending)
      BY <1>4, <2>4
    <3>3. v = w
      BY <3>1
    <3> DEFINE k == Cardinality(pending)
    <3>4. k \in Nat
      BY <1>4
    <3> HIDE DEF n, w, v, c, f, s, t, k
    <3>5. Balanced(n, v, 0, f, t)
      BY <2>2, <2>3, <3>1, <3>2, <3>3, <3>4 DEF Balanced, k
    <3> QED BY <1>1, <1>2, <2>2, <2>5, <3>1, <3>5 DEF n, v, f, t
  <2> QED BY <2>6, <2>7
<1> QED BY <1>1, <1>2, <1>5, <1>7 DEF CountInv

LEMMA CountsChange == ASSUME Core, CountInv, io_gpio_pins_changed PROVE CountInv'
<1> DEFINE h == Head(reports)
           Report == [status : SUBSET world.contacts, level : Levels]
<1>1. /\ reports # <<>> /\ reports' = Tail(reports) /\ world' = world /\ store' = store
      /\ machine' = PinsChanged(machine, h.status, h.level, world.alert)
      /\ contacts' = contacts /\ pending' = pending /\ latch' = latch /\ history' = history
  BY DEF io_gpio_pins_changed
<1>2. /\ history.slips \in Nat /\ history.falls \in [Pins -> Int] /\ world.contacts \subseteq Pins
      /\ reports \in Seq(Report)
  BY DEF CountInv, Core, Interrupts
<1>3. h.status \subseteq Pins /\ Shape(machine, Pins)
  BY <1>1, ReportsIn, Pinned
<1>4. machine'.config = machine.config /\ CountedTo(machine, machine', Pins, h.status, h.level)
  <2> HIDE DEF h
  <2> QED BY <1>1, <1>3, PinsKeep
<1>5. /\ DOMAIN reports = 1 .. Len(reports) /\ Len(reports) \in Nat \ {0} /\ h = reports[1]
      /\ DOMAIN reports' = 1 .. Len(reports) - 1
      /\ \A i \in 1 .. Len(reports) - 1 : reports'[i] = reports[i + 1]
      /\ reports' \in Seq(Report)
  <2> HIDE DEF Report
  <2> QED BY <1>1, <1>2
<1>6. ASSUME NEW p \in world.contacts, Counted(p)'
      PROVE  /\ machine'.data[p].value \in Int
             /\ p \in pending \/ (\E i \in DOMAIN reports' : p \in reports'[i].status)
                  => machine'.config[p].llmode = "counter"
             /\ Balanced(machine'.data[p].value, Cardinality(Waiting(p, reports')),
                         Coming(p, pending, latch, contacts), history.falls[p],
                         history.slips)
  <2>1. Counted(p)
    BY <1>1, <1>4, <1>6, CountedBefore
  <2> DEFINE n == machine.data[p].value
             m == machine'.data[p].value
             w == Cardinality(Waiting(p, reports))
             v == Cardinality(Waiting(p, reports'))
             c == Coming(p, pending, latch, contacts)
             f == history.falls[p]
             s == history.slips
             fell == p \in h.status /\ h.level[p] = 0
             one == IF fell THEN 1 ELSE 0
  <2>2. /\ n \in Int /\ Balanced(n, w, c, f, s)
        /\ p \in pending \/ (\E i \in DOMAIN reports : p \in reports[i].status)
             => machine.config[p].llmode = "counter"
    BY <2>1 DEF CountInv
  <2>3. w \in Nat /\ v \in Nat /\ f \in Int /\ s \in Nat /\ c \in {0, 1}
    BY <1>2, <1>5, WaitingFinite DEF Coming
  <2>4. w = v + one
    BY <1>1, <1>2, WaitingTail
  <2>5. p = <<Gpio, p[2]>> /\ p[2] \in 0 .. 15 /\ p \in Pins
    BY <1>2, Pinned
  <2>6. IF p \in h.status /\ machine.config[p].llmode = "counter" /\ Counts(machine, p, h.level)
        THEN m = n + 1 ELSE m = n
    <3>1. machine.config[p].mode \in {"counter", "trigger"}
      BY <2>1 DEF Counted
    <3> DEFINE i == p[2]
    <3>2. p = <<Gpio, i>> /\ i \in 0 .. 15
      BY <2>5
    <3> HIDE DEF i, h
    <3>3. <<Gpio, i>> \in Pins /\ machine.config[<<Gpio, i>>].mode \in {"counter", "trigger"} =>
            IF /\ <<Gpio, i>> \in h.status /\ machine.config[<<Gpio, i>>].llmode = "counter"
               /\ Counts(machine, <<Gpio, i>>, h.level)
            THEN machine'.data[<<Gpio, i>>].value = machine.data[<<Gpio, i>>].value + 1
            ELSE machine'.data[<<Gpio, i>>].value = machine.data[<<Gpio, i>>].value
      BY <1>4, <3>2 DEF CountedTo
    <3>4. p \in Pins /\ machine.config[p].mode \in {"counter", "trigger"} =>
            IF p \in h.status /\ machine.config[p].llmode = "counter" /\ Counts(machine, p, h.level)
            THEN m = n + 1 ELSE m = n
      BY <3>2, <3>3, Zenon
    <3> QED BY <2>5, <3>1, <3>4
  <2>7. p \in h.status => machine.config[p].llmode = "counter"
    BY <1>5, <2>2
  <2>8. Counts(machine, p, h.level) <=> h.level[p] = 0
    BY <2>1 DEF Counted, Counts
  <2>9. m = n + one
    <3> HIDE DEF m, n, h
    <3> QED BY <2>2, <2>6, <2>7, <2>8
  <2>10. one \in {0, 1}
    OBVIOUS
  <2>11. (\E i \in DOMAIN reports' : p \in reports'[i].status)
           => \E i \in DOMAIN reports : p \in reports[i].status
    <3> SUFFICES ASSUME NEW i \in DOMAIN reports', p \in reports'[i].status
                 PROVE  \E x \in DOMAIN reports : p \in reports[x].status
      OBVIOUS
    <3>1. reports'[i] = reports[i + 1] /\ i + 1 \in DOMAIN reports
      <4> HIDE DEF h
      <4> QED BY <1>5
    <3> QED BY <3>1
  <2> HIDE DEF n, m, w, v, c, f, s, one
  <2>12. m \in Int /\ Balanced(m, v, c, f, s)
    BY <2>2, <2>3, <2>4, <2>9, <2>10 DEF Balanced
  <2> QED BY <1>4, <2>2, <2>11, <2>12 DEF m, v, c, f, s
<1>7. Pins' = Pins
  BY <1>1 DEF Pins
<1> QED BY <1>1, <1>2, <1>6, <1>7 DEF CountInv

\* With nothing counted, fallen or on its way.
LEMMA NothingCounted ==
  ASSUME NEW p
  PROVE  /\ Cardinality(Waiting(p, <<>>)) = 0
         /\ \A lat, levels : Coming(p, {}, lat, levels) = 0
         /\ \A s \in Nat : Balanced(0, 0, 0, 0, s)
<1>1. DOMAIN <<>> = {}
  OBVIOUS
<1>2. Waiting(p, <<>>) = {}
  BY <1>1 DEF Waiting
<1> QED BY <1>2, FS_EmptySet DEF Coming, Balanced

LEMMA CountStarts == Init => CountInv
<1> SUFFICES ASSUME Init PROVE CountInv
  OBVIOUS
<1>1. /\ store = world.store /\ machine = Written(Booted(store), world.written)
      /\ pending = {} /\ reports = <<>> /\ history = NoHistory /\ world \in Worlds
  BY DEF Init
<1>2. history.slips = 0 /\ history.falls = [p \in Pins |-> 0] /\ world.contacts \subseteq Pins
  BY <1>1, IoAssumption DEF NoHistory, Pins
<1>3. ASSUME NEW p \in world.contacts, Counted(p)
      PROVE  /\ machine.data[p].value = 0
             /\ ~(p \in pending \/ \E i \in DOMAIN reports : p \in reports[i].status)
             /\ Balanced(machine.data[p].value, Cardinality(Waiting(p, reports)),
                         Coming(p, pending, latch, contacts), history.falls[p], history.slips)
  <2> DEFINE b == Booted(store)
  <2>1. p \in Pins /\ p \notin DOMAIN world.written
    BY <1>2, <1>3 DEF Counted, LeftAlone
  <2>2. Shape(b, Pins) /\ b.data[p].value = 0
    BY <2>1, BootedIs DEF Pins
  <2>3. machine.data[p].value = 0
    <3> HIDE DEF b
    <3>1. Kept(b, machine, Pins, DOMAIN world.written)
      BY <1>1, <2>2, WrittenKeeps DEF b
    <3> QED BY <2>1, <2>2, <3>1 DEF Kept
  <2>4. DOMAIN <<>> = {}
    OBVIOUS
  <2>5. history.falls[p] = 0 /\ history.slips \in Nat
    BY <1>2, <2>1
  <2> QED BY <1>1, <2>3, <2>4, <2>5, NothingCounted
<1> QED BY <1>2, <1>3 DEF CountInv

LEMMA CountRestarts == ASSUME Core, CountInv, Reboot PROVE CountInv'
<1>1. /\ world' = world /\ store' = store /\ machine' = Booted(store) /\ contacts' = contacts
      /\ pending' = {} /\ reports' = <<>> /\ history' = NoHistory' /\ Pins' = Pins
  BY DEF Reboot, Pins, NoHistory
<1>2. history'.slips = 0 /\ history'.falls = [p \in Pins |-> 0] /\ world.contacts \subseteq Pins
  BY <1>1 DEF NoHistory, Core, Interrupts
<1>3. ASSUME NEW p \in world.contacts
      PROVE  /\ machine'.data[p].value = 0
             /\ ~(p \in pending' \/ \E i \in DOMAIN reports' : p \in reports'[i].status)
             /\ Balanced(machine'.data[p].value, Cardinality(Waiting(p, reports')),
                         Coming(p, pending', latch', contacts'), history'.falls[p],
                         history'.slips)
  <2>1. p \in Pins
    BY <1>2
  <2>2. machine'.data[p].value = 0
    BY <1>1, <2>1, BootedIs DEF Pins
  <2>3. DOMAIN <<>> = {}
    OBVIOUS
  <2>4. history'.falls[p] = 0 /\ history'.slips \in Nat
    BY <1>2, <2>1
  <2> QED BY <1>1, <2>2, <2>3, <2>4, NothingCounted
<1> QED BY <1>1, <1>2, <1>3 DEF CountInv

LEMMA CountStep == Core /\ CountInv /\ [Next]_vars => CountInv'
<1> SUFFICES ASSUME Core, CountInv, [Next]_vars PROVE CountInv'
  OBVIOUS
<1>1. CASE UNCHANGED vars
  <2>1. \A p \in world.contacts : SameHere(p)
    BY <1>1 DEF vars, SameHere
  <2> QED BY <1>1, <2>1, CountLeft DEF vars
<1>2. CASE Next
  BY <1>2, CountsCommands, CountsEdge, CountsRead, CountsReport, CountsChange, CountRestarts
     DEF Next
<1> QED BY <1>1, <1>2

(* Every falling edge is counted once (pc_int_isr 732-742, io_pin_changed  *)
(* 1591-1642), but for those that slip; so it is for a counter that nobody *)
(* inverts, sets up, writes, plays, reads with a reset or suspends.        *)
THEOREM CountsFallsCorrect == Spec => []CountsFalls
BY CountStarts, CountStep, CoreCorrect, CountSuffices, PTL DEF Spec
-----------------------------------------------------------------------------
(* What a restart changes.  Of an encoder's pin: what it triggers is within *)
(* a byte's range, and a 'b' pin's partner is below it, if it has one.      *)
Byte == -128 .. 127
Encoding(p, c) ==
  Encoder(c) =>
    /\ DOMAIN c.shared = {"kind", "pin_type", "partner", "remote", "io", "pin"}
    /\ c.shared.remote \in Byte /\ c.shared.io \in Byte /\ c.shared.pin \in Byte
    /\ IsB(c.shared.pin_type) => c.shared.partner \in {0} \cup 0 .. p[2] - 1

\* What flash holds of them.
Numbers(entries) == \A name \in RencNumbers : Get(entries, name, None) \in Int

\* RestoredAgrees, of one pin, by what its own entries are restored to.
UartPins == {<<Gpio, 1>>, <<Gpio, 3>>}
SameSettings(c, d) == c.mode = d.mode /\ c.llmode = d.llmode /\ Settings(c) = Settings(d)
Remade(p, entries, here, restored) ==
  \/ ~init_pin_mode(p, restored) /\ here.mode = "disabled"
  \/ /\ SameSettings(here, restored)
     /\ "flags" \in DOMAIN entries => here.flags = restored.flags
Agrees(p, here, entries) ==
  \/ p \in UartPins /\ here.mode = "disabled"
  \/ Remade(p, entries, here, RestoredPin(p, entries))

SavedInv ==
  /\ \A p \in Pins : Encoding(p, machine.config[p]) /\ Numbers(store[p])
  /\ \A p \in Pins \ history.unsaved : Agrees(p, machine.config[p], store[p])

LEMMA SettingsIs ==
  ASSUME NEW c
  PROVE  /\ c.mode = "timer" => Settings(c) = [speed |-> c.speed, direction |-> c.direction]
         /\ c.mode \in PwmModes => Settings(c) = [speed |-> c.speed, shared |-> c.shared]
         /\ c.mode = "rotary_encoder" =>
              Settings(c) = [type |-> c.shared.pin_type, target |-> Aimed(c.shared)]
         /\ c.mode = "trigger" => Settings(c) = <<Triggered(c.shared.trigger[1]),
                                                  Triggered(c.shared.trigger[2])>>
         /\ c.mode \in {"i2c", "lcd"} => Settings(c) = c.shared
         /\ c.mode \notin {"timer", "rotary_encoder", "trigger", "i2c", "lcd"} \cup PwmModes
              => Settings(c) = <<>>
BY DEF Settings, PwmModes

\* The device is asked about the low level mode only.
LEMMA InitByLevel ==
  ASSUME NEW p, NEW c, NEW d, c.llmode = d.llmode
  PROVE  init_pin_mode(p, c) <=> init_pin_mode(p, d)
BY DEF init_pin_mode, GpioInitPinMode, AuxInitPinMode, ExpanderPinMode

LEMMA Signed ==
  ASSUME NEW n \in Int
  PROVE  /\ Signed8(n) \in Byte
         /\ n \in Byte => Signed8(n) = n
<1>1. (n + 128) % 256 \in 0 .. 255
  OBVIOUS
<1>2. n \in Byte => (n + 128) % 256 = n + 128
  BY DEF Byte
<1> QED BY <1>1, <1>2 DEF Signed8, Byte

\* The smallest of some numbers is one of them.
LEMMA SmallestIn ==
  ASSUME NEW S, S \subseteq Nat, S # {}
  PROVE  Smallest(S) \in S /\ \A n \in S : Smallest(S) <= n
<1>1. PICK n \in S : \A m \in S : <<m, n>> \notin OpToRel(<, Nat)
  BY WFMin, NatLessThanWellFounded, Zenon
<1>2. ASSUME NEW m \in S, m < n PROVE FALSE
  <2>1. <<m, n>> \in OpToRel(<, Nat)
    BY <1>2 DEF OpToRel
  <2> QED BY <1>1, <2>1
<1>3. \A m \in S : n <= m
  BY <1>2
<1> QED BY <1>3 DEF Smallest

LEMMA SmallestOne == ASSUME NEW n \in Nat PROVE Smallest({n}) = n /\ Largest({n}) = n
<1>1. \A m \in {n} : n <= m /\ m <= n
  OBVIOUS
<1> QED BY <1>1 DEF Smallest, Largest

(* A pin whose mode flash has is found with it.                            *)
LEMMA FoundWith ==
  ASSUME NEW p, NEW e, Has(e, {"mode", "llmode"}), e["mode"] # "disabled",
         e["llmode"] # "disabled", NEW c, c = Found(p, e)
  PROVE  /\ IsConfig(c) /\ c.mode = e["mode"] /\ c.llmode = e["llmode"]
         /\ c.mode = "rotary_encoder" => RestoredPin(p, e) = RestoreRotary(e, c)
         /\ c.mode = "trigger" => RestoredPin(p, e) = RestoreTrigger(p, e, c)
         /\ c.mode = "timer" => RestoredPin(p, e) = RestoreTimer(p, e, c)
         /\ c.mode \in PwmModes => RestoredPin(p, e) = RestorePwm(p, e, c)
         /\ c.mode = "i2c" => RestoredPin(p, e) = RestoreI2c(p, e, c)
         /\ c.mode = "lcd" => RestoredPin(p, e) = RestoreLcd(e, c)
         /\ c.mode \notin {"timer", "rotary_encoder", "trigger", "i2c", "lcd"} \cup PwmModes
              => RestoredPin(p, e) = RestoreChecked(p, c)
<1>1. RestoredMode(p, e) = [Blank EXCEPT !.mode = e["mode"], !.llmode = e["llmode"]]
  BY DEF RestoredMode
<1>2. RestoredMode(p, e).mode = e["mode"] /\ RestoredMode(p, e).llmode = e["llmode"]
  BY <1>1 DEF Blank
<1>3. IsConfig(c) /\ c.mode = e["mode"] /\ c.llmode = e["llmode"]
  BY <1>2, FoundIs
<1>4. RestoredPin(p, e) =
        CASE c.mode = "rotary_encoder" -> RestoreRotary(e, c)
          [] c.mode = "trigger" -> RestoreTrigger(p, e, c)
          [] c.mode = "timer" -> RestoreTimer(p, e, c)
          [] c.mode \in {"output_pwm1", "output_pwm2"} -> RestorePwm(p, e, c)
          [] c.mode = "i2c" -> RestoreI2c(p, e, c)
          [] c.mode = "lcd" -> RestoreLcd(e, c)
          [] OTHER -> RestoreChecked(p, c)
  BY DEF RestoredPin, Found
<1> QED BY <1>3, <1>4 DEF PwmModes

(* ... and comes back as it is: mode by mode.                              *)
Stores(e, d) ==
  /\ Has(e, {"mode", "llmode"}) /\ e["mode"] = d.mode /\ e["llmode"] = d.llmode
  /\ d.mode # "disabled" /\ d.llmode # "disabled"
ComesBack(p, e, d) == SameSettings(d, RestoredPin(p, e))

LEMMA BackPlain ==
  ASSUME NEW p, NEW e, NEW d, Stores(e, d),
         d.mode \notin {"timer", "rotary_encoder", "trigger", "i2c", "lcd"} \cup PwmModes,
         ~(\/ d.mode = "ledpixel" /\ RefusedLedpixel(p)
           \/ d.mode = "cfa634" /\ ~Can(p, "uart")
           \/ d.mode = "spi" /\ ~Can(p, "spi")
           \/ d.mode = "pcint" /\ ~Can(p, "pin_change_int"))
  PROVE  ComesBack(p, e, d)
<1> DEFINE c == Found(p, e)
<1>1. c.mode = d.mode /\ c.llmode = d.llmode /\ RestoredPin(p, e) = RestoreChecked(p, c)
  BY FoundWith DEF Stores
<1> HIDE DEF c
<1>2. RestoredPin(p, e) = c
  BY <1>1 DEF RestoreChecked
<1>3. Settings(c) = <<>> /\ Settings(d) = <<>>
  BY <1>1, SettingsIs
<1> QED BY <1>1, <1>2, <1>3 DEF ComesBack, SameSettings

LEMMA BackTimer ==
  ASSUME NEW p, NEW e, NEW d, Stores(e, d), d.mode = "timer", Can(p, "output_digital"),
         Has(e, {"timer.delay", "timer.direction"}),
         d.speed = e["timer.delay"] % SpeedLimit, d.direction = e["timer.direction"]
  PROVE  ComesBack(p, e, d)
<1> DEFINE c == Found(p, e)
           r == [c EXCEPT !.speed = e["timer.delay"] % SpeedLimit,
                          !.direction = e["timer.direction"]]
<1>1. IsConfig(c) /\ c.mode = d.mode /\ c.llmode = d.llmode
      /\ RestoredPin(p, e) = RestoreTimer(p, e, c)
  BY FoundWith DEF Stores
<1> HIDE DEF c
<1>2. RestoredPin(p, e) = r
  BY <1>1 DEF RestoreTimer
<1>3. r.mode = d.mode /\ r.llmode = d.llmode /\ r.speed = d.speed /\ r.direction = d.direction
  BY <1>1 DEF IsConfig
<1> HIDE DEF r
<1>4. Settings(r) = Settings(d)
  BY <1>3, SettingsIs
<1> QED BY <1>2, <1>3, <1>4 DEF ComesBack, SameSettings

LEMMA BackShared ==
  ASSUME NEW p, NEW e, NEW d, Stores(e, d),
         \/ d.mode = "i2c" /\ Can(p, "i2c") /\ Has(e, {"i2c.pinmode"})
              /\ d.shared = [kind |-> "i2c", pin_mode |-> e["i2c.pinmode"]]
         \/ d.mode = "lcd" /\ Has(e, {"lcd.pin"})
              /\ d.shared = [kind |-> "lcd", pin_use |-> e["lcd.pin"]]
  PROVE  ComesBack(p, e, d)
<1> DEFINE c == Found(p, e)
           r == [c EXCEPT !.shared = d.shared]
<1>1. /\ IsConfig(c) /\ c.mode = d.mode /\ c.llmode = d.llmode
      /\ d.mode = "i2c" => RestoredPin(p, e) = RestoreI2c(p, e, c)
      /\ d.mode = "lcd" => RestoredPin(p, e) = RestoreLcd(e, c)
  BY FoundWith DEF Stores
<1> HIDE DEF c
<1>2. RestoredPin(p, e) = r
  BY <1>1 DEF RestoreI2c, RestoreLcd
<1>3. r.mode = d.mode /\ r.llmode = d.llmode /\ r.shared = d.shared
  BY <1>1 DEF IsConfig
<1> HIDE DEF r
<1>4. Settings(r) = Settings(d)
  BY <1>3, SettingsIs
<1> QED BY <1>2, <1>3, <1>4 DEF ComesBack, SameSettings

LEMMA BackPwm ==
  ASSUME NEW p, NEW e, NEW d, Stores(e, d), d.mode \in PwmModes, Can(p, d.mode),
         d.speed = Get(e, "outputa.speed", 0) % SpeedLimit,
         d.shared = PwmShared(Get(e, "outputa.lower", 0), Get(e, "outputa.upper", Unbounded))
  PROVE  ComesBack(p, e, d)
<1> DEFINE c == Found(p, e)
           r == [c EXCEPT !.speed = d.speed, !.shared = d.shared]
<1>1. /\ IsConfig(c) /\ c.mode = d.mode /\ c.llmode = d.llmode
      /\ RestoredPin(p, e) = RestorePwm(p, e, c)
  BY FoundWith DEF Stores
<1> HIDE DEF c
<1>2. RestoredPin(p, e) = r
  BY <1>1, Zenon DEF RestorePwm, PwmShared
<1>3. r.mode = d.mode /\ r.llmode = d.llmode /\ r.speed = d.speed /\ r.shared = d.shared
  BY <1>1 DEF IsConfig
<1> HIDE DEF r
<1>4. Settings(r) = Settings(d)
  BY <1>3, SettingsIs
<1> QED BY <1>2, <1>3, <1>4 DEF ComesBack, SameSettings

LEMMA UnboundedNumber == Unbounded \in Nat
BY SMT DEF Unbounded

\* What the pwm modes saved is what they were given.
LEMMA PwmGot ==
  ASSUME NEW l \in Nat, NEW s \in Nat, NEW u \in 0 .. Unbounded
  PROVE  LET e == PwmEntries(l, u, s)
         IN  /\ Get(e, "outputa.speed", 0) = s
             /\ Get(e, "outputa.lower", 0) = l
             /\ Get(e, "outputa.upper", Unbounded) = u
<1> DEFINE x == IF s > 0 THEN Entry("outputa.speed", s) ELSE <<>>
           y == IF l > 0 THEN Entry("outputa.lower", l) ELSE <<>>
           z == IF u < Unbounded THEN Entry("outputa.upper", u) ELSE <<>>
           e == PwmEntries(l, u, s)
<1>0. DOMAIN <<>> = {}
  OBVIOUS
<1>1. /\ DOMAIN x = (IF s > 0 THEN {"outputa.speed"} ELSE {})
      /\ s > 0 => x["outputa.speed"] = s
  BY <1>0 DEF Entry
<1>2. /\ DOMAIN y = (IF l > 0 THEN {"outputa.lower"} ELSE {})
      /\ l > 0 => y["outputa.lower"] = l
  BY <1>0 DEF Entry
<1>3. /\ DOMAIN z = (IF u < Unbounded THEN {"outputa.upper"} ELSE {})
      /\ u < Unbounded => z["outputa.upper"] = u
  BY <1>0 DEF Entry
<1>5. Unbounded \in Int
  BY UnboundedNumber
<1>4. /\ u >= Unbounded => u = Unbounded
      /\ u \in Int
  BY <1>5, SMT
<1>6. e = x ++ y ++ z
  BY DEF PwmEntries
<1> HIDE DEF x, y, z, e
<1>7. /\ DOMAIN e = DOMAIN x \cup DOMAIN y \cup DOMAIN z
      /\ \A n \in DOMAIN e : e[n] = IF n \in DOMAIN x THEN x[n]
                                    ELSE IF n \in DOMAIN y THEN y[n] ELSE z[n]
  BY <1>6 DEF ++
<1>8. Get(e, "outputa.speed", 0) = s
  BY <1>1, <1>2, <1>3, <1>7 DEF Get
<1>9. Get(e, "outputa.lower", 0) = l
  BY <1>1, <1>2, <1>3, <1>7 DEF Get
<1>10. Get(e, "outputa.upper", Unbounded) = u
  BY <1>1, <1>2, <1>3, <1>4, <1>5, <1>7 DEF Get
<1> QED BY <1>8, <1>9, <1>10 DEF e

\* A target is kept as it is when it is taken for a target again.
LEMMA TargetAgain ==
  ASSUME NEW io \in Int, NEW pin \in Int, NEW action, NEW t, t = Target(io, pin, action)
  PROVE  Target(t.io, t.pin, t.action) = t /\ t.action = action
<1>1. /\ (io % FieldLimit) % FieldLimit = io % FieldLimit
      /\ (pin % FieldLimit) % FieldLimit = pin % FieldLimit
  BY DEF FieldLimit
<1> QED BY <1>1 DEF Target

LEMMA BackTrigger ==
  ASSUME NEW p, NEW e, NEW d, Stores(e, d), d.mode = "trigger", Can(p, "counter"),
         NEW a, NEW b, d.shared = Triggers(a, b),
         Target(a.io, a.pin, a.action) = a, Target(b.io, b.pin, b.action) = b,
         Has(e, {"trigger.0.io", "trigger.0.pin", "trigger.0.type"}),
         e["trigger.0.io"] = a.io, e["trigger.0.pin"] = a.pin, e["trigger.0.type"] = a.action,
         IF b.action = "none"
         THEN "trigger.1.io" \notin DOMAIN e
         ELSE /\ Has(e, {"trigger.1.io", "trigger.1.pin", "trigger.1.type"})
              /\ e["trigger.1.io"] = b.io /\ e["trigger.1.pin"] = b.pin
              /\ e["trigger.1.type"] = b.action
  PROVE  ComesBack(p, e, d)
<1> DEFINE c == Found(p, e)
           x == IF b.action = "none" THEN NoTrigger ELSE b
           r == [c EXCEPT !.shared = Triggers(a, x)]
<1>1. /\ IsConfig(c) /\ c.mode = d.mode /\ c.llmode = d.llmode
      /\ RestoredPin(p, e) = RestoreTrigger(p, e, c)
  BY FoundWith DEF Stores
<1> HIDE DEF c
<1>2. RestoredPin(p, e) = r
  <2>1. /\ Has(e, {"trigger.0.io", "trigger.0.pin", "trigger.0.type"})
        /\ Target(e["trigger.0.io"], e["trigger.0.pin"], e["trigger.0.type"]) = a
    OBVIOUS
  <2>2. IF b.action = "none"
        THEN ~Has(e, {"trigger.1.io", "trigger.1.pin", "trigger.1.type"})
        ELSE /\ Has(e, {"trigger.1.io", "trigger.1.pin", "trigger.1.type"})
             /\ Target(e["trigger.1.io"], e["trigger.1.pin"], e["trigger.1.type"]) = b
    BY DEF Has
  <2>3. RestoreTrigger(p, e, c) =
          [c EXCEPT !.shared = Triggers(a,
             IF Has(e, {"trigger.1.io", "trigger.1.pin", "trigger.1.type"})
             THEN Target(e["trigger.1.io"], e["trigger.1.pin"], e["trigger.1.type"])
             ELSE NoTrigger)]
    BY <2>1, Zenon DEF RestoreTrigger
  <2> QED BY <1>1, <2>2, <2>3
<1>3. r.mode = d.mode /\ r.llmode = d.llmode /\ r.shared = Triggers(a, x)
  BY <1>1 DEF IsConfig
<1> HIDE DEF r
<1>4. Triggered(x) = Triggered(b)
  BY DEF Triggered, NoTrigger, Target
<1>5. /\ Settings(r) = <<Triggered(a), Triggered(x)>>
      /\ Settings(d) = <<Triggered(a), Triggered(b)>>
  BY <1>3, SettingsIs DEF Triggers
<1> QED BY <1>2, <1>3, <1>4, <1>5 DEF ComesBack, SameSettings

\* What an encoder triggers is the same when it is saved and restored.
Savable(t) ==
  \/ t.remote \in Byte /\ t.io \in Byte /\ t.pin \in Byte
  \/ t.remote \in Nat \cup {None} /\ t.io \in Nat /\ t.pin \in Nat
Whole(t) == t.io >= 0 /\ t.pin >= 0
Reread(t) ==
  IF Whole(t) THEN [remote |-> IF t.remote >= 0 THEN t.remote ELSE None,
                    io |-> t.io, pin |-> t.pin]
  ELSE NoTarget

LEMMA AimedAgain ==
  ASSUME NEW t, Savable(t), NEW type, NEW x, NEW y
  PROVE  Aimed(Renc(type, x, Reread(t))) = Aimed(Renc(type, y, t))
<1> DEFINE s == Reread(t)
<1>1. t.remote \in Int /\ t.io \in Int /\ t.pin \in Int
  BY DEF Savable, Byte, None
<1>2. /\ Signed8(t.remote) \in Int /\ Signed8(t.io) \in Int /\ Signed8(t.pin) \in Int
      /\ t.remote \in Byte => Signed8(t.remote) = t.remote
      /\ t.io \in Byte => Signed8(t.io) = t.io
      /\ t.pin \in Byte => Signed8(t.pin) = t.pin
  <2>1. \A n \in Int : Signed8(n) \in Byte /\ (n \in Byte => Signed8(n) = n)
    BY Signed
  <2>2. \A n \in Byte : n \in Int
    BY DEF Byte
  <2> QED BY <1>1, <2>1, <2>2, Zenon
<1>3. None \in Int /\ None < 0 /\ Signed8(None) = None
  BY DEF None, Signed8
<1>4. CASE Whole(t)
  <2>1. /\ s.io = t.io /\ s.pin = t.pin
        /\ s.remote = IF t.remote >= 0 THEN t.remote ELSE None
    BY <1>4 DEF Reread
  <2>2. t.remote < 0 => t.remote \in Byte
    BY <1>1, <1>3 DEF Savable, Byte, None
  <2> HIDE DEF s
  <2>3. Signed8(s.io) = Signed8(t.io) /\ Signed8(s.pin) = Signed8(t.pin)
    BY <2>1
  <2>4. (IF Signed8(s.remote) >= 0 THEN Signed8(s.remote) ELSE None)
          = (IF Signed8(t.remote) >= 0 THEN Signed8(t.remote) ELSE None)
    BY <1>1, <1>2, <1>3, <2>1, <2>2
  <2> QED BY <2>3, <2>4, Zenon DEF Aimed, Renc, s
<1>5. CASE ~Whole(t)
  <2>1. s = NoTarget /\ s.io = None
    BY <1>5 DEF Reread, NoTarget
  <2>2. t.io \in Byte /\ t.pin \in Byte
    BY <1>1, <1>5 DEF Whole, Savable
  <2>3. ~(Signed8(t.io) >= 0 /\ Signed8(t.pin) >= 0)
    BY <1>2, <1>5, <2>2 DEF Whole
  <2> HIDE DEF s
  <2>4. Aimed(Renc(type, y, t)) = NoTarget
    BY <2>3 DEF Aimed, Renc
  <2>5. Aimed(Renc(type, x, s)) = NoTarget
    BY <1>3, <2>1 DEF Aimed, Renc
  <2> QED BY <2>4, <2>5 DEF s
<1> QED BY <1>4, <1>5

LEMMA BackRotary ==
  ASSUME NEW p, NEW e, NEW d, Stores(e, d), d.mode = "rotary_encoder",
         NEW t, Savable(t), NEW type, NEW x, d.shared = Renc(type, x, t),
         "renc.pintype" \in DOMAIN e, e["renc.pintype"] = type,
         Get(e, "renc.remote", None) = (IF t.remote >= 0 THEN t.remote ELSE None),
         IF Whole(t)
         THEN /\ Has(e, {"renc.trigger_pin.io", "renc.trigger_pin.pin"})
              /\ e["renc.trigger_pin.io"] = t.io /\ e["renc.trigger_pin.pin"] = t.pin
         ELSE "renc.trigger_pin.io" \notin DOMAIN e
  PROVE  ComesBack(p, e, d)
<1> DEFINE c == Found(p, e)
           s == Reread(t)
           r == [c EXCEPT !.shared = Renc(type, 0, s)]
           u == [remote |-> Get(e, "renc.remote", None),
                 io |-> Get(e, "renc.trigger_pin.io", None),
                 pin |-> Get(e, "renc.trigger_pin.pin", None)]
           whole == Has(e, {"renc.trigger_pin.io", "renc.trigger_pin.pin"})
<1>1. /\ IsConfig(c) /\ c.mode = d.mode /\ c.llmode = d.llmode
      /\ RestoredPin(p, e) = RestoreRotary(e, c)
  BY FoundWith DEF Stores
<1> HIDE DEF c
<1>2. (IF whole THEN u ELSE NoTarget) = s
  <2>1. CASE Whole(t)
    <3>1. /\ whole /\ Get(e, "renc.trigger_pin.io", None) = t.io
          /\ Get(e, "renc.trigger_pin.pin", None) = t.pin
      BY <2>1 DEF Has, Get
    <3> HIDE DEF whole
    <3> QED BY <2>1, <3>1 DEF Reread
  <2>2. CASE ~Whole(t)
    <3>1. ~whole
      BY <2>2 DEF Has
    <3> HIDE DEF whole, u
    <3> QED BY <2>2, <3>1 DEF Reread
  <2> QED BY <2>1, <2>2
<1>3. RestoredPin(p, e) = r
  <2>1. RestoreRotary(e, c) =
          [c EXCEPT !.shared = Renc(e["renc.pintype"], 0, IF whole THEN u ELSE NoTarget)]
    <3>1. Has(e, {"renc.pintype"})
      BY DEF Has
    <3> QED BY <3>1, Zenon DEF RestoreRotary
  <2> HIDE DEF whole, u, s
  <2> QED BY <1>1, <1>2, <2>1
<1>4. r.mode = d.mode /\ r.llmode = d.llmode /\ r.shared = Renc(type, 0, s)
  BY <1>1 DEF IsConfig
<1>5. Aimed(Renc(type, 0, s)) = Aimed(Renc(type, x, t))
  BY AimedAgain
<1> HIDE DEF r, s
<1>6. Renc(type, 0, s).pin_type = type /\ Renc(type, x, t).pin_type = type
  BY DEF Renc
<1>7. Settings(r) = Settings(d)
  BY <1>1, <1>4, <1>5, <1>6, SettingsIs
<1> QED BY <1>3, <1>4, <1>7 DEF ComesBack, SameSettings

\* What an encoder's pin saved is what it was given.
LEMMA RencGot ==
  ASSUME NEW type, NEW t, t.remote \in Int, t.io \in Int, t.pin \in Int
  PROVE  LET e == RencEntries(type, t)
         IN  /\ "renc.pintype" \in DOMAIN e /\ e["renc.pintype"] = type
             /\ Get(e, "renc.remote", None) = (IF t.remote >= 0 THEN t.remote ELSE None)
             /\ IF Whole(t)
                THEN /\ Has(e, {"renc.trigger_pin.io", "renc.trigger_pin.pin"})
                     /\ e["renc.trigger_pin.io"] = t.io /\ e["renc.trigger_pin.pin"] = t.pin
                ELSE /\ "renc.trigger_pin.io" \notin DOMAIN e
                     /\ "renc.trigger_pin.pin" \notin DOMAIN e
<1> DEFINE x == Entry("renc.pintype", type)
           y == IF t.remote >= 0 THEN Entry("renc.remote", t.remote) ELSE <<>>
           v == Entry("renc.trigger_pin.io", t.io) ++ Entry("renc.trigger_pin.pin", t.pin)
           z == IF Whole(t) THEN v ELSE <<>>
           e == RencEntries(type, t)
<1>0. DOMAIN <<>> = {}
  OBVIOUS
<1>1. DOMAIN x = {"renc.pintype"} /\ x["renc.pintype"] = type
  BY DEF Entry
<1>2. /\ DOMAIN y = (IF t.remote >= 0 THEN {"renc.remote"} ELSE {})
      /\ t.remote >= 0 => y["renc.remote"] = t.remote
  BY <1>0 DEF Entry
<1>3. /\ DOMAIN v = {"renc.trigger_pin.io", "renc.trigger_pin.pin"}
      /\ v["renc.trigger_pin.io"] = t.io /\ v["renc.trigger_pin.pin"] = t.pin
  BY DEF Entry, ++
<1> HIDE DEF v
<1>4. /\ DOMAIN z = (IF Whole(t) THEN DOMAIN v ELSE {})
      /\ Whole(t) => z = v
  BY <1>0
<1>6. e = x ++ y ++ z
  BY DEF RencEntries, Whole, v
<1> HIDE DEF x, y, z, e
<1>7. /\ DOMAIN e = DOMAIN x \cup DOMAIN y \cup DOMAIN z
      /\ \A n \in DOMAIN e : e[n] = IF n \in DOMAIN x THEN x[n]
                                    ELSE IF n \in DOMAIN y THEN y[n] ELSE z[n]
  BY <1>6 DEF ++
<1>8. "renc.pintype" \in DOMAIN e /\ e["renc.pintype"] = type
  BY <1>1, <1>7
<1>9. Get(e, "renc.remote", None) = (IF t.remote >= 0 THEN t.remote ELSE None)
  BY <1>1, <1>2, <1>3, <1>4, <1>7 DEF Get
<1>10. CASE Whole(t)
  <2>1. /\ Has(e, {"renc.trigger_pin.io", "renc.trigger_pin.pin"})
        /\ e["renc.trigger_pin.io"] = t.io /\ e["renc.trigger_pin.pin"] = t.pin
    BY <1>1, <1>2, <1>3, <1>4, <1>7, <1>10 DEF Has
  <2> QED BY <1>8, <1>9, <1>10, <2>1, Zenon DEF e
<1>11. CASE ~Whole(t)
  <2>1. /\ "renc.trigger_pin.io" \notin DOMAIN e /\ "renc.trigger_pin.pin" \notin DOMAIN e
    BY <1>1, <1>2, <1>4, <1>7, <1>11
  <2> QED BY <1>8, <1>9, <1>11, <2>1, Zenon DEF e
<1> QED BY <1>10, <1>11

\* What a mode saved is in flash, and no flags.
LEMMA SavedGot ==
  ASSUME NEW cmd, NEW out, cmd.mode # "disabled", DOMAIN out.entries \cap Renamed = {},
         NEW e, e = Saved(cmd, out)
  PROVE  /\ Has(e, {"mode", "llmode"}) /\ e["mode"] = cmd.mode /\ e["llmode"] = out.llmode
         /\ "flags" \notin DOMAIN e
         /\ \A n : n \notin {"mode", "llmode"} =>
              /\ n \in DOMAIN e <=> n \in DOMAIN out.entries
              /\ n \in DOMAIN e => e[n] = out.entries[n]
              /\ \A d : Get(e, n, d) = Get(out.entries, n, d)
<1>1. /\ DOMAIN e = {"mode", "llmode"} \cup DOMAIN out.entries
      /\ e["mode"] = cmd.mode /\ e["llmode"] = out.llmode
      /\ \A n \in DOMAIN out.entries \ {"mode", "llmode"} : e[n] = out.entries[n]
  BY SavedIs
<1>2. Has(e, {"mode", "llmode"}) /\ "flags" \notin DOMAIN e
  BY <1>1 DEF Has, Renamed
<1>3. ASSUME NEW n, n \notin {"mode", "llmode"}
      PROVE  /\ n \in DOMAIN e <=> n \in DOMAIN out.entries
             /\ n \in DOMAIN e => e[n] = out.entries[n]
             /\ \A d : Get(e, n, d) = Get(out.entries, n, d)
  BY <1>1, <1>3 DEF Get
<1> QED BY <1>1, <1>2, <1>3

\* What a trigger's pin saved is what it was given.
LEMMA TriggersGot ==
  ASSUME NEW a, NEW b
  PROVE  LET e == TriggersSaved(a, b)
         IN  /\ {"trigger.0.io", "trigger.0.pin", "trigger.0.type"} \subseteq DOMAIN e
             /\ e["trigger.0.io"] = a.io /\ e["trigger.0.pin"] = a.pin
             /\ e["trigger.0.type"] = a.action
             /\ IF b.action = "none"
                THEN "trigger.1.io" \notin DOMAIN e
                ELSE /\ {"trigger.1.io", "trigger.1.pin", "trigger.1.type"} \subseteq DOMAIN e
                     /\ e["trigger.1.io"] = b.io /\ e["trigger.1.pin"] = b.pin
                     /\ e["trigger.1.type"] = b.action
<1> DEFINE x == TriggerEntries(a, "trigger.0.io", "trigger.0.pin", "trigger.0.type")
           v == TriggerEntries(b, "trigger.1.io", "trigger.1.pin", "trigger.1.type")
           y == IF b.action = "none" THEN <<>> ELSE v
           e == TriggersSaved(a, b)
<1>0. DOMAIN <<>> = {}
  OBVIOUS
<1>1. /\ DOMAIN x = {"trigger.0.io", "trigger.0.pin", "trigger.0.type"}
      /\ x["trigger.0.io"] = a.io /\ x["trigger.0.pin"] = a.pin
      /\ x["trigger.0.type"] = a.action
  BY DEF TriggerEntries, ++, Entry
<1>2. /\ DOMAIN v = {"trigger.1.io", "trigger.1.pin", "trigger.1.type"}
      /\ v["trigger.1.io"] = b.io /\ v["trigger.1.pin"] = b.pin
      /\ v["trigger.1.type"] = b.action
  BY DEF TriggerEntries, ++, Entry
<1>3. e = x ++ y
  BY DEF TriggersSaved
<1> HIDE DEF x, v
<1>4. /\ DOMAIN y = (IF b.action = "none" THEN {} ELSE DOMAIN v)
      /\ b.action # "none" => y = v
  BY <1>0
<1> HIDE DEF y, e
<1>5. /\ DOMAIN e = DOMAIN x \cup DOMAIN y
      /\ \A n \in DOMAIN e : e[n] = IF n \in DOMAIN x THEN x[n] ELSE y[n]
  BY <1>3 DEF ++
<1>6. /\ {"trigger.0.io", "trigger.0.pin", "trigger.0.type"} \subseteq DOMAIN e
      /\ e["trigger.0.io"] = a.io /\ e["trigger.0.pin"] = a.pin
      /\ e["trigger.0.type"] = a.action
  BY <1>1, <1>5
<1>7. CASE b.action = "none"
  BY <1>1, <1>4, <1>5, <1>6, <1>7 DEF e
<1>8. CASE b.action # "none"
  <2>1. /\ {"trigger.1.io", "trigger.1.pin", "trigger.1.type"} \subseteq DOMAIN e
        /\ e["trigger.1.io"] = b.io /\ e["trigger.1.pin"] = b.pin
        /\ e["trigger.1.type"] = b.action
    BY <1>1, <1>2, <1>4, <1>5, <1>8
  <2> QED BY <1>6, <1>8, <2>1 DEF e
<1> QED BY <1>7, <1>8

\* What io-mode makes of a pin, with nothing of another.
LEMMA OthersComeBack ==
  ASSUME NEW config, NEW P, NEW p \in P, DOMAIN config = P, IsConfig(config[p]),
         NEW cmd, Given(cmd), cmd.mode \notin {"disabled", "rotary_encoder"},
         NEW out, out = Branch(p, config, cmd), out.ok
  PROVE  Apart(out, config, p, P) /\ ComesBack(p, Saved(cmd, out), Forced(cmd, out, p))
<1> DEFINE args == cmd.args
           e == Saved(cmd, out)
           d == Forced(cmd, out, p)
           x == out.config[p]
<1>1. ASSUME Apart(out, config, p, P), out.llmode # "disabled"
      PROVE  /\ Stores(e, d) /\ d.mode = cmd.mode /\ d.llmode = out.llmode
             /\ d.speed = x.speed /\ d.direction = x.direction /\ d.shared = x.shared
             /\ \A n : n \notin {"mode", "llmode"} =>
                  /\ n \in DOMAIN e <=> n \in DOMAIN out.entries
                  /\ n \in DOMAIN e => e[n] = out.entries[n]
                  /\ \A v : Get(e, n, v) = Get(out.entries, n, v)
  <2>1. IsConfig(x) /\ DOMAIN out.entries \cap Renamed = {}
    BY <1>1 DEF Apart, OwnOnly
  <2>2. /\ d.mode = cmd.mode /\ d.llmode = out.llmode
        /\ d.speed = x.speed /\ d.direction = x.direction /\ d.shared = x.shared
    BY <2>1 DEF Forced, IsConfig
  <2> HIDE DEF d, x, e
  <2>3. cmd.mode # "disabled"
    OBVIOUS
  <2>4. /\ Has(e, {"mode", "llmode"}) /\ e["mode"] = cmd.mode /\ e["llmode"] = out.llmode
        /\ \A n : n \notin {"mode", "llmode"} =>
             /\ n \in DOMAIN e <=> n \in DOMAIN out.entries
             /\ n \in DOMAIN e => e[n] = out.entries[n]
             /\ \A v : Get(e, n, v) = Get(out.entries, n, v)
    BY <2>1, <2>3, SavedGot DEF e
  <2> QED BY <1>1, <2>2, <2>3, <2>4 DEF Stores
<1> HIDE DEF e, d
<1>2. CASE cmd.mode \in {"input_digital", "counter", "output_digital", "input_analog",
                         "uart", "cfa634", "spi", "pcint"}
  <2>1. PICK cap, llmode :
          /\ out = Plain(p, config, cap, llmode) /\ llmode # "disabled"
          /\ cmd.mode = "cfa634" => cap = "uart"
          /\ cmd.mode = "spi" => cap = "spi"
          /\ cmd.mode = "pcint" => cap = "pin_change_int"
    BY <1>2, BranchOf DEF InputDigital, Counter, OutputDigital, InputAnalog, Uart, Cfa634,
                          Spi, Pcint
  <2>2. Can(p, cap) /\ Apart(out, config, p, P) /\ out.llmode = llmode
    BY <2>1, PlainIs
  <2>3. Stores(e, d) /\ d.mode = cmd.mode
    BY <1>1, <2>1, <2>2
  <2>4. ComesBack(p, e, d)
    BY <1>2, <2>1, <2>2, <2>3, BackPlain DEF PwmModes
  <2> QED BY <2>2, <2>4 DEF e, d
<1>3. CASE cmd.mode = "ledpixel"
  <2>1. out = LedpixelMode(p, config)
    BY <1>3, BranchOf, Zenon
  <2>2. ~RefusedLedpixel(p) /\ Apart(out, config, p, P) /\ out.llmode \in {"i2s", "uart"}
    BY <2>1, LedpixelIs
  <2>3. Stores(e, d) /\ d.mode = cmd.mode
    BY <1>1, <2>2
  <2>4. ComesBack(p, e, d)
    BY <1>3, <2>2, <2>3, BackPlain DEF PwmModes
  <2> QED BY <2>2, <2>4 DEF e, d
<1>4. CASE cmd.mode = "timer"
  <2>1. out = Timer(p, config, args)
    BY <1>4, BranchOf, Zenon
  <2> DEFINE f == Entry("timer.direction", args[1]) ++ Entry("timer.delay", args[2])
  <2>2. /\ Can(p, "output_digital") /\ Apart(out, config, p, P)
        /\ out.llmode = "output_digital" /\ out.entries = f
        /\ out.config = TimerSet(config, p, args)
    BY <2>1, TimerIs
  <2>3. x.direction = args[1] /\ x.speed = args[2] % SpeedLimit
    BY <2>2 DEF IsConfig, TimerSet
  <2>4. /\ DOMAIN f = {"timer.direction", "timer.delay"}
        /\ f["timer.direction"] = args[1] /\ f["timer.delay"] = args[2]
    BY DEF ++, Entry
  <2> HIDE DEF x, f
  <2>5. /\ Stores(e, d) /\ d.mode = cmd.mode /\ d.speed = x.speed /\ d.direction = x.direction
        /\ {"timer.direction", "timer.delay"} \subseteq DOMAIN e
        /\ e["timer.direction"] = args[1] /\ e["timer.delay"] = args[2]
    BY <1>1, <2>2, <2>4
  <2>6. ComesBack(p, e, d)
    BY <1>4, <2>2, <2>3, <2>5, BackTimer DEF Has
  <2> QED BY <2>2, <2>6 DEF e, d
<1>5. CASE cmd.mode = "i2c"
  <2>1. out = I2c(p, config, args)
    BY <1>5, BranchOf, Zenon
  <2>2. /\ Can(p, "i2c") /\ Apart(out, config, p, P) /\ out.llmode = "i2c"
        /\ out.entries = Entry("i2c.pinmode", args[1])
        /\ out.config = SharedSet(config, p, [kind |-> "i2c", pin_mode |-> args[1]])
    BY <2>1, I2cIs
  <2>3. x.shared = [kind |-> "i2c", pin_mode |-> args[1]]
    BY <2>2 DEF IsConfig, SharedSet
  <2>4. DOMAIN out.entries = {"i2c.pinmode"} /\ out.entries["i2c.pinmode"] = args[1]
    BY <2>2 DEF Entry
  <2> HIDE DEF x
  <2>5. /\ Stores(e, d) /\ d.mode = cmd.mode /\ d.shared = x.shared
        /\ "i2c.pinmode" \in DOMAIN e /\ e["i2c.pinmode"] = args[1]
    BY <1>1, <2>2, <2>4
  <2>6. ComesBack(p, e, d)
    BY <1>5, <2>2, <2>3, <2>5, BackShared DEF Has
  <2> QED BY <2>2, <2>6 DEF e, d
<1>6. CASE cmd.mode = "lcd"
  <2> DEFINE use == Arg(args, 1, "")
  <2>1. out = Lcd(p, config, args)
    BY <1>6, BranchOf, Zenon
  <2>2. /\ Apart(out, config, p, P) /\ out.llmode \in Outputs
        /\ out.entries = Entry("lcd.pin", use)
        /\ out.config = SharedSet(config, p, LcdShared(use))
    <3>1. \A a : out = Lcd(p, config, a) =>
            /\ Apart(out, config, p, P) /\ out.llmode \in Outputs
            /\ out.entries = Entry("lcd.pin", Arg(a, 1, ""))
            /\ out.config = SharedSet(config, p, LcdShared(Arg(a, 1, "")))
      BY LcdIs
    <3> QED BY <2>1, <3>1
  <2> HIDE DEF use
  <2>3. x.shared = [kind |-> "lcd", pin_use |-> use]
    BY <2>2 DEF IsConfig, SharedSet, LcdShared
  <2>4. DOMAIN out.entries = {"lcd.pin"} /\ out.entries["lcd.pin"] = use
    BY <2>2 DEF Entry
  <2> HIDE DEF x
  <2>5. /\ Stores(e, d) /\ d.mode = cmd.mode /\ d.shared = x.shared
        /\ "lcd.pin" \in DOMAIN e /\ e["lcd.pin"] = use
    BY <1>1, <2>2, <2>4 DEF Outputs
  <2>6. ComesBack(p, e, d)
    BY <1>6, <2>2, <2>3, <2>5, BackShared DEF Has
  <2> QED BY <2>2, <2>6 DEF e, d
<1>7. CASE cmd.mode \in PwmModes
  <2> DEFINE l == Arg(args, 1, 0)
             u == PwmUpper(args)
             s == Arg(args, 3, 0)
  <2>1. out = Modulated(p, config, args, cmd.mode)
    BY <1>7, BranchOf DEF OutputPwm1, OutputPwm2, PwmModes
  <2>2. /\ Can(p, cmd.mode) /\ Apart(out, config, p, P) /\ out.llmode = cmd.mode
        /\ out.entries = PwmEntries(l, u, s) /\ out.config = PwmSet(config, p, args)
    <3>1. \A llmode : out = Modulated(p, config, args, llmode) =>
            /\ Can(p, llmode) /\ Apart(out, config, p, P) /\ out.llmode = llmode
            /\ out.entries = PwmEntries(l, u, s) /\ out.config = PwmSet(config, p, args)
      BY ModulatedIs
    <3> HIDE DEF l, u, s
    <3> QED BY <2>1, <3>1
  <2>3. x.speed = s % SpeedLimit /\ x.shared = PwmShared(l, u)
    BY <2>2 DEF PwmSet, IsConfig
  <2>4. l \in Nat /\ s \in Nat /\ u \in 0 .. Unbounded
    <3>1. \A i \in 1 .. 3 : Arg(args, i, 0) \in 0 .. Unbounded
      BY <1>7 DEF Given
    <3>2. Arg(args, 1, 0) \in 0 .. Unbounded /\ Arg(args, 3, 0) \in 0 .. Unbounded
          /\ Arg(args, 2, 0) \in 0 .. Unbounded
      BY <3>1
    <3>3. Arg(args, 2, 0) # 0 => Arg(args, 2, 0) = args[2]
      BY DEF Arg
    <3>4. Unbounded \in 0 .. Unbounded
      BY UnboundedNumber
    <3> QED BY <3>2, <3>3, <3>4 DEF PwmUpper
  <2> HIDE DEF x, l, u, s
  <2>5. /\ Get(out.entries, "outputa.speed", 0) = s /\ Get(out.entries, "outputa.lower", 0) = l
        /\ Get(out.entries, "outputa.upper", Unbounded) = u
    BY <2>2, <2>4, PwmGot
  <2>6. /\ Stores(e, d) /\ d.mode = cmd.mode /\ d.speed = x.speed /\ d.shared = x.shared
        /\ Get(e, "outputa.speed", 0) = s /\ Get(e, "outputa.lower", 0) = l
        /\ Get(e, "outputa.upper", Unbounded) = u
    BY <1>1, <1>7, <2>2, <2>5 DEF PwmModes
  <2>7. ComesBack(p, e, d)
    BY <1>7, <2>2, <2>3, <2>6, BackPwm
  <2> QED BY <2>2, <2>7 DEF e, d
<1>8. CASE cmd.mode = "trigger"
  <2> DEFINE a == FirstOf(args)
             b == SecondOf(args)
  <2>1. out = Trigger(p, config, args)
    BY <1>8, BranchOf, Zenon
  <2>2. /\ Can(p, "counter") /\ Complete(args, 1)
        /\ Apart(out, config, p, P) /\ out.llmode = "counter"
        /\ out.entries = TriggersSaved(a, b)
        /\ out.config = SharedSet(config, p, Triggers(a, b))
    BY <2>1, TriggerIs
  <2>3. x.shared = Triggers(a, b)
    BY <2>2 DEF IsConfig, SharedSet
  <2>4. Target(a.io, a.pin, a.action) = a /\ Target(b.io, b.pin, b.action) = b
    <3>1. Len(args) \in Nat /\ \A i \in {2, 3, 5, 6} : Arg(args, i, 0) \in Nat
      BY <1>8 DEF Given
    <3>2. args[2] \in Int /\ args[3] \in Int
      BY <2>2, <3>1 DEF Complete, Arg
    <3>3. Complete(args, 4) => args[5] \in Int /\ args[6] \in Int
      BY <3>1 DEF Complete, Arg
    <3>4. a = Target(args[2], args[3], args[1])
      BY DEF FirstOf
    <3>5. /\ Complete(args, 4) => b = Target(args[5], args[6], args[4])
          /\ ~Complete(args, 4) => b = Target(None, None, "none")
      BY DEF SecondOf, NoTrigger
    <3>6. None \in Int
      BY DEF None
    <3> HIDE DEF a, b
    <3> QED BY <3>2, <3>3, <3>4, <3>5, <3>6, TargetAgain
  <2> HIDE DEF x, a, b
  <2> DEFINE f == TriggersSaved(a, b)
  <2>5. /\ {"trigger.0.io", "trigger.0.pin", "trigger.0.type"} \subseteq DOMAIN f
        /\ f["trigger.0.io"] = a.io /\ f["trigger.0.pin"] = a.pin
        /\ f["trigger.0.type"] = a.action
        /\ IF b.action = "none"
           THEN "trigger.1.io" \notin DOMAIN f
           ELSE /\ {"trigger.1.io", "trigger.1.pin", "trigger.1.type"} \subseteq DOMAIN f
                /\ f["trigger.1.io"] = b.io /\ f["trigger.1.pin"] = b.pin
                /\ f["trigger.1.type"] = b.action
    BY TriggersGot
  <2>6. out.entries = f
    BY <2>2
  <2> HIDE DEF f
  <2>7. /\ Stores(e, d) /\ d.mode = cmd.mode /\ d.shared = x.shared
        /\ \A n : n \notin {"mode", "llmode"} =>
             /\ n \in DOMAIN e <=> n \in DOMAIN f
             /\ n \in DOMAIN e => e[n] = f[n]
    BY <1>1, <2>2, <2>6
  <2>8. /\ Has(e, {"trigger.0.io", "trigger.0.pin", "trigger.0.type"})
        /\ e["trigger.0.io"] = a.io /\ e["trigger.0.pin"] = a.pin
        /\ e["trigger.0.type"] = a.action
        /\ IF b.action = "none"
           THEN "trigger.1.io" \notin DOMAIN e
           ELSE /\ Has(e, {"trigger.1.io", "trigger.1.pin", "trigger.1.type"})
                /\ e["trigger.1.io"] = b.io /\ e["trigger.1.pin"] = b.pin
                /\ e["trigger.1.type"] = b.action
    BY <2>5, <2>7 DEF Has
  <2>9. d.shared = Triggers(a, b) /\ d.mode = "trigger" /\ Stores(e, d) /\ Can(p, "counter")
    BY <1>8, <2>2, <2>3, <2>7
  <2>10. ComesBack(p, e, d)
    BY <2>4, <2>8, <2>9, BackTrigger
  <2> QED BY <2>2, <2>10 DEF e, d
<1>9. cmd.mode \in io_mode_traits
  BY DEF Given
<1> QED BY <1>2, <1>3, <1>4, <1>5, <1>6, <1>7, <1>8, <1>9 DEF io_mode_traits, PwmModes

\* The 'a' pin that a 'b' pin finds.
LEMMA FoundPartner ==
  ASSUME NEW config, NEW p, p[2] \in Nat, NEW type, Partners(p, config, type) # {},
         NEW n, n = Smallest(Partners(p, config, type)), NEW a, a = <<p[1], n>>
  PROVE  /\ n \in 0 .. p[2] - 1 /\ a \in DOMAIN config /\ a # p
         /\ config[a].mode = "rotary_encoder" /\ config[a].shared.pin_type = AOf(type)
<1> DEFINE S == Partners(p, config, type)
<1>1. \A m \in S : /\ m \in 0 .. p[2] - 1 /\ <<p[1], m>> \in DOMAIN config
                   /\ config[<<p[1], m>>].mode = "rotary_encoder"
                   /\ config[<<p[1], m>>].shared.pin_type = AOf(type)
  BY DEF Partners
<1>2. \A k \in Nat : \A m \in 0 .. k - 1 : m \in Nat /\ m # k
  OBVIOUS
<1> HIDE DEF S
<1>3. S \subseteq Nat /\ S # {}
  BY <1>1, <1>2 DEF S
<1>4. n \in S
  BY <1>3, SmallestIn DEF S
<1>5. n # p[2]
  BY <1>1, <1>2, <1>4
<1>6. a # p
  BY <1>5
<1> QED BY <1>1, <1>4, <1>6

LEMMA AIsNotB == ASSUME NEW type PROVE ~IsB(AOf(type))
BY DEF IsB, AOf

LEMMA EncodingOf ==
  ASSUME NEW p, NEW c, NEW type, NEW x, NEW t, c.shared = Renc(type, x, t),
         t.remote \in Int, t.io \in Int, t.pin \in Int,
         IsB(type) => x \in {0} \cup 0 .. p[2] - 1
  PROVE  Encoding(p, c)
<1> DEFINE r == Renc(type, x, t)
<1>1. /\ DOMAIN r = {"kind", "pin_type", "partner", "remote", "io", "pin"}
      /\ r.pin_type = type /\ r.partner = x
      /\ r.remote = Signed8(t.remote) /\ r.io = Signed8(t.io) /\ r.pin = Signed8(t.pin)
  BY DEF Renc
<1> HIDE DEF r
<1>2. \A n \in Int : Signed8(n) \in Byte
  BY Signed
<1>3. Signed8(t.remote) \in Byte /\ Signed8(t.io) \in Byte /\ Signed8(t.pin) \in Byte
  BY <1>2
<1>4. c.shared = r
  BY DEF r
<1> QED BY <1>1, <1>3, <1>4 DEF Encoding

\* A partner that is found changes nothing of a pin that is saved.
LEMMA EncodingPartner ==
  ASSUME NEW a, NEW c, IsConfig(c), c.mode = "rotary_encoder", Encoding(a, c),
         NEW n, IsB(c.shared.pin_type) => n \in {0} \cup 0 .. a[2] - 1, NEW d,
         d = [c EXCEPT !.shared = [c.shared EXCEPT !.partner = n]]
  PROVE  Encoding(a, d) /\ SameSettings(c, d)
<1> DEFINE u == [c.shared EXCEPT !.partner = n]
<1>1. /\ DOMAIN c.shared = {"kind", "pin_type", "partner", "remote", "io", "pin"}
      /\ c.shared.remote \in Byte /\ c.shared.io \in Byte /\ c.shared.pin \in Byte
  BY DEF Encoding, Encoder
<1>2. /\ DOMAIN u = DOMAIN c.shared /\ u.pin_type = c.shared.pin_type
      /\ u.remote = c.shared.remote /\ u.io = c.shared.io /\ u.pin = c.shared.pin
  BY <1>1
<1> HIDE DEF u
<1>3. d.mode = c.mode /\ d.llmode = c.llmode /\ d.shared = u
  BY DEF IsConfig, u
<1>4. Encoding(a, d)
  BY <1>1, <1>2, <1>3 DEF Encoding, u
<1>5. Aimed(u) = Aimed(c.shared)
  BY <1>2 DEF Aimed
<1>6. /\ Settings(c) = [type |-> c.shared.pin_type, target |-> Aimed(c.shared)]
      /\ Settings(d) = [type |-> u.pin_type, target |-> Aimed(u)]
  BY <1>3, SettingsIs, Zenon
<1>7. Settings(c) = Settings(d)
  BY <1>2, <1>5, <1>6
<1> QED BY <1>3, <1>4, <1>7 DEF SameSettings

LEMMA SavableInt ==
  ASSUME NEW t, Savable(t) PROVE t.remote \in Int /\ t.io \in Int /\ t.pin \in Int
BY DEF Savable, Byte, None

LEMMA RotaryComesBack ==
  ASSUME NEW config, NEW P, NEW p \in P, p[2] \in Nat, DOMAIN config = P,
         \A q \in P : IsConfig(config[q]) /\ Encoding(q, config[q]),
         NEW cmd, Given(cmd), cmd.mode = "rotary_encoder",
         NEW out, out = Branch(p, config, cmd), out.ok
  PROVE  /\ ComesBack(p, Saved(cmd, out), Forced(cmd, out, p))
         /\ Encoding(p, Forced(cmd, out, p)) /\ Numbers(Saved(cmd, out))
         /\ \A q \in P \ {p} : /\ Encoding(q, out.config[q])
                               /\ SameSettings(config[q], out.config[q])
<1> DEFINE args == cmd.args
           e == Saved(cmd, out)
           d == Forced(cmd, out, p)
           type == Arg(args, 1, "")
           own == RencTarget(args)
           a == EncoderA(p, config, args)
<1>1. out = RotaryEncoder(p, config, args)
  BY BranchOf, Zenon
<1> DEFINE w == RotaryEncoder(p, config, args)
<1>2. RotarySet(w, p, config, args)
  BY <1>1, RotaryIs
<1>3. Can(p, "rotary_encoder") /\ w.llmode = "counter"
  BY <1>2, Zenon DEF RotarySet
<1>4. out.llmode = "counter"
  BY <1>1, <1>3
<1>5. IsConfig(out.config[p]) /\ DOMAIN out.entries \cap Renamed = {}
  <2>1. \A q \in P : IsConfig(config[q])
    OBVIOUS
  <2>2. Touched(config, out.config, p, P) /\ DOMAIN out.entries \cap Renamed = {}
    BY <1>1, <2>1, RotaryTouches
  <2> QED BY <2>2 DEF Touched
<1>6. ASSUME NEW t, Savable(t), NEW x, IsB(type) => x \in {0} \cup 0 .. p[2] - 1,
             out.entries = RencEntries(type, t), out.config[p].shared = Renc(type, x, t)
      PROVE  ComesBack(p, e, d) /\ Encoding(p, d) /\ Numbers(e)
  <2>1. d.mode = "rotary_encoder" /\ d.llmode = "counter" /\ d.shared = Renc(type, x, t)
    BY <1>4, <1>5, <1>6 DEF Forced, IsConfig
  <2>2. t.remote \in Int /\ t.io \in Int /\ t.pin \in Int
    BY <1>6, SavableInt
  <2>3. Encoding(p, d)
    <3> HIDE DEF d, type
    <3> QED BY <1>6, <2>1, <2>2, EncodingOf
  <2> DEFINE f == RencEntries(type, t)
  <2>4. /\ "renc.pintype" \in DOMAIN f /\ f["renc.pintype"] = type
        /\ Get(f, "renc.remote", None) = (IF t.remote >= 0 THEN t.remote ELSE None)
        /\ IF Whole(t)
           THEN /\ Has(f, {"renc.trigger_pin.io", "renc.trigger_pin.pin"})
                /\ f["renc.trigger_pin.io"] = t.io /\ f["renc.trigger_pin.pin"] = t.pin
           ELSE /\ "renc.trigger_pin.io" \notin DOMAIN f
                /\ "renc.trigger_pin.pin" \notin DOMAIN f
    <3> HIDE DEF type
    <3> QED BY <2>2, RencGot
  <2>5. out.entries = f
    BY <1>6
  <2> HIDE DEF f, d, e, type
  <2>6. /\ Has(e, {"mode", "llmode"}) /\ e["mode"] = cmd.mode /\ e["llmode"] = out.llmode
        /\ \A n : n \notin {"mode", "llmode"} =>
             /\ n \in DOMAIN e <=> n \in DOMAIN f
             /\ n \in DOMAIN e => e[n] = f[n]
             /\ \A v : Get(e, n, v) = Get(f, n, v)
    <3>1. cmd.mode # "disabled"
      OBVIOUS
    <3> QED BY <1>5, <2>5, <3>1, SavedGot DEF e
  <2>7. Stores(e, d)
    BY <1>4, <2>1, <2>6 DEF Stores
  <2>8. /\ "renc.pintype" \in DOMAIN e /\ e["renc.pintype"] = type
        /\ Get(e, "renc.remote", None) = (IF t.remote >= 0 THEN t.remote ELSE None)
    BY <2>4, <2>6
  <2>9. IF Whole(t)
        THEN /\ Has(e, {"renc.trigger_pin.io", "renc.trigger_pin.pin"})
             /\ e["renc.trigger_pin.io"] = t.io /\ e["renc.trigger_pin.pin"] = t.pin
        ELSE /\ "renc.trigger_pin.io" \notin DOMAIN e
             /\ "renc.trigger_pin.pin" \notin DOMAIN e
    BY <2>4, <2>6 DEF Has
  <2>10. ComesBack(p, e, d)
    BY <1>6, <2>1, <2>7, <2>8, <2>9, BackRotary
  <2>11. None \in Int
    BY DEF None
  <2>12. Numbers(e)
    BY <2>2, <2>8, <2>9, <2>11 DEF Numbers, RencNumbers, Get, Has
  <2> QED BY <2>3, <2>10, <2>12
<1> HIDE DEF e, d
<1>7. CASE ~IsB(type)
  <2> DEFINE v == Renc(type, Partner(config[p]), own)
  <2>0. w.entries = RencEntries(type, own) /\ w.config = SharedSet(config, p, v)
    BY <1>2, <1>7, Zenon DEF RotarySet
  <2> HIDE DEF w, v
  <2>1. out.entries = RencEntries(type, own) /\ out.config = [config EXCEPT ![p].shared = v]
    BY <1>1, <2>0 DEF w, SharedSet
  <2>2. Savable(own)
    <3>1. \/ own = NoTarget
          \/ {own.io, own.pin} \subseteq Nat /\ own.remote \in Nat \cup {None}
      BY DEF Given
    <3>2. Savable(NoTarget)
      BY DEF NoTarget, Savable, Byte, None
    <3> HIDE DEF own
    <3> QED BY <3>1, <3>2 DEF Savable
  <2> HIDE DEF v, own, type
  <2>3. /\ out.config[p].shared = v
        /\ \A q \in P \ {p} : out.config[q] = config[q]
    BY <2>1 DEF IsConfig
  <2>4. ComesBack(p, e, d) /\ Encoding(p, d) /\ Numbers(e)
    BY <1>6, <1>7, <2>1, <2>2, <2>3 DEF v
  <2> QED BY <2>3, <2>4 DEF SameSettings, e, d
<1>8. CASE IsB(type)
  <2> DEFINE t == config[a].shared
             v == Renc(type, a[2], t)
             u == [t EXCEPT !.partner = p[2]]
             x == [config EXCEPT ![a].shared = u]
             y == [x EXCEPT ![p].shared = v]
  <2>0. /\ w.entries = RencEntries(type, t) /\ Partners(p, config, type) # {}
        /\ w.config = [config EXCEPT ![a].shared.partner = p[2], ![p].shared = v]
    <3>1. /\ w.entries = RencEntries(type, t) /\ Partners(p, config, type) # {}
          /\ w.config = RencPaired(config, p, a, type)
      BY <1>2, <1>8, Zenon DEF RotarySet
    <3> HIDE DEF w, a
    <3> QED BY <3>1 DEF RencPaired
  <2> HIDE DEF w, v
  <2>1. /\ out.entries = RencEntries(type, t) /\ Partners(p, config, type) # {}
        /\ out.config = [config EXCEPT ![a].shared.partner = p[2], ![p].shared = v]
    BY <1>1, <2>0 DEF w
  <2>2. out.config = y
    <3> HIDE DEF v, a
    <3> QED BY <2>1
  <2>3. /\ a[2] \in 0 .. p[2] - 1 /\ a \in P /\ a # p
        /\ config[a].mode = "rotary_encoder" /\ config[a].shared.pin_type = AOf(type)
    <3> DEFINE n == Smallest(Partners(p, config, type))
               b == <<p[1], n>>
    <3>1. /\ n \in 0 .. p[2] - 1 /\ b \in DOMAIN config /\ b # p
          /\ config[b].mode = "rotary_encoder" /\ config[b].shared.pin_type = AOf(type)
      <4>1. Partners(p, config, type) # {}
        BY <2>1
      <4>2. n = Smallest(Partners(p, config, type)) /\ b = <<p[1], n>>
        OBVIOUS
      <4> HIDE DEF n, b, type
      <4> QED BY <4>1, <4>2, FoundPartner
    <3>2. a = b
      BY DEF EncoderA
    <3> HIDE DEF n, a, type
    <3> QED BY <3>1, <3>2
  <2> HIDE DEF v, u, a, type
  <2>4. Savable(t)
    BY <2>3 DEF Savable, Encoding, Encoder
  <2>5. /\ y[p].shared = v
        /\ y[a] = [config[a] EXCEPT !.shared = u]
        /\ \A q \in P \ {p, a} : y[q] = config[q]
    BY <2>3 DEF IsConfig
  <2> HIDE DEF x, y, t
  <2>6. ComesBack(p, e, d) /\ Encoding(p, d) /\ Numbers(e)
    BY <1>6, <2>1, <2>2, <2>3, <2>4, <2>5 DEF v
  <2>7. Encoding(a, y[a]) /\ SameSettings(config[a], y[a])
    <3>1. ~IsB(config[a].shared.pin_type) /\ IsConfig(config[a]) /\ Encoding(a, config[a])
      BY <2>3, AIsNotB
    <3>2. y[a] = [config[a] EXCEPT !.shared = [config[a].shared EXCEPT !.partner = p[2]]]
      BY <2>5 DEF u, t
    <3> QED BY <2>3, <3>1, <3>2, EncodingPartner
  <2>8. \A q \in P \ {p, a} : Encoding(q, y[q]) /\ SameSettings(config[q], y[q])
    BY <2>5 DEF SameSettings
  <2> QED BY <2>2, <2>6, <2>7, <2>8 DEF e, d
<1> QED BY <1>7, <1>8

(* A mode that is given: the pin agrees with what is saved, and no other   *)
(* pin's settings change.                                                  *)
LEMMA NumbersOfNone == ASSUME NEW e, DOMAIN e \cap RencNumbers = {} PROVE Numbers(e)
<1>1. None \in Int
  BY DEF None
<1> QED BY <1>1 DEF Numbers, Get

LEMMA BlankRestored ==
  ASSUME NEW p \in AllPins, p \notin UartPins, NEW e, DOMAIN e = {}
  PROVE  /\ RestoredPin(p, e).mode = "disabled" /\ RestoredPin(p, e).llmode = "disabled"
         /\ Settings(RestoredPin(p, e)) = <<>>
<1> DEFINE c == Found(p, e)
<1>1. p = <<p[1], p[2]>>
  BY DEF AllPins
<1>2. ~(p[1] = Gpio /\ p[2] \in {1, 3})
  BY <1>1 DEF UartPins
<1>3. RestoredMode(p, e) = Blank
  BY <1>2 DEF RestoredMode, Has
<1>4. Blank.mode = "disabled" /\ Blank.llmode = "disabled"
  BY DEF Blank
<1>5. IsConfig(c) /\ c.mode = "disabled" /\ c.llmode = "disabled"
  BY <1>3, <1>4, FoundIs
<1>6. RestoredPin(p, e) = RestoreChecked(p, c)
  BY <1>5 DEF RestoredPin, Found
<1> HIDE DEF c
<1>7. RestoreChecked(p, c) = c
  BY <1>5 DEF RestoreChecked
<1>8. Settings(c) = <<>>
  BY <1>5, SettingsIs DEF PwmModes
<1> QED BY <1>5, <1>6, <1>7, <1>8

LEMMA ModeAgrees ==
  ASSUME NEW config, NEW P, NEW p \in P, p \in AllPins, DOMAIN config = P,
         \A q \in P : IsConfig(config[q]) /\ Encoding(q, config[q]),
         NEW cmd, Given(cmd), NEW out, out = Branch(p, config, cmd), out.ok,
         NEW new, new = InForce(p, cmd, out), NEW e, e = Saved(cmd, out)
  PROVE  /\ Agrees(p, new[p], e) /\ Encoding(p, new[p]) /\ Numbers(e)
         /\ \A q \in P \ {p} : Encoding(q, new[q]) /\ SameSettings(config[q], new[q])
<1> DEFINE d == Forced(cmd, out, p)
<1>1. cmd.mode \in io_mode_traits /\ p[2] \in Nat
  BY DEF Given, AllPins
<1>2. Touched(config, out.config, p, P) /\ DOMAIN out.entries \cap Renamed = {}
  BY <1>1, BranchTouches
<1>3. new = [out.config EXCEPT ![p] = IF init_pin_mode(p, d) THEN d ELSE Off(d)]
  BY ForcedIs, Zenon
<1>4. /\ IsConfig(d) /\ d.mode = cmd.mode /\ d.llmode = out.llmode
      /\ Off(d).mode = "disabled" /\ Off(d).llmode = "disabled"
  BY <1>2 DEF Touched, IsConfig, Forced, Off
<1> HIDE DEF d
<1>5. /\ new[p] = IF init_pin_mode(p, d) THEN d ELSE Off(d)
      /\ \A q \in P \ {p} : new[q] = out.config[q]
  BY <1>2, <1>3 DEF Touched
<1>6. "flags" \notin DOMAIN e
  <2>1. CASE cmd.mode = "disabled"
    <3>1. e = <<>> /\ DOMAIN <<>> = {}
      BY <2>1 DEF Saved
    <3> QED BY <3>1
  <2>2. CASE cmd.mode # "disabled"
    BY <1>2, <2>2, SavedGot
  <2> QED BY <2>1, <2>2
<1>7. ASSUME ComesBack(p, e, d), Encoding(p, d)
      PROVE  Agrees(p, new[p], e) /\ Encoding(p, new[p])
  <2>1. CASE init_pin_mode(p, d)
    BY <1>5, <1>6, <1>7, <2>1 DEF Agrees, Remade, ComesBack
  <2>2. CASE ~init_pin_mode(p, d)
    <3>1. new[p].mode = "disabled"
      BY <1>4, <1>5, <2>2
    <3>2. ~init_pin_mode(p, RestoredPin(p, e))
      BY <1>7, <2>2, InitByLevel DEF ComesBack, SameSettings
    <3> QED BY <3>1, <3>2 DEF Agrees, Remade, Encoding, Encoder
  <2> QED BY <2>1, <2>2
<1>8. CASE cmd.mode = "disabled"
  <2>1. out = Disable(config)
    BY <1>8, BranchOf, Zenon
  <2>2. out.llmode = "disabled" /\ out.config = config
    BY <2>1 DEF Disable, Accepted
  <2>3. DOMAIN e = {}
    <3>1. e = <<>> /\ DOMAIN <<>> = {}
      BY <1>8 DEF Saved
    <3> QED BY <3>1
  <2>4. new[p].mode = "disabled" /\ new[p].llmode = "disabled"
    BY <1>4, <1>5, <1>8, <2>2
  <2>5. Settings(new[p]) = <<>>
    BY <2>4, SettingsIs DEF PwmModes
  <2>6. Agrees(p, new[p], e)
    BY <1>6, <2>3, <2>4, <2>5, BlankRestored DEF Agrees, Remade, SameSettings
  <2>7. Encoding(p, new[p]) /\ Numbers(e)
    BY <2>3, <2>4, NumbersOfNone DEF Encoding, Encoder
  <2> QED BY <1>5, <2>2, <2>6, <2>7 DEF SameSettings
<1>9. CASE cmd.mode = "rotary_encoder"
  <2>1. /\ ComesBack(p, e, d) /\ Encoding(p, d) /\ Numbers(e)
        /\ \A q \in P \ {p} : /\ Encoding(q, out.config[q])
                              /\ SameSettings(config[q], out.config[q])
    BY <1>1, <1>9, RotaryComesBack DEF d
  <2> QED BY <1>5, <1>7, <2>1
<1>10. CASE cmd.mode \notin {"disabled", "rotary_encoder"}
  <2>1. Apart(out, config, p, P) /\ ComesBack(p, e, d)
    BY <1>10, OthersComeBack DEF d
  <2>2. Encoding(p, d)
    BY <1>4, <1>10 DEF Encoding, Encoder
  <2>3. Numbers(e)
    <3>1. \A n : n \notin {"mode", "llmode"} => (n \in DOMAIN e <=> n \in DOMAIN out.entries)
      BY <1>2, <1>10, SavedGot
    <3>2. DOMAIN e \cap RencNumbers = {}
      BY <2>1, <3>1 DEF Apart, RencNumbers
    <3> QED BY <3>2, NumbersOfNone
  <2>4. \A q \in P \ {p} : out.config[q] = config[q]
    BY <2>1 DEF Apart, OwnOnly
  <2> QED BY <1>5, <1>7, <2>1, <2>2, <2>3, <2>4 DEF SameSettings
<1> QED BY <1>8, <1>9, <1>10

(* A flag that is set: what flash has of it, the pin has; and nothing else *)
(* comes back differently.                                                 *)
Alike(c, d) ==
  /\ c.mode = d.mode /\ c.llmode = d.llmode
  /\ c.speed = d.speed /\ c.direction = d.direction /\ c.shared = d.shared

LEMMA AlikeSettings == ASSUME NEW c, NEW d, Alike(c, d) PROVE SameSettings(c, d)
<1>1. Settings(c) = Settings(d)
  BY Zenon DEF Alike, Settings
<1> QED BY <1>1 DEF Alike, SameSettings

LEMMA AlikeSet ==
  ASSUME NEW c, NEW d, IsConfig(c), IsConfig(d), Alike(c, d)
  PROVE  /\ Alike(Off(c), Off(d))
         /\ \A v : Alike([c EXCEPT !.shared = v], [d EXCEPT !.shared = v])
         /\ \A s, v : Alike([c EXCEPT !.speed = s, !.direction = v],
                            [d EXCEPT !.speed = s, !.direction = v])
         /\ \A s, v : Alike([c EXCEPT !.speed = s, !.shared = v],
                            [d EXCEPT !.speed = s, !.shared = v])
BY DEF Alike, IsConfig, Off

LEMMA FlagRestored ==
  ASSUME NEW p, NEW e, NEW flags, NEW f, f = Entry("flags", flags) ++ e
  PROVE  /\ Alike(RestoredPin(p, e), RestoredPin(p, f))
         /\ RestoredPin(p, f).flags = flags
         /\ Numbers(e) => Numbers(f)
<1> DEFINE c == Found(p, e)
           d == Found(p, f)
<1>1. /\ "flags" \in DOMAIN f /\ f["flags"] = flags
      /\ \A n : n # "flags" => /\ n \in DOMAIN f <=> n \in DOMAIN e
                               /\ n \in DOMAIN e => f[n] = e[n]
  BY DEF Entry, ++
<1>2. /\ \A n, v : n # "flags" => Get(f, n, v) = Get(e, n, v)
      /\ \A N : "flags" \notin N => (Has(f, N) <=> Has(e, N))
  BY <1>1 DEF Get, Has
<1>3. Numbers(e) => Numbers(f)
  BY <1>2 DEF Numbers, RencNumbers
<1>4. RestoredMode(p, f) = RestoredMode(p, e)
  BY <1>1, <1>2 DEF RestoredMode, Has
<1>5. RestoredPin(p, f).flags = flags
  <2>1. d.flags = flags
    BY <1>1, FoundIs DEF Get
  <2> QED BY <2>1, RestoredPinTuned DEF Tuned
<1>6. IsConfig(c) /\ IsConfig(d) /\ c.mode = d.mode /\ Alike(c, d)
  <2>1. IsConfig(c) /\ IsConfig(d)
    BY FoundIs
  <2> DEFINE r == RestoredMode(p, e)
  <2>2. c = [r EXCEPT !.flags = Get(e, "flags", {})] /\ d = [r EXCEPT !.flags = Get(f, "flags", {})]
    BY <1>4 DEF Found
  <2> HIDE DEF c, d, r
  <2> QED BY <2>1, <2>2 DEF Alike, IsConfig
<1>7. /\ RestoredPin(p, e) =
          CASE c.mode = "rotary_encoder" -> RestoreRotary(e, c)
            [] c.mode = "trigger" -> RestoreTrigger(p, e, c)
            [] c.mode = "timer" -> RestoreTimer(p, e, c)
            [] c.mode \in {"output_pwm1", "output_pwm2"} -> RestorePwm(p, e, c)
            [] c.mode = "i2c" -> RestoreI2c(p, e, c)
            [] c.mode = "lcd" -> RestoreLcd(e, c)
            [] OTHER -> RestoreChecked(p, c)
      /\ RestoredPin(p, f) =
          CASE d.mode = "rotary_encoder" -> RestoreRotary(f, d)
            [] d.mode = "trigger" -> RestoreTrigger(p, f, d)
            [] d.mode = "timer" -> RestoreTimer(p, f, d)
            [] d.mode \in {"output_pwm1", "output_pwm2"} -> RestorePwm(p, f, d)
            [] d.mode = "i2c" -> RestoreI2c(p, f, d)
            [] d.mode = "lcd" -> RestoreLcd(f, d)
            [] OTHER -> RestoreChecked(p, d)
  BY DEF RestoredPin, Found
<1> HIDE DEF c, d
<1>8. /\ Alike(Off(c), Off(d))
      /\ \A v : Alike([c EXCEPT !.shared = v], [d EXCEPT !.shared = v])
      /\ \A s, v : Alike([c EXCEPT !.speed = s, !.direction = v],
                         [d EXCEPT !.speed = s, !.direction = v])
      /\ \A s, v : Alike([c EXCEPT !.speed = s, !.shared = v],
                         [d EXCEPT !.speed = s, !.shared = v])
  BY <1>6, AlikeSet, Zenon
<1>9. Alike(RestoreRotary(e, c), RestoreRotary(f, d))
  BY <1>1, <1>2, <1>8 DEF RestoreRotary, Has
<1>10. Alike(RestoreTrigger(p, e, c), RestoreTrigger(p, f, d))
  <2> DEFINE G(h, io, pin, type, other) ==
               IF Has(h, {io, pin, type}) THEN Target(h[io], h[pin], h[type]) ELSE other
             T(h) == Triggers(G(h, "trigger.0.io", "trigger.0.pin", "trigger.0.type",
                                G(h, "trigger.io", "trigger.pin", "trigger.type", NoTrigger)),
                              G(h, "trigger.1.io", "trigger.1.pin", "trigger.1.type",
                                NoTrigger))
  <2>1. /\ RestoreTrigger(p, e, c) = IF ~Can(p, "counter") THEN Off(c)
                                     ELSE [c EXCEPT !.shared = T(e)]
        /\ RestoreTrigger(p, f, d) = IF ~Can(p, "counter") THEN Off(d)
                                     ELSE [d EXCEPT !.shared = T(f)]
    BY Zenon DEF RestoreTrigger
  <2>2. \A io, pin, type, other :
          "flags" \notin {io, pin, type} =>
            G(f, io, pin, type, other) = G(e, io, pin, type, other)
    BY <1>1, <1>2 DEF Has
  <2> HIDE DEF G
  <2>3. T(e) = T(f)
    BY <2>2
  <2> HIDE DEF T
  <2>4. Alike(Off(c), Off(d)) /\ Alike([c EXCEPT !.shared = T(e)], [d EXCEPT !.shared = T(f)])
    BY <1>8, <2>3
  <2> QED BY <2>1, <2>4
<1>11. Alike(RestoreTimer(p, e, c), RestoreTimer(p, f, d))
  BY <1>1, <1>2, <1>8 DEF RestoreTimer, Has
<1>12. Alike(RestorePwm(p, e, c), RestorePwm(p, f, d))
  BY <1>2, <1>6, <1>8 DEF RestorePwm
<1>13. Alike(RestoreI2c(p, e, c), RestoreI2c(p, f, d))
  BY <1>1, <1>2, <1>8 DEF RestoreI2c, Has
<1>14. Alike(RestoreLcd(e, c), RestoreLcd(f, d))
  BY <1>1, <1>2, <1>8 DEF RestoreLcd, Has
<1>15. Alike(RestoreChecked(p, c), RestoreChecked(p, d))
  BY <1>6, <1>8 DEF RestoreChecked
<1>16. Alike(RestoredPin(p, e), RestoredPin(p, f))
  <2>1. CASE c.mode \in {"rotary_encoder", "trigger", "timer", "i2c", "lcd"}
    BY <1>6, <1>7, <1>9, <1>10, <1>11, <1>13, <1>14, <2>1
  <2>2. CASE c.mode \in {"output_pwm1", "output_pwm2"}
    BY <1>6, <1>7, <1>12, <2>2
  <2>3. CASE c.mode \notin {"rotary_encoder", "trigger", "timer", "i2c", "lcd",
                            "output_pwm1", "output_pwm2"}
    BY <1>6, <1>7, <1>15, <2>3
  <2> QED BY <2>1, <2>2, <2>3
<1> QED BY <1>3, <1>5, <1>16

LEMMA FlagAgrees ==
  ASSUME NEW p, NEW e, NEW flags, NEW f, f = Entry("flags", flags) ++ e,
         NEW c, IsConfig(c), NEW d, d = [c EXCEPT !.flags = flags]
  PROVE  /\ Agrees(p, c, e) => Agrees(p, d, f)
         /\ Encoding(p, c) => Encoding(p, d)
         /\ Numbers(e) => Numbers(f)
<1>1. Alike(c, d) /\ d.flags = flags
  BY DEF Alike, IsConfig
<1>2. /\ Alike(RestoredPin(p, e), RestoredPin(p, f)) /\ RestoredPin(p, f).flags = flags
      /\ Numbers(e) => Numbers(f)
  BY FlagRestored
<1>3. Encoding(p, c) => Encoding(p, d)
  BY <1>1 DEF Alike, Encoding, Encoder
<1>4. SameSettings(c, d) /\ SameSettings(RestoredPin(p, e), RestoredPin(p, f))
  BY <1>1, <1>2, AlikeSettings
<1>5. init_pin_mode(p, RestoredPin(p, e)) <=> init_pin_mode(p, RestoredPin(p, f))
  BY <1>4, InitByLevel DEF SameSettings
<1>6. Agrees(p, c, e) => Agrees(p, d, f)
  BY <1>1, <1>2, <1>4, <1>5 DEF Agrees, Remade, SameSettings
<1> QED BY <1>2, <1>3, <1>6

(* A restart: every pin agrees with what it is restored from.              *)
LEMMA RotaryRestored ==
  ASSUME NEW p, NEW e, Numbers(e), RestoredPin(p, e).mode = "rotary_encoder"
  PROVE  Encoding(p, RestoredPin(p, e))
<1> DEFINE f == Found(p, e)
           c == RestoredPin(p, e)
           t == [remote |-> Get(e, "renc.remote", None),
                 io |-> Get(e, "renc.trigger_pin.io", None),
                 pin |-> Get(e, "renc.trigger_pin.pin", None)]
           whole == Has(e, {"renc.trigger_pin.io", "renc.trigger_pin.pin"})
           u == IF whole THEN t ELSE NoTarget
           v == Renc(e["renc.pintype"], 0, u)
<1>1. IsConfig(f) /\ Tuned(f, c)
  BY FoundIs, RestoredPinTuned
<1>2. f.mode = "rotary_encoder"
  BY <1>1 DEF Tuned
<1>3. c = RestoreRotary(e, f)
  BY <1>2 DEF RestoredPin, Found
<1> HIDE DEF f, c
<1>4. Off(f).mode = "disabled"
  BY <1>1 DEF Off, IsConfig
<1>5. c = IF ~Has(e, {"renc.pintype"}) THEN Off(f) ELSE [f EXCEPT !.shared = v]
  BY <1>3, Zenon DEF RestoreRotary
<1>6. u.remote \in Int /\ u.io \in Int /\ u.pin \in Int
  BY DEF Numbers, RencNumbers, NoTarget, None
<1> HIDE DEF u
<1>7. c.shared = Renc(e["renc.pintype"], 0, u)
  <2>1. c.mode = "rotary_encoder"
    BY DEF c
  <2> HIDE DEF v
  <2>2. c.shared = v
    BY <1>1, <1>4, <1>5, <2>1 DEF IsConfig
  <2> QED BY <2>2 DEF v
<1>8. Encoding(p, c)
  BY <1>6, <1>7, EncodingOf
<1> QED BY <1>8 DEF c

LEMMA PartnerBelow ==
  ASSUME NEW p, p[2] \in Nat, NEW config, IsB(config[p].shared.pin_type)
  PROVE  RestoredPartner(p, config) \in {0} \cup 0 .. p[2] - 1
<1> DEFINE as == Partners(p, config, config[p].shared.pin_type)
<1>1. RestoredPartner(p, config) = IF as = {} THEN 0 ELSE Smallest(as)
  BY DEF RestoredPartner
<1>2. as # {} => Smallest(as) \in 0 .. p[2] - 1
  BY FoundPartner
<1> QED BY <1>1, <1>2

Afresh(S) == [p \in DOMAIN S |-> RestoredPin(p, S[p])]

LEMMA RestoredPinOf ==
  ASSUME NEW S, NEW p \in DOMAIN S, p[2] \in Nat, Numbers(S[p]),
         NEW c, c = RestoredPin(p, S[p]), NEW d, d = Restored(S)[p]
  PROVE  /\ SameSettings(c, d) /\ d.flags = c.flags /\ Encoding(p, d)
         /\ Encoder(c) => /\ d.shared.pin_type = c.shared.pin_type
                          /\ d.shared.partner = RestoredPartner(p, Afresh(S))
<1> DEFINE n == RestoredPartner(p, Afresh(S))
           u == [c.shared EXCEPT !.partner = n]
<1>1. d = IF c.mode # "rotary_encoder" THEN c
          ELSE [c EXCEPT !.shared = [c.shared EXCEPT !.partner = n]]
  BY DEF Restored, Afresh
<1>2. IsConfig(c)
  BY RestoredPinTuned DEF Tuned
<1>3. CASE c.mode # "rotary_encoder"
  BY <1>1, <1>3 DEF SameSettings, Encoding, Encoder
<1>4. CASE c.mode = "rotary_encoder"
  <2>1. Encoding(p, c)
    BY <1>4, RotaryRestored
  <2>2. IsB(c.shared.pin_type) => n \in {0} \cup 0 .. p[2] - 1
    <3>1. Afresh(S)[p] = c
      BY DEF Afresh
    <3> QED BY <3>1, PartnerBelow
  <2> HIDE DEF n
  <2>3. d = [c EXCEPT !.shared = [c.shared EXCEPT !.partner = n]]
    BY <1>1, <1>4
  <2>4. Encoding(p, d) /\ SameSettings(c, d)
    BY <1>2, <1>4, <2>1, <2>2, <2>3, EncodingPartner
  <2>5. "partner" \in DOMAIN c.shared /\ "pin_type" \in DOMAIN c.shared
    BY <1>4, <2>1 DEF Encoding, Encoder
  <2>6. u.pin_type = c.shared.pin_type /\ u.partner = n
    BY <2>5
  <2> HIDE DEF u
  <2>7. d.shared = u /\ d.flags = c.flags
    BY <1>2, <2>3 DEF IsConfig, u
  <2> QED BY <2>4, <2>6, <2>7 DEF n
<1> QED BY <1>3, <1>4

LEMMA RestartAgrees ==
  ASSUME NEW S, NEW p \in DOMAIN S, p[2] \in Nat, Numbers(S[p])
  PROVE  Agrees(p, Restored(S)[p], S[p]) /\ Encoding(p, Restored(S)[p])
<1> DEFINE c == RestoredPin(p, S[p])
           d == Restored(S)[p]
<1>1. SameSettings(c, d) /\ d.flags = c.flags /\ Encoding(p, d)
  BY RestoredPinOf
<1> QED BY <1>1 DEF Agrees, Remade, SameSettings

(* An 'a' and a 'b' pin that are each other's find each other again.       *)
LEMMA TypesPair ==
  ASSUME NEW t, NEW u, IsB(t), IsB(u), AOf(t) = AOf(u)
  PROVE  t = u /\ ~IsB(AOf(t))
BY DEF IsB, AOf

LEMMA PairFound ==
  ASSUME NEW alone, DOMAIN alone \subseteq AllPins,
         NEW a \in DOMAIN alone, NEW b \in DOMAIN alone, a[1] = b[1], a[2] < b[2],
         NEW t, IsB(t), Encoder(alone[a]), Encoder(alone[b]),
         alone[a].shared.pin_type = AOf(t), alone[b].shared.pin_type = t,
         \A q \in DOMAIN alone : q[1] = a[1] /\ Encoder(alone[q]) =>
           /\ alone[q].shared.pin_type = AOf(t) => q = a
           /\ alone[q].shared.pin_type = t => q = b
  PROVE  RestoredPartner(b, alone) = a[2] /\ RestoredPartner(a, alone) = b[2]
<1>1. \A q \in DOMAIN alone : q = <<q[1], q[2]>> /\ q[2] \in Nat
  BY DEF AllPins
<1>2. a[2] \in Nat /\ b[2] \in Nat /\ a = <<b[1], a[2]>>
  BY <1>1
<1>3. Partners(b, alone, t) = {a[2]}
  <2>1. a[2] \in Partners(b, alone, t)
    <3>1. a[2] \in 0 .. b[2] - 1
      BY <1>2
    <3> QED BY <1>2, <3>1 DEF Partners, Encoder
  <2>2. ASSUME NEW n \in Partners(b, alone, t) PROVE n = a[2]
    <3> DEFINE q == <<b[1], n>>
    <3>1. /\ q \in DOMAIN alone /\ alone[q].mode = "rotary_encoder"
          /\ alone[q].shared.pin_type = AOf(t)
      BY DEF Partners
    <3>2. q[1] = a[1] /\ q[2] = n
      OBVIOUS
    <3> HIDE DEF q
    <3>3. q = a
      BY <3>1, <3>2 DEF Encoder
    <3> QED BY <3>2, <3>3
  <2> QED BY <2>1, <2>2
<1>4. Smallest({a[2]}) = a[2] /\ Largest({b[2]}) = b[2]
  BY <1>2, SmallestOne
<1>5. RestoredPartner(b, alone) = a[2]
  <2> DEFINE as == Partners(b, alone, alone[b].shared.pin_type)
  <2>1. RestoredPartner(b, alone) = IF as = {} THEN 0 ELSE Smallest(as)
    BY DEF RestoredPartner
  <2> QED BY <1>3, <1>4, <2>1
<1> DEFINE FoundBy(q) == /\ q[1] = a[1] /\ alone[q].mode = "rotary_encoder"
                         /\ IsB(alone[q].shared.pin_type)
                         /\ Partners(q, alone, alone[q].shared.pin_type) # {}
                         /\ Smallest(Partners(q, alone, alone[q].shared.pin_type)) = a[2]
           bs == {q[2] : q \in {r \in DOMAIN alone : FoundBy(r)}}
<1>6. ~IsB(AOf(t))
  BY TypesPair
<1>7. RestoredPartner(a, alone) = IF bs = {} THEN 0 ELSE Largest(bs)
  BY <1>6 DEF RestoredPartner
<1>8. FoundBy(b)
  BY <1>3, <1>4 DEF Encoder
<1>9. ASSUME NEW r \in DOMAIN alone, FoundBy(r) PROVE r = b
  <2> DEFINE u == alone[r].shared.pin_type
             n == Smallest(Partners(r, alone, u))
             x == <<r[1], n>>
  <2>1. Partners(r, alone, u) # {} /\ r[2] \in Nat
    BY <1>1, <1>9
  <2>2. IsB(u) /\ n = a[2] /\ r[1] = a[1] /\ Encoder(alone[r])
    BY <1>9 DEF Encoder
  <2> HIDE DEF u
  <2>3. alone[x].shared.pin_type = AOf(u)
    BY <2>1, FoundPartner
  <2> HIDE DEF n
  <2>4. x = a
    BY <1>2, <2>2
  <2>5. u = t
    BY <2>2, <2>3, <2>4, TypesPair
  <2> QED BY <2>2, <2>5 DEF u
<1> HIDE DEF FoundBy
<1>10. bs = {b[2]}
  BY <1>8, <1>9
<1> QED BY <1>4, <1>5, <1>7, <1>10

LEMMA PinsWithin ==
  ASSUME Core
  PROVE  Pins \subseteq AllPins /\ \A q \in Pins : q = <<q[1], q[2]>> /\ q[2] \in Nat
<1>1. world \in Worlds /\ Pins = DOMAIN world.store
  BY DEF Core, SequencerInv, Records
<1>2. Pins \subseteq AllPins
  BY <1>1, IoAssumption
<1> QED BY <1>2 DEF AllPins

LEMMA PairsAgree ==
  ASSUME Core, SavedInv, NEW a \in Pins \ history.unsaved, NEW b \in Pins \ history.unsaved,
         Paired(machine.config, a, b),
         Alone(Restored(store), a), Alone(Restored(store), b)
  PROVE  Paired(Restored(store), a, b)
<1> DEFINE there == Restored(store)
           alone == Afresh(store)
           t == machine.config[b].shared.pin_type
<1>1. Pins \subseteq AllPins /\ \A q \in Pins : q = <<q[1], q[2]>> /\ q[2] \in Nat
  BY PinsWithin
<1>2. DOMAIN alone = Pins /\ \A q \in Pins : alone[q] = RestoredPin(q, store[q])
  BY DEF Afresh, Pins
<1>3. ASSUME NEW q \in Pins
      PROVE  /\ SameSettings(alone[q], there[q])
             /\ Encoder(alone[q]) =>
                  /\ there[q].shared.pin_type = alone[q].shared.pin_type
                  /\ there[q].shared.partner = RestoredPartner(q, alone)
  <2>1. q \in DOMAIN store /\ q[2] \in Nat /\ Numbers(store[q])
    BY <1>1 DEF SavedInv, Pins
  <2> QED BY <1>2, <2>1, RestoredPinOf
<1> HIDE DEF there, alone
<1>4. ASSUME NEW q \in Pins \ history.unsaved, Encoder(machine.config[q])
      PROVE  /\ Encoder(alone[q])
             /\ alone[q].shared.pin_type = machine.config[q].shared.pin_type
  <2> DEFINE c == machine.config[q]
             d == alone[q]
  <2>1. SameSettings(c, d)
    BY <1>2, <1>4 DEF SavedInv, Agrees, Remade, Encoder
  <2> HIDE DEF c, d
  <2>2. c.mode = "rotary_encoder" /\ d.mode = "rotary_encoder"
    BY <1>4, <2>1 DEF c, Encoder, SameSettings
  <2>3. /\ Settings(c) = [type |-> c.shared.pin_type, target |-> Aimed(c.shared)]
        /\ Settings(d) = [type |-> d.shared.pin_type, target |-> Aimed(d.shared)]
    BY <2>2, SettingsIs, Zenon
  <2>4. Settings(c) = Settings(d)
    BY <2>1 DEF SameSettings
  <2>5. Settings(c).type = c.shared.pin_type /\ Settings(d).type = d.shared.pin_type
    BY <2>3
  <2> QED BY <2>2, <2>4, <2>5 DEF c, d, Encoder
<1>5. /\ a[1] = b[1] /\ Encoder(machine.config[a]) /\ Encoder(machine.config[b]) /\ IsB(t)
      /\ machine.config[a].shared.pin_type = AOf(t)
      /\ machine.config[a].shared.partner = b[2] /\ machine.config[b].shared.partner = a[2]
  BY DEF Paired
<1> HIDE DEF t
<1>6. /\ Encoder(alone[a]) /\ Encoder(alone[b])
      /\ alone[a].shared.pin_type = AOf(t) /\ alone[b].shared.pin_type = t
  BY <1>4, <1>5 DEF t
<1>7. a[2] < b[2]
  <2>1. a[2] \in {0} \cup 0 .. b[2] - 1
    BY <1>5 DEF SavedInv, Encoding, t
  <2>2. a[2] # b[2]
    <3>1. a # b
      BY <1>5, <1>6, TypesPair
    <3> QED BY <1>1, <1>5, <3>1
  <2>3. a[2] \in Nat /\ b[2] \in Nat
    BY <1>1
  <2> HIDE DEF t
  <2>4. \A m, n \in Nat : m \in {0} \cup 0 .. n - 1 /\ m # n => m < n
    OBVIOUS
  <2> QED BY <2>1, <2>2, <2>3, <2>4
<1>8. ASSUME NEW q \in Pins, q[1] = a[1], Encoder(alone[q])
      PROVE  /\ alone[q].shared.pin_type = AOf(t) => q = a
             /\ alone[q].shared.pin_type = t => q = b
  <2>1. Encoder(there[q]) /\ there[q].shared.pin_type = alone[q].shared.pin_type
    BY <1>3, <1>8 DEF SameSettings, Encoder
  <2>2. there[a].shared.pin_type = AOf(t) /\ there[b].shared.pin_type = t
    BY <1>3, <1>6
  <2>3. Alone(there, a) /\ Alone(there, b)
    BY DEF there
  <2> QED BY <1>5, <1>8, <2>1, <2>2, <2>3 DEF Alone
<1>9. RestoredPartner(b, alone) = a[2] /\ RestoredPartner(a, alone) = b[2]
  BY <1>1, <1>2, <1>5, <1>6, <1>7, <1>8, PairFound
<1>10. /\ Encoder(there[a]) /\ Encoder(there[b])
       /\ there[a].shared.pin_type = AOf(t) /\ there[b].shared.pin_type = t
       /\ there[a].shared.partner = b[2] /\ there[b].shared.partner = a[2]
  BY <1>3, <1>6, <1>9 DEF SameSettings, Encoder
<1>11. Paired(there, a, b)
  BY <1>5, <1>10 DEF Paired
<1> QED BY <1>11 DEF there

LEMMA SavedSuffices == Core /\ SavedInv => RestoredAgrees
<1> SUFFICES ASSUME Core, SavedInv PROVE RestoredAgrees
  OBVIOUS
<1> DEFINE there == Restored(store)
           saved == Pins \ history.unsaved
<1>1. ASSUME NEW p \in saved
      PROVE  \/ p \in UartPins /\ machine.config[p].mode = "disabled"
             \/ Survives(p, machine.config[p], there[p])
  <2> DEFINE c == RestoredPin(p, store[p])
             d == there[p]
  <2>1. p \in DOMAIN store /\ Numbers(store[p]) /\ Agrees(p, machine.config[p], store[p])
    BY DEF SavedInv, Pins
  <2>2. p[2] \in Nat
    BY PinsWithin
  <2>3. SameSettings(c, d) /\ d.flags = c.flags
    BY <2>1, <2>2, RestoredPinOf
  <2> HIDE DEF c, d
  <2>4. init_pin_mode(p, c) <=> init_pin_mode(p, d)
    BY <2>3, InitByLevel DEF SameSettings
  <2>5. \/ p \in UartPins /\ machine.config[p].mode = "disabled"
        \/ Remade(p, store[p], machine.config[p], c)
    BY <2>1 DEF Agrees, c
  <2>6. Remade(p, store[p], machine.config[p], c) => Survives(p, machine.config[p], d)
    BY <2>3, <2>4 DEF Remade, Survives, SameSettings
  <2> QED BY <2>5, <2>6 DEF d
<1>2. ASSUME NEW a \in saved, NEW b \in saved, Paired(machine.config, a, b),
             Alone(there, a), Alone(there, b)
      PROVE  Paired(there, a, b)
  BY <1>2, PairsAgree
<1> QED BY <1>1, <1>2 DEF RestoredAgrees, UartPins

(* The steps.  What is not given a mode or a flag stays as it agrees.      *)
LEMMA AgreesSame ==
  ASSUME NEW p, NEW e, NEW c, NEW d, SameSettings(c, d), c.flags = d.flags, Agrees(p, c, e)
  PROVE  Agrees(p, d, e)
BY DEF Agrees, Remade, SameSettings

LEMMA SavedSame ==
  ASSUME Core, SavedInv, store' = store, history'.unsaved = history.unsaved,
         \A p \in Pins : /\ Alike(machine.config[p], machine'.config[p])
                         /\ machine'.config[p].flags = machine.config[p].flags
  PROVE  SavedInv'
<1>1. Pins' = Pins
  BY DEF Pins
<1>2. ASSUME NEW p \in Pins PROVE Encoding(p, machine'.config[p]) /\ Numbers(store'[p])
  BY DEF SavedInv, Alike, Encoding, Encoder
<1>3. ASSUME NEW p \in Pins \ history.unsaved PROVE Agrees(p, machine'.config[p], store'[p])
  <2>1. SameSettings(machine.config[p], machine'.config[p])
    BY AlikeSettings
  <2> QED BY <2>1, AgreesSame DEF SavedInv
<1> QED BY <1>1, <1>2, <1>3 DEF SavedInv

LEMMA SavedMode == ASSUME Core, SavedInv, io_mode PROVE SavedInv'
<1>1. PICK cmd \in world.modes :
        LET p == cmd.pin
            out == Branch(p, machine.config, cmd)
        IN  /\ out.ok
            /\ machine' = SetUp(p, InForce(p, cmd, out))
            /\ Save(p, Saved(cmd, out),
                    [history EXCEPT
                       !.unsaved = @ \ {p},
                       !.remade = IF machine.config[p].suspended THEN @ \cup {p} ELSE @])
  BY DEF io_mode
<1> DEFINE p == cmd.pin
           out == Branch(p, machine.config, cmd)
           new == InForce(p, cmd, out)
           after == [history EXCEPT
                       !.unsaved = @ \ {p},
                       !.remade = IF machine.config[p].suspended THEN @ \cup {p} ELSE @]
           e == Saved(cmd, out)
<1>2. p \in Pins /\ p \in AllPins /\ Given(cmd)
  <2>1. world \in Worlds
    BY DEF Core, SequencerInv, Records
  <2>2. p \in Pins /\ Given(cmd)
    BY <2>1, IoAssumption DEF Core, SequencerInv
  <2> QED BY <2>2, PinsWithin
<1>3. Shape(machine, Pins) /\ DOMAIN machine.config = Pins
      /\ \A q \in Pins : IsConfig(machine.config[q]) /\ Encoding(q, machine.config[q])
  BY DEF Core, Fit, Shape, Pins, SavedInv
<1>4. out.ok /\ machine' = SetUp(p, new) /\ Save(p, e, after)
  BY <1>1
<1>5. /\ after.unsaved = history.unsaved \ {p}
      /\ "unsaved" \in DOMAIN after
  BY DEF Core, SequencerInv, Records
<1> HIDE DEF p, after
<1>6. /\ Agrees(p, new[p], e) /\ Encoding(p, new[p]) /\ Numbers(e)
      /\ \A q \in Pins \ {p} : Encoding(q, new[q]) /\ SameSettings(machine.config[q], new[q])
  <2> HIDE DEF Pins
  <2> QED BY <1>2, <1>3, <1>4, ModeAgrees
<1>7. Touched(machine.config, new, p, Pins)
  <2>1. cmd.mode \in io_mode_traits
    BY <1>2 DEF Given
  <2>2. Touched(machine.config, out.config, p, Pins)
    <3> HIDE DEF Pins
    <3> QED BY <1>2, <1>3, <1>4, <2>1, BranchTouches
  <2> HIDE DEF out
  <2> QED BY <1>2, <2>2, InForceIs
<1> HIDE DEF out, new, e
<1>8. machine'.config = new
  BY <1>3, <1>4, <1>7, SetUpIs
<1>9. \/ store' = [store EXCEPT ![p] = e] /\ history'.unsaved = history.unsaved \ {p}
      \/ store' = store /\ p \in history'.unsaved
         /\ history.unsaved \subseteq history'.unsaved
  BY <1>4, <1>5 DEF Save
<1>10. Pins' = Pins /\ \A q \in Pins \ {p} : store'[q] = store[q]
  BY <1>9 DEF Pins
<1>11. \A q \in Pins \ {p} : q \notin history'.unsaved => q \notin history.unsaved
  BY <1>9
<1>12. Numbers(store'[p]) /\ (p \notin history'.unsaved => store'[p] = e)
  BY <1>2, <1>6, <1>9 DEF Pins, SavedInv
<1>13. ASSUME NEW q \in Pins PROVE Encoding(q, machine'.config[q]) /\ Numbers(store'[q])
  BY <1>6, <1>8, <1>10, <1>12 DEF SavedInv
<1>14. ASSUME NEW q \in Pins, q \notin history'.unsaved
       PROVE  Agrees(q, machine'.config[q], store'[q])
  <2>1. CASE q = p
    BY <1>6, <1>8, <1>12, <1>14, <2>1
  <2>2. CASE q # p
    <3>1. Agrees(q, machine.config[q], store[q])
      BY <1>11, <1>14, <2>2 DEF SavedInv
    <3>2. SameSettings(machine.config[q], new[q]) /\ machine.config[q].flags = new[q].flags
      BY <1>6, <1>7, <2>2 DEF Touched
    <3>3. Agrees(q, new[q], store[q])
      BY <3>1, <3>2, AgreesSame
    <3> QED BY <1>8, <1>10, <2>2, <3>3
  <2> QED BY <2>1, <2>2
<1> QED BY <1>10, <1>13, <1>14 DEF SavedInv

LEMMA SavedFlag == ASSUME Core, SavedInv, io_flag PROVE SavedInv'
<1>1. PICK cmd \in world.flags :
        LET p == cmd.pin
            flags == IF cmd.on THEN machine.config[p].flags \cup {cmd.flag}
                     ELSE machine.config[p].flags \ {cmd.flag}
            config == [machine.config EXCEPT ![p].flags = flags]
        IN  /\ machine' = SetUp(p, config)
            /\ Save(p, Entry("flags", flags) ++ store[p], history)
  BY DEF io_flag
<1> DEFINE p == cmd.pin
           flags == IF cmd.on THEN machine.config[p].flags \cup {cmd.flag}
                    ELSE machine.config[p].flags \ {cmd.flag}
           config == [machine.config EXCEPT ![p].flags = flags]
           c == machine.config[p]
           d == [c EXCEPT !.flags = flags]
           e == Entry("flags", flags) ++ store[p]
<1>2. p \in Pins
  BY Pinned
<1>3. Shape(machine, Pins) /\ DOMAIN machine.config = Pins
      /\ \A q \in Pins : IsConfig(machine.config[q])
  BY DEF Core, Fit, Shape, Pins
<1>4. machine' = SetUp(p, config) /\ Save(p, e, history)
  BY <1>1
<1> HIDE DEF p, flags
<1>5. Touched(machine.config, config, p, Pins)
  BY <1>3 DEF Touched, Shape, IsConfig
<1>6. config[p] = d /\ \A q \in Pins \ {p} : config[q] = machine.config[q]
  BY <1>2, <1>3
<1> HIDE DEF config, e
<1>7. machine'.config = config
  BY <1>3, <1>4, <1>5, SetUpIs
<1>8. /\ Agrees(p, c, store[p]) => Agrees(p, d, e)
      /\ Encoding(p, c) => Encoding(p, d)
      /\ Numbers(store[p]) => Numbers(e)
  <2>1. IsConfig(c)
    BY <1>2, <1>3
  <2> HIDE DEF c
  <2> QED BY <2>1, FlagAgrees DEF e
<1> HIDE DEF d, c
<1>9. \/ store' = [store EXCEPT ![p] = e] /\ history'.unsaved = history.unsaved
      \/ store' = store /\ p \in history'.unsaved
         /\ history.unsaved \subseteq history'.unsaved
  BY <1>4 DEF Save, Core, SequencerInv, Records
<1>10. Pins' = Pins /\ \A q \in Pins \ {p} : store'[q] = store[q]
  BY <1>9 DEF Pins
<1>11. history.unsaved \subseteq history'.unsaved
  BY <1>9
<1>12. Numbers(store'[p]) /\ (p \notin history'.unsaved => store'[p] = e)
  BY <1>2, <1>8, <1>9 DEF Pins, SavedInv
<1>13. ASSUME NEW q \in Pins PROVE Encoding(q, machine'.config[q]) /\ Numbers(store'[q])
  BY <1>6, <1>7, <1>8, <1>10, <1>12 DEF SavedInv, c
<1>14. ASSUME NEW q \in Pins, q \notin history'.unsaved
       PROVE  Agrees(q, machine'.config[q], store'[q])
  <2>1. Agrees(q, machine.config[q], store[q])
    BY <1>11, <1>14 DEF SavedInv
  <2>2. CASE q = p
    BY <1>6, <1>7, <1>8, <1>12, <1>14, <2>1, <2>2 DEF c
  <2>3. CASE q # p
    BY <1>6, <1>7, <1>10, <2>1, <2>3
  <2> QED BY <2>2, <2>3
<1> QED BY <1>10, <1>13, <1>14 DEF SavedInv

LEMMA RestartSaves ==
  ASSUME NEW S, \A p \in DOMAIN S : p[2] \in Nat /\ Numbers(S[p]),
         NEW config, config = Restored(S)
  PROVE  \A p \in DOMAIN S : Encoding(p, config[p]) /\ Agrees(p, config[p], S[p])
BY RestartAgrees

LEMMA SavedStarts == Init => SavedInv
<1> SUFFICES ASSUME Init PROVE SavedInv
  OBVIOUS
<1>1. /\ world \in Worlds /\ store = world.store /\ history = NoHistory
      /\ machine = Written(Booted(store), world.written)
  BY DEF Init
<1>2. \A p \in Pins : p[2] \in Nat /\ Stored(store[p])
  BY <1>1, IoAssumption DEF Pins, AllPins
<1>3. \A p \in Pins : Numbers(store[p])
  BY <1>2 DEF Stored, Numbers, RencNumbers
<1>4. machine.config = Restored(store)
  <2> DEFINE b == Booted(store)
  <2>1. Shape(b, Pins) /\ b.config = Restored(store)
    BY BootedIs DEF Pins
  <2> HIDE DEF b
  <2>2. Kept(b, Written(b, world.written), Pins, DOMAIN world.written)
    BY <2>1, WrittenKeeps
  <2> QED BY <1>1, <2>1, <2>2 DEF Kept, b
<1>5. \A p \in Pins : Encoding(p, machine.config[p]) /\ Agrees(p, machine.config[p], store[p])
  BY <1>2, <1>3, <1>4, RestartSaves DEF Pins
<1> QED BY <1>3, <1>5 DEF SavedInv

LEMMA SavedReboot == ASSUME Core, SavedInv, Reboot PROVE SavedInv'
<1>1. machine' = Booted(store) /\ store' = store
  BY DEF Reboot
<1>2. machine'.config = Restored(store) /\ Pins' = Pins
  BY <1>1, BootedIs DEF Pins
<1>3. \A p \in Pins : p[2] \in Nat /\ Numbers(store[p])
  BY PinsWithin DEF SavedInv
<1>4. \A p \in Pins : Encoding(p, machine'.config[p]) /\ Agrees(p, machine'.config[p], store[p])
  BY <1>2, <1>3, RestartSaves DEF Pins
<1> QED BY <1>1, <1>2, <1>3, <1>4 DEF SavedInv

LEMMA SavedStep == Core /\ SavedInv /\ [Next]_vars => SavedInv'
<1> SUFFICES ASSUME Core, SavedInv, [Next]_vars PROVE SavedInv'
  OBVIOUS
<1>0. Shape(machine, Pins) /\ {"unsaved", "doubled", "remade"} \subseteq DOMAIN history
  BY Pinned DEF Core, SequencerInv, Records
<1>1. ASSUME machine'.config = machine.config, store' = store,
             history'.unsaved = history.unsaved
      PROVE  SavedInv'
  BY <1>1, SavedSame DEF Alike
<1>2. CASE UNCHANGED vars
  BY <1>1, <1>2 DEF vars
<1>3. CASE io_trigger \/ io_write \/ io_read \/ sequencer_run
  <2>1. machine'.config = machine.config
    BY <1>3, CommandsKeep DEF Kept
  <2>2. store' = store /\ history'.unsaved = history.unsaved
    BY <1>0, <1>3 DEF io_trigger, io_write, io_read, sequencer_run, Commanded, NoSave
  <2> QED BY <1>1, <2>1, <2>2
<1>4. CASE io_suspend
  <2>1. PICK q \in world.suspends :
          Commanded([Quiet(machine, q) EXCEPT !.config[q].suspended = TRUE])
    BY <1>4 DEF io_suspend
  <2> DEFINE w == Quiet(machine, q)
             c == [w.config[q] EXCEPT !.suspended = TRUE]
  <2>2. q \in Pins /\ machine' = [w EXCEPT !.config[q].suspended = TRUE]
        /\ store' = store /\ history' = history
    BY <2>1, Pinned DEF Commanded, NoSave
  <2>3. Shape(w, Pins) /\ w.config = machine.config
    BY <2>2, Pinned, QuietIs DEF Kept
  <2> HIDE DEF w
  <2>4. machine'.config = [w.config EXCEPT ![q] = c]
    BY <2>2, <2>3 DEF Shape
  <2>5. Alike(w.config[q], c) /\ c.flags = w.config[q].flags
    BY <2>2, <2>3 DEF Shape, IsConfig, Alike
  <2> HIDE DEF c
  <2>6. \A p \in Pins : /\ Alike(machine.config[p], machine'.config[p])
                        /\ machine'.config[p].flags = machine.config[p].flags
    BY <2>3, <2>4, <2>5 DEF Shape, Alike
  <2> QED BY <2>2, <2>6, SavedSame
<1>5. CASE io_resume
  <2>1. PICK q \in world.suspends : Commanded([machine EXCEPT !.config[q].suspended = FALSE])
    BY <1>5 DEF io_resume
  <2> DEFINE c == [machine.config[q] EXCEPT !.suspended = FALSE]
  <2>2. q \in Pins /\ machine' = [machine EXCEPT !.config[q].suspended = FALSE]
        /\ store' = store /\ history' = history
    BY <2>1, Pinned DEF Commanded, NoSave
  <2>4. machine'.config = [machine.config EXCEPT ![q] = c]
    BY <1>0, <2>2 DEF Shape
  <2>5. Alike(machine.config[q], c) /\ c.flags = machine.config[q].flags
    BY <1>0, <2>2 DEF Shape, IsConfig, Alike
  <2> HIDE DEF c
  <2>6. \A p \in Pins : /\ Alike(machine.config[p], machine'.config[p])
                        /\ machine'.config[p].flags = machine.config[p].flags
    BY <1>0, <2>4, <2>5 DEF Shape, Alike
  <2> QED BY <2>2, <2>6, SavedSame
<1>6. CASE sequencer_start \/ sequencer_stop
  BY <1>1, <1>6 DEF sequencer_start, sequencer_stop, NoSave
<1>7. CASE io_periodic_fast
  <2>1. machine'.config = machine.config
    BY <1>0, <1>7, TickedIs DEF io_periodic_fast
  <2>2. store' = store /\ history'.unsaved = history.unsaved
    BY <1>0, <1>7 DEF io_periodic_fast
  <2> QED BY <1>1, <2>1, <2>2
<1>8. CASE Edge
  <2>1. machine' = machine /\ store' = store /\ history'.unsaved = history.unsaved
    BY <1>0, <1>8 DEF Edge
  <2> QED BY <1>1, <2>1
<1>9. CASE pc_int_read \/ pc_int_report
  <2>1. machine' = machine /\ store' = store /\ history'.unsaved = history.unsaved
    BY <1>0, <1>9 DEF pc_int_read, pc_int_report
  <2> QED BY <1>1, <2>1
<1>10. CASE io_gpio_pins_changed
  <2>1. store' = store /\ history' = history
    BY <1>10 DEF io_gpio_pins_changed
  <2>2. machine'.config = machine.config
    BY <1>10, ReportKeeps DEF Kept
  <2> QED BY <1>1, <2>1, <2>2
<1> QED BY <1>2, SavedMode, SavedFlag, <1>3, <1>4, <1>5, <1>6, <1>7, <1>8, <1>9, <1>10,
           SavedReboot DEF Next

(* A restart changes no setting (io_init 1133-1465 against io_mode): what  *)
(* flash holds is at all times what memory holds, the mode and what        *)
(* belongs to it, and the flags; and an encoder's two pins that are each   *)
(* other's find each other again, where no other pin can be taken for one. *)
THEOREM RestoredAgreesCorrect == Spec => []RestoredAgrees
BY SavedStarts, SavedStep, CoreCorrect, SavedSuffices, PTL DEF Spec
-----------------------------------------------------------------------------
(* A knob. What it controls is to be as far from where it was as the knob  *)
(* has been turned; how far off it may be, its error, depends on what the  *)
(* encoder took the two contacts for (u and v) and what they are (x and y).*)
Bit == {0, 1}
Sense(x, y) == IF x = y THEN 1 ELSE -1

\* What a change from levels u and v to levels x and y is worth.
Way(u, v, x, y) ==
  IF u # x /\ v = y THEN Sense(u, v) ELSE IF u = x /\ v # y THEN -Sense(u, v) ELSE 0

\* What a report is worth, of the first contact and then of the second: i and j are 1 for
\* those it is of.
Worth(u, v, x, y, i, j) ==
  (IF i = 1 THEN Way(u, v, x, y) ELSE 0)
    + (IF j = 1 THEN Way(IF i = 1 THEN x ELSE u, v, x, y) ELSE 0)

Near(e, n) == -n <= e /\ e <= n

\* The error e when nothing is pending.
Settled(e, u, v, x, y, n) ==
  IF u = x /\ v = y THEN Near(e, n)
  ELSE IF u = x THEN Near(e + Sense(x, y), n) /\ Near(e - 2 * Sense(x, y), n)
  ELSE IF v = y THEN Near(e - Sense(x, y), n) /\ Near(e + 2 * Sense(x, y), n)
  ELSE Near(e + 3, n) /\ Near(e - 3, n)

\* The error while both contacts are pending and their levels have not been read.
Slack(u, v, x, y) == IF u = x /\ v = y THEN 2 ELSE IF u = x \/ v = y THEN 4 ELSE 5

Open(e, u, v, x, y, n) == Near(e, 3 * n + Slack(u, v, x, y))

\* The error otherwise: i and j are 1 for the contacts that are pending, l and m the levels that
\* will be told of them, n how many edges slipped or were told of together.
Shut(e, u, v, x, y, i, j, l, m, n) ==
  Settled(e + Worth(u, v, l, m, i, j), IF i = 1 THEN l ELSE u, IF j = 1 THEN m ELSE v,
          x, y, 3 * (1 + n + (IF i + j = 2 THEN 1 ELSE 0)))

\* An edge at the first contact, and at the second; one after the levels were read.
LEMMA EdgeA ==
  ASSUME NEW u \in Bit, NEW v \in Bit, NEW x \in Bit, NEW y \in Bit, NEW e \in Int, NEW n \in Nat
  PROVE  /\ Shut(e, u, v, x, y, 0, 0, x, y, n)
              => Shut(e - Way(x, y, 1 - x, y), u, v, 1 - x, y, 1, 0, 1 - x, y, n)
         /\ Shut(e, u, v, x, y, 0, 1, x, y, n)
              => Open(e - Way(x, y, 1 - x, y), u, v, 1 - x, y, n)
         /\ Shut(e, u, v, x, y, 1, 0, x, y, n)
              => Shut(e - Way(x, y, 1 - x, y), u, v, 1 - x, y, 1, 0, 1 - x, y, n + 1)
         /\ Open(e, u, v, x, y, n)
              => Open(e - Way(x, y, 1 - x, y), u, v, 1 - x, y, n + 1)
<1>1. Shut(e, u, v, x, y, 0, 0, x, y, n)
        => Shut(e - Way(x, y, 1 - x, y), u, v, 1 - x, y, 1, 0, 1 - x, y, n)
  BY DEF Bit, Shut, Open, Settled, Slack, Near, Worth, Way, Sense
<1>2. Shut(e, u, v, x, y, 0, 1, x, y, n)
        => Open(e - Way(x, y, 1 - x, y), u, v, 1 - x, y, n)
  BY DEF Bit, Shut, Open, Settled, Slack, Near, Worth, Way, Sense
<1>3. Shut(e, u, v, x, y, 1, 0, x, y, n)
        => Shut(e - Way(x, y, 1 - x, y), u, v, 1 - x, y, 1, 0, 1 - x, y, n + 1)
  BY DEF Bit, Shut, Open, Settled, Slack, Near, Worth, Way, Sense
<1>4. Open(e, u, v, x, y, n)
        => Open(e - Way(x, y, 1 - x, y), u, v, 1 - x, y, n + 1)
  BY DEF Bit, Shut, Open, Settled, Slack, Near, Worth, Way, Sense
<1> QED BY <1>1, <1>2, <1>3, <1>4

LEMMA EdgeB ==
  ASSUME NEW u \in Bit, NEW v \in Bit, NEW x \in Bit, NEW y \in Bit, NEW e \in Int, NEW n \in Nat
  PROVE  /\ Shut(e, u, v, x, y, 0, 0, x, y, n)
              => Shut(e - Way(x, y, x, 1 - y), u, v, x, 1 - y, 0, 1, x, 1 - y, n)
         /\ Shut(e, u, v, x, y, 1, 0, x, y, n)
              => Open(e - Way(x, y, x, 1 - y), u, v, x, 1 - y, n)
         /\ Shut(e, u, v, x, y, 0, 1, x, y, n)
              => Shut(e - Way(x, y, x, 1 - y), u, v, x, 1 - y, 0, 1, x, 1 - y, n + 1)
         /\ Open(e, u, v, x, y, n)
              => Open(e - Way(x, y, x, 1 - y), u, v, x, 1 - y, n + 1)
<1>1. Shut(e, u, v, x, y, 0, 0, x, y, n)
        => Shut(e - Way(x, y, x, 1 - y), u, v, x, 1 - y, 0, 1, x, 1 - y, n)
  BY DEF Bit, Shut, Open, Settled, Slack, Near, Worth, Way, Sense
<1>2. Shut(e, u, v, x, y, 1, 0, x, y, n)
        => Open(e - Way(x, y, x, 1 - y), u, v, x, 1 - y, n)
  BY DEF Bit, Shut, Open, Settled, Slack, Near, Worth, Way, Sense
<1>3. Shut(e, u, v, x, y, 0, 1, x, y, n)
        => Shut(e - Way(x, y, x, 1 - y), u, v, x, 1 - y, 0, 1, x, 1 - y, n + 1)
  BY DEF Bit, Shut, Open, Settled, Slack, Near, Worth, Way, Sense
<1>4. Open(e, u, v, x, y, n)
        => Open(e - Way(x, y, x, 1 - y), u, v, x, 1 - y, n + 1)
  BY DEF Bit, Shut, Open, Settled, Slack, Near, Worth, Way, Sense
<1> QED BY <1>1, <1>2, <1>3, <1>4

LEMMA EdgeLatched ==
  ASSUME NEW u \in Bit, NEW v \in Bit, NEW x \in Bit, NEW y \in Bit, NEW e \in Int, NEW n \in Nat,
         NEW l \in Bit, NEW m \in Bit, NEW i \in Bit, NEW j \in Bit, i + j > 0,
         Shut(e, u, v, x, y, i, j, l, m, n)
  PROVE  /\ Shut(e - Way(x, y, 1 - x, y), u, v, 1 - x, y, 1, j, l, m, n + 1)
         /\ Shut(e - Way(x, y, x, 1 - y), u, v, x, 1 - y, i, 1, l, m, n + 1)
<1>1. Shut(e - Way(x, y, 1 - x, y), u, v, 1 - x, y, 1, j, l, m, n + 1)
  BY DEF Bit, Shut, Open, Settled, Slack, Near, Worth, Way, Sense
<1>2. Shut(e - Way(x, y, x, 1 - y), u, v, x, 1 - y, i, 1, l, m, n + 1)
  BY DEF Bit, Shut, Open, Settled, Slack, Near, Worth, Way, Sense
<1> QED BY <1>1, <1>2

\* The levels are read; the report is in the queue, and it is lost.
LEMMA Latches ==
  ASSUME NEW u \in Bit, NEW v \in Bit, NEW x \in Bit, NEW y \in Bit, NEW e \in Int, NEW n \in Nat,
         Open(e, u, v, x, y, n)
  PROVE  Shut(e, u, v, x, y, 1, 1, x, y, n)
BY DEF Bit, Shut, Open, Settled, Slack, Near, Worth, Way, Sense

Ready(e, u, v, x, y, i, j, l, m, n) ==
  /\ u \in Bit /\ v \in Bit /\ x \in Bit /\ y \in Bit /\ e \in Int /\ n \in Nat
  /\ l \in Bit /\ m \in Bit /\ i \in Bit /\ j \in Bit /\ i + j > 0
  /\ Shut(e, u, v, x, y, i, j, l, m, n)

LEMMA Queued ==
  ASSUME NEW u, NEW v, NEW x, NEW y, NEW e, NEW n, NEW l, NEW m, NEW i, NEW j,
         Ready(e, u, v, x, y, i, j, l, m, n)
  PROVE  LET p == IF i + j = 2 THEN 1 ELSE 0
         IN  /\ Shut(e + Worth(u, v, l, m, i, j), IF i = 1 THEN l ELSE u, IF j = 1 THEN m ELSE v,
                     x, y, 0, 0, x, y, n + p)
             /\ Shut(e, u, v, x, y, 0, 0, x, y, n + (i + j) + p)
<1> DEFINE p == IF i + j = 2 THEN 1 ELSE 0
<1>1. Shut(e + Worth(u, v, l, m, i, j), IF i = 1 THEN l ELSE u, IF j = 1 THEN m ELSE v,
           x, y, 0, 0, x, y, n + p)
  <2> DEFINE f == IF i = 1 THEN l ELSE u
             g == IF j = 1 THEN m ELSE v
             worth == Worth(u, v, l, m, i, j)
  <2>1. worth \in Int /\ e \in Int /\ n \in Nat
    <3>1. Way(u, v, l, m) \in Int /\ Way(f, v, l, m) \in Int
      BY DEF Way, Sense
    <3> QED BY <3>1 DEF Worth, Ready
  <2> HIDE DEF worth, f, g
  <2>2. Settled(e + worth, f, g, x, y, 3 * (1 + n + p))
    BY DEF Ready, Shut, worth, f, g
  <2>3. Worth(f, g, x, y, 0, 0) = 0
    BY DEF Worth
  <2>4. e + worth + 0 = e + worth /\ 3 * (1 + (n + p) + 0) = 3 * (1 + n + p)
    BY <2>1
  <2>5. Shut(e + worth, f, g, x, y, 0, 0, x, y, n + p)
    BY <2>2, <2>3, <2>4 DEF Shut
  <2> QED BY <2>5 DEF worth, f, g
<1>2. Shut(e, u, v, x, y, 0, 0, x, y, n + (i + j) + p)
  <2>1. CASE i = 1 /\ j = 0
    BY <2>1 DEF Ready, Bit, Shut, Settled, Near, Worth, Way, Sense
  <2>2. CASE i = 0 /\ j = 1
    BY <2>2 DEF Ready, Bit, Shut, Settled, Near, Worth, Way, Sense
  <2>3. CASE i = 1 /\ j = 1
    BY <2>3 DEF Ready, Bit, Shut, Settled, Near, Worth, Way, Sense
  <2> QED BY <2>1, <2>2, <2>3 DEF Ready, Bit
<1> QED BY <1>1, <1>2

LEMMA NearMore ==
  ASSUME NEW e \in Int, NEW n \in Int, NEW j \in Nat,
         NEW k \in Nat, Near(e, n - j - k)
  PROVE  Near(e, n)
BY DEF Near

LEMMA NearNext ==
  ASSUME NEW e \in Int, NEW n \in Int, Near(e, n) PROVE Near(e, n + 1)
BY DEF Near

LEMMA NearFurther ==
  ASSUME NEW e \in Int, NEW n \in Int, NEW i \in Nat, NEW d \in -i .. i, Near(e, n - i)
  PROVE  Near(e + d, n)
BY DEF Near

\* The decoder of the encoder does the sums above.
TurnNamed(way) == IF way = 1 THEN "up" ELSE IF way = -1 THEN "down" ELSE "none"

LEMMA TurnIs ==
  ASSUME NEW u \in Bit, NEW v \in Bit, NEW x \in Bit, NEW y \in Bit
  PROVE  Turn(<<u, v>>, <<x, y>>) = TurnNamed(Way(u, v, x, y)) /\ Way(u, v, x, y) \in -1 .. 1
<1> DEFINE pair == <<<<u, v>>, <<x, y>>>>
           ups == {<<<<1, 1>>, <<0, 1>>>>, <<<<0, 1>>, <<0, 0>>>>,
                   <<<<0, 0>>, <<1, 0>>>>, <<<<1, 0>>, <<1, 1>>>>}
           downs == {<<<<1, 0>>, <<0, 0>>>>, <<<<0, 0>>, <<0, 1>>>>,
                     <<<<0, 1>>, <<1, 1>>>>, <<<<1, 1>>, <<1, 0>>>>}
<1>1. pair \in ups <=> Way(u, v, x, y) = 1
  <2>1. pair \in ups <=> \/ u = 1 /\ v = 1 /\ x = 0 /\ y = 1
                         \/ u = 0 /\ v = 1 /\ x = 0 /\ y = 0
                         \/ u = 0 /\ v = 0 /\ x = 1 /\ y = 0
                         \/ u = 1 /\ v = 0 /\ x = 1 /\ y = 1
    OBVIOUS
  <2> HIDE DEF pair, ups
  <2>2. CASE u = v
    <3>1. Way(u, v, x, y) = IF u # x /\ v = y THEN 1 ELSE IF u = x /\ v # y THEN -1 ELSE 0
      BY <2>2 DEF Way, Sense
    <3> QED BY <2>1, <2>2, <3>1 DEF Bit
  <2>3. CASE u # v
    <3>1. Way(u, v, x, y) = IF u # x /\ v = y THEN -1 ELSE IF u = x /\ v # y THEN 1 ELSE 0
      BY <2>3 DEF Way, Sense
    <3> QED BY <2>1, <2>3, <3>1 DEF Bit
  <2> QED BY <2>2, <2>3
<1>2. pair \in downs <=> Way(u, v, x, y) = -1
  BY DEF Bit, Way, Sense
<1>3. Way(u, v, x, y) \in -1 .. 1
  <2>1. \A i, j : Sense(i, j) \in {-1, 1}
    BY DEF Sense
  <2>2. Sense(u, v) \in {-1, 1}
    BY <2>1
  <2>3. Way(u, v, x, y) \in {Sense(u, v), -Sense(u, v), 0}
    BY DEF Way
  <2> QED BY <2>2, <2>3
<1>4. ~(pair \in ups /\ pair \in downs)
  BY <1>1, <1>2
<1>5. Turn(<<u, v>>, <<x, y>>)
        = CASE pair \in ups -> "up" [] pair \in downs -> "down" [] OTHER -> "none"
  BY Zenon DEF Turn
<1> HIDE DEF pair, ups, downs
<1>6. Turn(<<u, v>>, <<x, y>>) = TurnNamed(Way(u, v, x, y))
  BY <1>1, <1>2, <1>4, <1>5 DEF TurnNamed
<1> QED BY <1>3, <1>6

LEMMA PairIs ==
  ASSUME NEW f, NEW a, NEW b, NEW q, q[1] = a, q[2] = b
  PROVE  /\ [n \in 1 .. 2 |-> f[q[n]]] = <<f[a], f[b]>>
         /\ [n \in 1 .. 2 |-> f[q[n]].previous] = <<f[a].previous, f[b].previous>>
OBVIOUS

\* A lamp that is dimmed by one.
Dimmer(c) ==
  /\ c.mode \in PwmModes /\ c.llmode \in Outputs /\ ~c.suspended
  /\ "linear" \in c.flags /\ c.speed = 1
  /\ c.shared.lower \in Nat /\ c.shared.upper \in Nat
Within(c, v) ==
  v \in Int /\ c.shared.lower < v /\ v < c.shared.upper /\ v <= MaxValue(c.llmode)

\* It goes where it is told to go, between the ends of its range.
LEMMA Dims ==
  ASSUME NEW m, NEW P, NEW p \in P, Shape(m, P), p = <<p[1], p[2]>>, Dimmer(m.config[p]),
         NEW way \in {-1, 1}, m.out[p] \in Int, Within(m.config[p], m.out[p] + way)
  PROVE  LET w == io_trigger_pin(m, p, TurnNamed(way))
         IN  /\ Shape(w, P) /\ w.config = m.config /\ w.out[p] = m.out[p] + way
             /\ \A q \in P : w.data[q] = m.data[q]
<1> DEFINE c == m.config[p]
           o == m.out[p]
           t == TurnNamed(way)
           step == PwmStep(m, p, t)
           x == [m EXCEPT !.data[p] = m.data[p]]
           w == DeviceWrite(x, p, o + way).machine
<1>1. t \in Actions \ {"none"} /\ t \in {"up", "down"} /\ (t = "up" <=> way = 1)
  BY DEF TurnNamed, Actions
<1>2. step.value = o + way /\ step.data = m.data[p]
  <2>1. CASE way = 1
    <3>1. t = "up" /\ ~(o < c.shared.lower) /\ o + 1 < c.shared.upper
      BY <1>1, <2>1 DEF Within, Dimmer
    <3>2. Up(m, p, o) = o + 1
      BY DEF Up, Flagged, Dimmer
    <3>3. PwmUp(m, p) = [value |-> o + 1, data |-> m.data[p]]
      BY <3>1, <3>2, Zenon DEF PwmUp
    <3>4. step = PwmUp(m, p)
      BY <3>1 DEF PwmStep
    <3> QED BY <2>1, <3>3, <3>4
  <2>2. CASE way = -1
    <3>1. t = "down" /\ o >= 1 /\ o - 1 > c.shared.lower
      BY <1>1, <2>2 DEF Within, Dimmer
    <3>2. Down(m, p, o) = o - 1
      BY <3>1 DEF Down, Flagged, Dimmer
    <3>3. PwmDown(m, p) = [value |-> o - 1, data |-> m.data[p]]
      BY <3>1, <3>2, Zenon DEF PwmDown
    <3>4. step = PwmDown(m, p)
      BY <3>1 DEF PwmStep
    <3> QED BY <2>2, <3>3, <3>4
  <2> QED BY <2>1, <2>2
<1>3. TriggerPwm(m, p, t) = DeviceWrite(x, p, o + way)
  <2> HIDE DEF t
  <2>1. TriggerPwm(m, p, t) = DeviceWrite([m EXCEPT !.data[p] = step.data], p, step.value)
    BY <1>1, Zenon DEF TriggerPwm
  <2> HIDE DEF step
  <2> QED BY <1>2, <2>1
<1>4. io_trigger_pin(m, p, t) = w
  <2>1. ~m.config[p].suspended /\ m.config[p].mode # "trigger"
    BY DEF Dimmer, PwmModes
  <2>2. TriggerMode(m, p, t) = TriggerPwm(m, p, t)
    BY DEF TriggerMode, Dimmer, PwmModes
  <2> HIDE DEF t, w
  <2>3. io_trigger_pin(m, p, t) = TriggerMode(m, p, t).machine
    BY <2>1, TriggerSingle
  <2> QED BY <1>3, <2>2, <2>3 DEF w
<1>5. /\ Shape(x, P) /\ x.config = m.config /\ x.out = m.out
      /\ \A q \in P : x.data[q] = m.data[q]
  BY DEF Shape
<1> HIDE DEF x
<1>6. w.out[p] = Clipped(c.llmode, o + way) /\ Kept(x, w, P, {}) /\ w.data = x.data
  BY <1>5, DeviceKeeps DEF Dimmer
<1>7. Clipped(c.llmode, o + way) = o + way
  <2>1. MaxValue(c.llmode) \in Int
    BY DEF MaxValue
  <2> QED BY <2>1 DEF Within, Clipped
<1> HIDE DEF w, t
<1> QED BY <1>4, <1>5, <1>6, <1>7 DEF Kept, t

In(p, S) == IF p \in S THEN 1 ELSE 0

\* A pin of an encoder, of which the other is q, that turns the lamp.
Turner(c, q, lamp) ==
  /\ c.mode = "rotary_encoder" /\ c.llmode = "counter" /\ "invert" \notin c.flags
  /\ c.shared.partner = q[2] /\ ~(c.shared.remote >= 0)
  /\ <<c.shared.io, c.shared.pin>> = lamp

\* The knob and its lamp, on a machine.
Wired(m, P, a, b, lamp) ==
  /\ Shape(m, P)
  /\ a \in P /\ b \in P /\ lamp \in P
  /\ a = <<Gpio, a[2]>> /\ b = <<Gpio, b[2]>> /\ lamp = <<lamp[1], lamp[2]>>
  /\ a[2] \in 0 .. 15 /\ b[2] \in 0 .. 15 /\ a[2] < b[2]
  /\ Turner(m.config[a], b, lamp) /\ Turner(m.config[b], a, lamp)
  /\ Dimmer(m.config[lamp])
  /\ m.data[a].previous \in Bit /\ m.data[b].previous \in Bit

\* One of the encoder's pins is told of a change; then both are, of a report.
WayOf(m, a, b, level) ==
  Way(m.data[a].previous, m.data[b].previous, level[a], level[b])

LEMMA DecodedIs ==
  ASSUME NEW m, NEW P, NEW a, NEW b, NEW lamp, NEW p \in {a, b}, NEW level,
         Wired(m, P, a, b, lamp), level[a] \in Bit, level[b] \in Bit
  PROVE  Decoded(m, p, level) = TurnNamed(WayOf(m, a, b, level))
<1> DEFINE partner == <<p[1], m.config[p].shared.partner>>
           pair == IF p[2] > partner[2] THEN <<partner, p>> ELSE <<p, partner>>
           turn == Turn([n \in 1 .. 2 |-> m.data[pair[n]].previous],
                        [n \in 1 .. 2 |-> level[pair[n]]])
<1>1. partner \in DOMAIN m.config /\ pair = <<a, b>>
  <2>1. CASE p = a
    <3>1. partner = b
      BY <2>1 DEF Wired, Turner
    <3>2. ~(p[2] > partner[2])
      BY <2>1, <3>1 DEF Wired
    <3> HIDE DEF partner
    <3> QED BY <2>1, <3>1, <3>2 DEF Wired, Shape
  <2>2. CASE p = b
    <3>1. partner = a
      BY <2>2 DEF Wired, Turner
    <3>2. p[2] > partner[2]
      BY <2>2, <3>1 DEF Wired
    <3> HIDE DEF partner
    <3> QED BY <2>2, <3>1, <3>2 DEF Wired, Shape
  <2> QED BY <2>1, <2>2
<1>2. ~Flagged(m, p, "invert")
  BY DEF Flagged, Wired, Turner
<1>3. Decoded(m, p, level) = turn
  BY <1>1, <1>2, Zenon DEF Decoded
<1> HIDE DEF partner, pair
<1>4. /\ [n \in 1 .. 2 |-> m.data[pair[n]].previous]
             = <<m.data[a].previous, m.data[b].previous>>
      /\ [n \in 1 .. 2 |-> level[pair[n]]] = <<level[a], level[b]>>
  BY <1>1, PairIs
<1>5. turn = Turn(<<m.data[a].previous, m.data[b].previous>>, <<level[a], level[b]>>)
  BY <1>4, Zenon
<1> QED BY <1>3, <1>5, TurnIs DEF WayOf, Wired

LEMMA Told ==
  ASSUME NEW m, NEW P, NEW a, NEW b, NEW lamp, NEW p \in {a, b}, NEW level,
         Wired(m, P, a, b, lamp), level[a] \in Bit, level[b] \in Bit, m.out[lamp] \in Int,
         Within(m.config[lamp], m.out[lamp] + WayOf(m, a, b, level))
  PROVE  LET w == PinChanged(m, p, level, NoPin)
         IN  /\ Wired(w, P, a, b, lamp) /\ w.config = m.config
             /\ w.out[lamp] = m.out[lamp] + WayOf(m, a, b, level)
             /\ w.data[lamp].direction = m.data[lamp].direction
             /\ w.data[p].previous = level[p]
             /\ \A q \in P \ {p} : w.data[q].previous = m.data[q].previous
<1> DEFINE way == WayOf(m, a, b, level)
           x == ChangedRotary(m, p, level)
           w == [x EXCEPT !.data[p].previous = level[p]]
           one == OneUp(m, p)
<1>0. p \in P /\ Shape(m, P) /\ way \in -1 .. 1 /\ lamp # p /\ m.config[p].mode = "rotary_encoder"
  <2>1. way \in -1 .. 1
    BY TurnIs DEF Wired, WayOf
  <2>2. m.config[p].mode = "rotary_encoder" /\ m.config[lamp].mode \in PwmModes
    BY DEF Wired, Turner, Dimmer
  <2>3. lamp # p
    BY <2>2 DEF PwmModes
  <2> QED BY <2>1, <2>2, <2>3 DEF Wired
<1>1. PinChanged(m, p, level, NoPin) = w
  <2>1. PinChanged(m, p, level, NoPin)
          = [(CASE m.config[p].mode \in {"counter", "pcint"} /\ Counts(m, p, level) -> OneUp(m, p)
                [] m.config[p].mode = "trigger" /\ Counts(m, p, level) -> ChangedTrigger(m, p)
                [] m.config[p].mode = "rotary_encoder" -> ChangedRotary(m, p, level)
                [] OTHER -> m) EXCEPT !.data[p].previous = level[p]]
    BY Zenon DEF PinChanged
  <2>2. (CASE m.config[p].mode \in {"counter", "pcint"} /\ Counts(m, p, level) -> OneUp(m, p)
                [] m.config[p].mode = "trigger" /\ Counts(m, p, level) -> ChangedTrigger(m, p)
                [] m.config[p].mode = "rotary_encoder" -> ChangedRotary(m, p, level)
                [] OTHER -> m) = x
    BY <1>0
  <2> HIDE DEF x
  <2> QED BY <2>1, <2>2, Zenon
<1>2. /\ Shape(one, P) /\ one.config = m.config /\ one.out = m.out
      /\ \A q \in P : /\ one.data[q].previous = m.data[q].previous
                      /\ one.data[q].direction = m.data[q].direction
  <2>1. /\ DOMAIN one = DOMAIN m /\ one.config = m.config /\ one.out = m.out
        /\ one.data = [m.data EXCEPT ![p] = [m.data[p] EXCEPT !.value = @ + 1]]
    BY <1>0 DEF OneUp, Shape
  <2> HIDE DEF one
  <2> QED BY <1>0, <2>1 DEF Shape, IsData
<1> HIDE DEF one
<1>3. /\ Shape(x, P) /\ x.config = m.config /\ x.out[lamp] = m.out[lamp] + way
      /\ \A q \in P : /\ x.data[q].previous = m.data[q].previous
                      /\ x.data[q].direction = m.data[q].direction
  <2>0. Decoded(m, p, level) = TurnNamed(way)
    BY DecodedIs
  <2>1. CASE way = 0
    <3>1. TurnNamed(way) = "none"
      BY <2>1 DEF TurnNamed
    <3>2. x = m
      BY <2>0, <3>1, Zenon DEF ChangedRotary
    <3> HIDE DEF x, way
    <3> QED BY <1>0, <2>1, <3>2
  <2>2. CASE way # 0
    <3>1. TurnNamed(way) # "none" /\ way \in {-1, 1}
      BY <1>0, <2>2 DEF TurnNamed
    <3>2. ~(m.config[p].shared.remote >= 0)
          /\ <<m.config[p].shared.io, m.config[p].shared.pin>> = lamp
      BY DEF Wired, Turner
    <3>3. x = io_trigger_pin(one, lamp, TurnNamed(way))
      BY <2>0, <3>1, <3>2, Zenon DEF ChangedRotary, one
    <3> HIDE DEF x
    <3>4. lamp \in P /\ lamp = <<lamp[1], lamp[2]>> /\ Dimmer(one.config[lamp])
      BY <1>2 DEF Wired
    <3>5. one.out[lamp] \in Int /\ Within(one.config[lamp], one.out[lamp] + way)
      BY <1>2
    <3> HIDE DEF way
    <3>6. /\ Shape(x, P) /\ x.config = one.config /\ x.out[lamp] = one.out[lamp] + way
          /\ \A q \in P : x.data[q] = one.data[q]
      <4>1. Shape(one, P)
        BY <1>2
      <4> QED BY <4>1, <3>1, <3>3, <3>4, <3>5, Dims
    <3> QED BY <1>2, <3>6
  <2> QED BY <2>1, <2>2
<1> HIDE DEF x
<1>4. /\ Shape(w, P) /\ w.config = x.config /\ w.out = x.out
      /\ w.data[p].previous = level[p]
      /\ \A q \in P : /\ q # p => w.data[q].previous = x.data[q].previous
                      /\ w.data[q].direction = x.data[q].direction
  <2>1. /\ DOMAIN w = DOMAIN x /\ w.config = x.config /\ w.out = x.out
        /\ w.data = [x.data EXCEPT ![p] = [x.data[p] EXCEPT !.previous = level[p]]]
    BY <1>0, <1>3 DEF Shape
  <2> HIDE DEF w
  <2> QED BY <1>0, <1>3, <2>1 DEF Shape, IsData
<1> HIDE DEF w
<1>5. Wired(w, P, a, b, lamp)
  <2>1. w.data[a].previous \in Bit /\ w.data[b].previous \in Bit
    BY <1>3, <1>4 DEF Wired
  <2> QED BY <1>3, <1>4, <2>1 DEF Wired
<1> QED BY <1>1, <1>3, <1>4, <1>5 DEF Wired

\* A turn that the first contact tells of the second may tell a second time.
LEMMA TwiceTold ==
  ASSUME NEW u \in Bit, NEW v \in Bit, NEW x \in Bit, NEW y \in Bit
  PROVE  Way(u, v, x, y) = 0 \/ Way(x, v, x, y) \in {0, Way(u, v, x, y)}
<1>1. CASE u = x
  BY <1>1
<1>2. CASE u # x /\ v = y
  BY <1>2 DEF Way
<1>3. CASE u # x /\ v # y
  BY <1>3 DEF Way
<1> QED BY <1>1, <1>2, <1>3

LEMMA WithinBetween ==
  ASSUME NEW c, Dimmer(c), NEW o \in Int, NEW i \in Int, Within(c, o), Within(c, o + i + i)
  PROVE  Within(c, o + i)
<1>1. MaxValue(c.llmode) \in Int
  BY DEF MaxValue
<1> QED BY <1>1 DEF Within, Dimmer

LEMMA ToldIf ==
  ASSUME NEW m, NEW P, NEW a, NEW b, NEW lamp, NEW p \in {a, b}, NEW level, NEW status,
         Wired(m, P, a, b, lamp), level[a] \in Bit, level[b] \in Bit, m.out[lamp] \in Int,
         p \in status => Within(m.config[lamp], m.out[lamp] + WayOf(m, a, b, level))
  PROVE  LET w == ChangedIf(m, p, status, level, NoPin)
         IN  /\ Wired(w, P, a, b, lamp) /\ w.config = m.config
             /\ w.out[lamp] = m.out[lamp] + (IF p \in status THEN WayOf(m, a, b, level) ELSE 0)
             /\ w.data[lamp].direction = m.data[lamp].direction
             /\ w.data[p].previous = IF p \in status THEN level[p] ELSE m.data[p].previous
             /\ \A q \in P \ {p} : w.data[q].previous = m.data[q].previous
<1>1. CASE p \in status
  <2>1. ChangedIf(m, p, status, level, NoPin) = PinChanged(m, p, level, NoPin)
    BY <1>1 DEF ChangedIf, Wired, Turner
  <2> QED BY <1>1, <2>1, Told
<1>2. CASE p \notin status
  <2>1. ChangedIf(m, p, status, level, NoPin) = m
    BY <1>2 DEF ChangedIf
  <2> QED BY <1>2, <2>1
<1> QED BY <1>1, <1>2

\* A report is what it is to a, and then to b.
LEMMA ReportOf ==
  ASSUME NEW m, NEW a, NEW b, NEW status, NEW level,
         a = <<Gpio, a[2]>>, b = <<Gpio, b[2]>>, a[2] \in 0 .. 15, b[2] \in 0 .. 15,
         a[2] < b[2], status \subseteq {a, b}
  PROVE  PinsChanged(m, status, level, NoPin)
           = ChangedIf(ChangedIf(m, a, status, level, NoPin), b, status, level, NoPin)
<1>0. PICK f : ChangedBy(f, m, status, level, NoPin)
  BY ChangedRun
<1>1. /\ f[0] = m
      /\ \A n \in 0 .. 15 : f[n + 1] = ChangedIf(f[n], <<Gpio, n>>, status, level, NoPin)
      /\ PinsChanged(m, status, level, NoPin) = f[16]
  BY <1>0 DEF ChangedBy
<1> DEFINE s == ChangedIf(m, a, status, level, NoPin)
           t == ChangedIf(s, b, status, level, NoPin)
           At(n) == IF n <= a[2] THEN m ELSE IF n <= b[2] THEN s ELSE t
           G == {n \in Nat : n <= 16 => f[n] = At(n)}
<1> HIDE DEF s, t
<1>2. 0 \in G
  BY <1>1
<1>3. ASSUME NEW n \in Nat, n \in G PROVE n + 1 \in G
  <2> SUFFICES ASSUME n + 1 <= 16 PROVE f[n + 1] = At(n + 1)
    OBVIOUS
  <2>1. n \in 0 .. 15 /\ f[n] = At(n)
    BY <1>3
  <2>2. f[n + 1] = ChangedIf(At(n), <<Gpio, n>>, status, level, NoPin)
    BY <1>1, <2>1
  <2>3. CASE n = a[2]
    <3>1. At(n) = m /\ At(n + 1) = s /\ <<Gpio, n>> = a
      BY <2>3
    <3> HIDE DEF At
    <3> QED BY <2>2, <3>1 DEF s
  <2>4. CASE n = b[2]
    <3>1. At(n) = s /\ At(n + 1) = t /\ <<Gpio, n>> = b
      BY <2>4
    <3> HIDE DEF At
    <3> QED BY <2>2, <3>1 DEF t
  <2>5. CASE n # a[2] /\ n # b[2]
    <3>1. At(n + 1) = At(n)
      BY <2>5
    <3>2. <<Gpio, n>> \notin status
      <4>1. <<Gpio, n>> # a /\ <<Gpio, n>> # b
        BY <2>5
      <4> QED BY <4>1
    <3> HIDE DEF At
    <3> QED BY <2>2, <3>1, <3>2 DEF ChangedIf
  <2> QED BY <2>3, <2>4, <2>5
<1>4. 16 \in G
  <2> HIDE DEF G
  <2> QED BY <1>2, <1>3, CountingUp
<1>5. f[16] = t
  BY <1>4
<1> QED BY <1>1, <1>5 DEF s, t

Hears(m, P, a, b, lamp, level, status, worth) ==
  /\ Wired(m, P, a, b, lamp) /\ level[a] \in Bit /\ level[b] \in Bit /\ m.out[lamp] \in Int
  /\ status \subseteq {a, b}
  /\ worth = Worth(m.data[a].previous, m.data[b].previous, level[a], level[b],
                   In(a, status), In(b, status))
  /\ Within(m.config[lamp], m.out[lamp]) /\ Within(m.config[lamp], m.out[lamp] + worth)

LEMMA Heard ==
  ASSUME NEW m, NEW P, NEW a, NEW b, NEW lamp, NEW level, NEW status, NEW worth,
         Hears(m, P, a, b, lamp, level, status, worth),
         NEW w, w = PinsChanged(m, status, level, NoPin)
  PROVE  /\ Wired(w, P, a, b, lamp) /\ w.config = m.config
         /\ w.out[lamp] = m.out[lamp] + worth
         /\ w.data[lamp].direction = m.data[lamp].direction
         /\ w.data[a].previous = IF a \in status THEN level[a] ELSE m.data[a].previous
         /\ w.data[b].previous = IF b \in status THEN level[b] ELSE m.data[b].previous
<1> USE DEF Hears
<1> DEFINE u == m.data[a].previous
           v == m.data[b].previous
           x == level[a]
           y == level[b]
           s == ChangedIf(m, a, status, level, NoPin)
           z == ChangedIf(s, b, status, level, NoPin)
           now == IF a \in status THEN x ELSE u
           first == IF a \in status THEN Way(u, v, x, y) ELSE 0
           second == IF b \in status THEN Way(now, v, x, y) ELSE 0
<1>0. /\ u \in Bit /\ v \in Bit /\ now \in Bit /\ a \in P /\ b \in P \ {a} /\ a \in P \ {b}
      /\ a = <<Gpio, a[2]>> /\ b = <<Gpio, b[2]>> /\ a[2] \in 0 .. 15 /\ b[2] \in 0 .. 15
      /\ a[2] < b[2]
  BY DEF Wired
<1>1. worth = first + second /\ first \in Int /\ second \in Int
  <2>1. Way(u, v, x, y) \in Int /\ Way(now, v, x, y) \in Int
    <3> HIDE DEF now, u, v, x, y
    <3>1. Way(u, v, x, y) \in -1 .. 1 /\ Way(now, v, x, y) \in -1 .. 1
      BY <1>0, TurnIs DEF x, y
    <3> QED BY <3>1
  <2> QED BY <2>1 DEF Worth, In
<1>2. first = 0 \/ second \in {0, first}
  <2> HIDE DEF u, v, x, y
  <2>1. Way(u, v, x, y) = 0 \/ Way(x, v, x, y) \in {0, Way(u, v, x, y)}
    BY <1>0, TwiceTold DEF x, y
  <2> QED BY <2>1
<1>3. a \in status => Within(m.config[lamp], m.out[lamp] + WayOf(m, a, b, level))
  <2>1. a \in status => WayOf(m, a, b, level) = first
    BY DEF WayOf
  <2> HIDE DEF first, second
  <2>2. CASE first = 0
    <3>1. m.out[lamp] + first = m.out[lamp]
      BY <2>2
    <3> QED BY <2>1, <3>1
  <2>3. CASE second = 0
    <3>1. worth = first
      BY <1>1, <2>3
    <3> QED BY <2>1, <3>1
  <2>4. CASE second = first
    <3>1. m.out[lamp] + worth = m.out[lamp] + first + first
      BY <1>1, <2>4
    <3>2. Dimmer(m.config[lamp]) /\ Within(m.config[lamp], m.out[lamp] + first + first)
      BY <3>1 DEF Wired
    <3> QED BY <1>1, <2>1, <3>2, WithinBetween
  <2> QED BY <1>2, <2>2, <2>3, <2>4
<1>4. /\ Wired(s, P, a, b, lamp) /\ s.config = m.config
      /\ s.out[lamp] = m.out[lamp] + (IF a \in status THEN WayOf(m, a, b, level) ELSE 0)
      /\ s.data[lamp].direction = m.data[lamp].direction
      /\ s.data[a].previous = IF a \in status THEN level[a] ELSE m.data[a].previous
      /\ \A q \in P \ {a} : s.data[q].previous = m.data[q].previous
  BY <1>3, ToldIf
<1> HIDE DEF s
<1>5. /\ s.out[lamp] = m.out[lamp] + first /\ s.out[lamp] \in Int
      /\ s.data[a].previous = now /\ s.data[b].previous = v
  <2>1. s.out[lamp] = m.out[lamp] + first
    BY <1>4 DEF WayOf
  <2> HIDE DEF first
  <2> QED BY <1>0, <1>1, <1>4, <2>1
<1>6. b \in status => Within(s.config[lamp], s.out[lamp] + WayOf(s, a, b, level))
  <2>1. b \in status => WayOf(s, a, b, level) = second
    <3> HIDE DEF now
    <3> QED BY <1>5 DEF WayOf
  <2>2. s.out[lamp] + second = m.out[lamp] + worth
    <3> HIDE DEF first, second
    <3> QED BY <1>1, <1>5
  <2> HIDE DEF second
  <2> QED BY <1>4, <2>1, <2>2
<1>7. /\ Wired(z, P, a, b, lamp) /\ z.config = s.config
      /\ z.out[lamp] = s.out[lamp] + (IF b \in status THEN WayOf(s, a, b, level) ELSE 0)
      /\ z.data[lamp].direction = s.data[lamp].direction
      /\ z.data[b].previous = IF b \in status THEN level[b] ELSE s.data[b].previous
      /\ \A q \in P \ {b} : z.data[q].previous = s.data[q].previous
  BY <1>4, <1>5, <1>6, ToldIf
<1> HIDE DEF z
<1>8. z.out[lamp] = m.out[lamp] + worth
  <2>1. z.out[lamp] = s.out[lamp] + second
    <3> HIDE DEF now
    <3> QED BY <1>5, <1>7 DEF WayOf
  <2> HIDE DEF first, second
  <2>2. s.out[lamp] + second = m.out[lamp] + worth
    BY <1>1, <1>5
  <2> QED BY <2>1, <2>2
<1>9. w = z
  BY <1>0, ReportOf DEF s, z
<1> QED BY <1>0, <1>4, <1>5, <1>7, <1>8, <1>9
-----------------------------------------------------------------------------
(* The knob of the world, and what the lamp and the encoder will be when   *)
(* the reports that wait have been handled, one after the other.           *)
KnobA == world.knob[1]
KnobB == world.knob[2]
Lamp == world.knobbed

Heeding == [o : Int, a : Bit, b : Bit]
After(s, r) ==
  [o |-> s.o + Worth(s.a, s.b, r.level[KnobA], r.level[KnobB],
                     In(KnobA, r.status), In(KnobB, r.status)),
   a |-> IF KnobA \in r.status THEN r.level[KnobA] ELSE s.a,
   b |-> IF KnobB \in r.status THEN r.level[KnobB] ELSE s.b]
Present == [o |-> machine.out[Lamp], a |-> machine.data[KnobA].previous,
            b |-> machine.data[KnobB].previous]

\* v[i], when i of the reports rs have been handled.
Ahead(v, rs) ==
  /\ v \in [0 .. Len(rs) -> Heeding]
  /\ v[0] = Present
  /\ \A i \in 1 .. Len(rs) : v[i] = After(v[i - 1], rs[i])

\* How many of the knob's contacts a set has.
Ends(S) == In(KnobA, S) + In(KnobB, S)

\* Nobody else does anything.
KnobOnly ==
  /\ left.commands = 0 /\ left.restarts = 0 /\ left.edges \in Nat
  /\ {"commands", "edges", "restarts"} \subseteq DOMAIN left
  /\ sequencer.repeats = 0 /\ posts = 0
  /\ machine.config = Restored(world.store) /\ machine.data[Lamp].direction = "none"
  /\ history.turns \in Int /\ history.slips \in Nat /\ history.together \in Nat
  /\ latch # NoLatch => pending # {}

\* The lamp has moved by no more than there were edges ...
Reached(v, rs) ==
  \A i \in 0 .. Len(rs) :
    Near(v[i].o - world.centre, world.left.edges - left.edges - Ends(pending))

\* ... and, when all has been handled, this far from where the knob has been turned to.
Error(s) ==
  LET e == s.o - world.centre - history.turns
      n == history.slips + history.together
      x == contacts[KnobA]
      y == contacts[KnobB]
  IN  IF KnobA \in pending /\ KnobB \in pending /\ latch = NoLatch
      THEN Open(e, s.a, s.b, x, y, n)
      ELSE Shut(e, s.a, s.b, x, y, In(KnobA, pending), In(KnobB, pending),
                IF latch = NoLatch THEN x ELSE latch[KnobA],
                IF latch = NoLatch THEN y ELSE latch[KnobB], n)

Knob(v) == KnobOnly /\ Ahead(v, reports) /\ Reached(v, reports) /\ Error(v[Len(reports)])
KnobInv == world.knob # <<>> => \E v : Knob(v)

\* What is assumed of the knob's world is so of the machine at all times.
LEMMA KnobIs ==
  ASSUME Core, world.knob # <<>>
  PROVE  /\ KnobAlone(world) /\ world.contacts = {KnobA, KnobB}
         /\ KnobA \in Pins /\ KnobB \in Pins /\ Lamp \in Pins /\ KnobA # KnobB
         /\ KnobA = <<Gpio, KnobA[2]>> /\ KnobB = <<Gpio, KnobB[2]>> /\ Lamp = <<Lamp[1], Lamp[2]>>
         /\ KnobA[2] \in 0 .. 15 /\ KnobB[2] \in 0 .. 15 /\ KnobA[2] < KnobB[2]
         /\ DOMAIN Restored(world.store) = Pins
<1>1. KnobAlone(world)
  BY IoAssumption DEF Core, SequencerInv, Records
<1>2. /\ world.contacts = {KnobA, KnobB} /\ Lamp \in DOMAIN world.store
      /\ KnobA[2] < KnobB[2]
  BY <1>1, Zenon DEF KnobAlone, KnobA, KnobB, Lamp
<1>3. world.contacts \subseteq Pins /\ Pins = DOMAIN world.store
  BY DEF Core, Interrupts
<1>4. KnobA \in Pins /\ KnobB \in Pins /\ Lamp \in Pins
  BY <1>2, <1>3
<1>5. /\ \A p \in Pins : p = <<p[1], p[2]>>
      /\ \A p \in world.contacts : p[1] = Gpio /\ p[2] \in 0 .. 15
  BY Pinned
<1>6. /\ KnobA = <<Gpio, KnobA[2]>> /\ KnobB = <<Gpio, KnobB[2]>> /\ Lamp = <<Lamp[1], Lamp[2]>>
      /\ KnobA[2] \in 0 .. 15 /\ KnobB[2] \in 0 .. 15
  BY <1>2, <1>4, <1>5
<1>7. KnobA # KnobB
  BY <1>2, <1>6
<1> QED BY <1>1, <1>2, <1>3, <1>4, <1>6, <1>7, RestoredIs

LEMMA KnobWired ==
  ASSUME Core, world.knob # <<>>, NEW m, Shape(m, Pins), m.config = Restored(world.store),
         m.data[KnobA].previous \in Bit, m.data[KnobB].previous \in Bit
  PROVE  /\ Wired(m, Pins, KnobA, KnobB, Lamp)
         /\ \A o \in Int : Near(o - world.centre, world.left.edges) => Within(m.config[Lamp], o)
<1> DEFINE c == Restored(world.store)
<1> HIDE DEF c
<1>0. /\ c[KnobA].shared.partner = KnobB[2] /\ c[KnobB].shared.partner = KnobA[2]
      /\ \A p \in {KnobA, KnobB} :
           /\ c[p].mode = "rotary_encoder" /\ c[p].llmode = "counter" /\ "invert" \notin c[p].flags
           /\ ~(c[p].shared.remote >= 0) /\ <<c[p].shared.io, c[p].shared.pin>> = Lamp
      /\ c[Lamp].mode \in PwmModes /\ "linear" \in c[Lamp].flags /\ c[Lamp].speed = 1
      /\ {world.centre, c[Lamp].shared.lower, c[Lamp].shared.upper, world.left.edges}
           \subseteq Nat
      /\ c[Lamp].shared.lower + world.left.edges < world.centre
      /\ world.centre + world.left.edges < c[Lamp].shared.upper
      /\ world.centre + world.left.edges <= MaxValue(c[Lamp].llmode)
  BY KnobIs, Zenon DEF KnobAlone, KnobA, KnobB, Lamp, c
<1>1. Turner(c[KnobA], KnobB, Lamp) /\ Turner(c[KnobB], KnobA, Lamp)
  BY <1>0 DEF Turner
<1>2. ~c[Lamp].suspended /\ c[Lamp].llmode \in Outputs
  <2>1. StoredDriven(world.store[Lamp])
    <3>1. world \in Worlds /\ Lamp \in DOMAIN world.store
      BY KnobIs DEF Core, SequencerInv, Records
    <3>2. Stored(world.store[Lamp])
      BY <3>1, IoAssumption
    <3> QED BY <3>2 DEF Stored, StoredDriven
  <2>2. Lamp \in DOMAIN world.store
    BY KnobIs DEF Core
  <2>3. c[Lamp].mode \in DrivenModes
    BY <1>0 DEF DrivenModes
  <2> QED BY <2>1, <2>2, <2>3, RestoredIs DEF c
<1>3. Dimmer(c[Lamp])
  BY <1>0, <1>2 DEF Dimmer
<1>4. m.config = c
  BY DEF c
<1>5. Wired(m, Pins, KnobA, KnobB, Lamp)
  BY <1>1, <1>3, <1>4, KnobIs DEF Wired
<1>6. ASSUME NEW o \in Int, Near(o - world.centre, world.left.edges)
      PROVE  Within(m.config[Lamp], o)
  <2>1. MaxValue(c[Lamp].llmode) \in Int
    BY DEF MaxValue
  <2> DEFINE e == world.left.edges
             centre == world.centre
             lower == c[Lamp].shared.lower
             upper == c[Lamp].shared.upper
             most == MaxValue(c[Lamp].llmode)
  <2>2. /\ e \in Nat /\ centre \in Nat /\ lower \in Nat /\ upper \in Nat /\ most \in Int
        /\ lower + e < centre /\ centre + e < upper /\ centre + e <= most
    BY <1>0, <2>1
  <2>3. -e <= o - centre /\ o - centre <= e
    BY <1>6 DEF Near
  <2> HIDE DEF e, centre, lower, upper, most
  <2>4. lower < o /\ o < upper /\ o <= most
    BY <2>2, <2>3
  <2> QED BY <1>4, <2>4 DEF Within, lower, upper, most
<1> QED BY <1>5, <1>6

\* The steps, one after the other: what leaves the knob alone, the tick, a report's handling,
\* the two halves of the interrupt handler, the edge, the start.
LEMMA KnobSame ==
  ASSUME NEW v, Knob(v), world' = world, contacts' = contacts, pending' = pending,
         latch' = latch, reports' = reports, left' = left, posts' = posts,
         sequencer'.repeats = sequencer.repeats, machine'.config = machine.config,
         machine'.out[Lamp] = machine.out[Lamp],
         machine'.data[Lamp].direction = machine.data[Lamp].direction,
         \A p \in {KnobA, KnobB} : machine'.data[p].previous = machine.data[p].previous,
         history'.turns = history.turns, history'.slips = history.slips,
         history'.together = history.together
  PROVE  Knob(v)'
<1>0. KnobA' = KnobA /\ KnobB' = KnobB /\ Lamp' = Lamp
  BY DEF KnobA, KnobB, Lamp
<1>1. KnobOnly'
  BY <1>0 DEF Knob, KnobOnly
<1>2. Ahead(v, reports)'
  <2>1. Present' = Present
    BY <1>0 DEF Present
  <2>2. \A s, r : After(s, r)' = After(s, r)
    BY <1>0 DEF After
  <2> QED BY <2>1, <2>2 DEF Knob, Ahead
<1>3. Reached(v, reports)'
  BY <1>0 DEF Knob, Reached, Ends
<1>4. Error(v[Len(reports)])'
  BY <1>0 DEF Knob, Error
<1> QED BY <1>1, <1>2, <1>3, <1>4 DEF Knob

LEMMA KnobTick ==
  ASSUME Core, world.knob # <<>>, NEW v, Knob(v), io_periodic_fast PROVE Knob(v)'
<1>0. Shape(machine, Pins) /\ Wired(machine, Pins, KnobA, KnobB, Lamp)
  <2>1. /\ Shape(machine, Pins) /\ machine.config = Restored(world.store)
        /\ Present \in Heeding
    <3>1. v[0] \in Heeding
      <4>1. 0 \in 0 .. Len(reports)
        BY DEF Core, Interrupts
      <4> QED BY <4>1 DEF Knob, Ahead
    <3> QED BY <3>1, Pinned DEF Knob, KnobOnly, Ahead
  <2> QED BY <2>1, KnobWired DEF Present, Heeding
<1> DEFINE after == [p \in Pins |-> PeriodicFast(machine, p, Rate)]
<1>1. ASSUME NEW p \in {KnobA, KnobB, Lamp} PROVE after[p] = machine
  <2>1. p \in Pins
    BY KnobIs
  <2>2. machine.config[p].mode # "timer" /\ ~Fading(machine, p)
    <3>1. CASE p = Lamp
      BY <1>0, <3>1 DEF Fading, Knob, KnobOnly, Wired, Dimmer, PwmModes
    <3>2. CASE p \in {KnobA, KnobB}
      BY <1>0, <3>2 DEF Fading, Wired, Turner, PwmModes
    <3> QED BY <3>1, <3>2
  <2> QED BY <2>1, <2>2 DEF PeriodicFast
<1>2. /\ machine'.config = machine.config
      /\ machine'.data = [p \in Pins |-> after[p].data[p]]
      /\ machine'.out = [p \in Pins |-> after[p].out[p]]
  BY <1>0 DEF io_periodic_fast, Ticked, Shape
<1> HIDE DEF after
<1>3. \A p \in {KnobA, KnobB, Lamp} :
        machine'.data[p] = machine.data[p] /\ machine'.out[p] = machine.out[p]
  BY <1>1, <1>2, KnobIs
<1>4. /\ world' = world /\ contacts' = contacts /\ pending' = pending /\ latch' = latch
      /\ reports' = reports /\ left' = left
      /\ sequencer'.repeats = sequencer.repeats
      /\ history'.turns = history.turns /\ history'.slips = history.slips
      /\ history'.together = history.together
  BY DEF io_periodic_fast, Elsewhere, Core, SequencerInv, Records
<1>5. posts' = posts
  <2>1. ~(sequencer.repeats > 0)
    BY DEF Knob, KnobOnly
  <2> QED BY <2>1 DEF io_periodic_fast, Due
<1> QED BY <1>2, <1>3, <1>4, <1>5, KnobSame

\* What a report is to the machine.
LEMMA KnobHears ==
  ASSUME Core, world.knob # <<>>, NEW v, Knob(v), reports # <<>>, NEW m,
         m = PinsChanged(machine, Head(reports).status, Head(reports).level, NoPin)
  PROVE  /\ m.config = machine.config /\ m.data[Lamp].direction = "none"
         /\ [o |-> m.out[Lamp], a |-> m.data[KnobA].previous, b |-> m.data[KnobB].previous]
              = After(Present, Head(reports))
         /\ v[1] = After(Present, Head(reports)) /\ v[1] \in Heeding /\ Present \in Heeding
<1> DEFINE r == Head(reports)
           Report == [status : SUBSET world.contacts, level : Levels]
<1>1. /\ reports \in Seq(Report) /\ world.contacts = {KnobA, KnobB}
      /\ KnobA \in Pins /\ KnobB \in Pins
  BY KnobIs DEF Core, Interrupts
<1>2. r \in Report /\ Len(reports) \in Nat /\ 1 \in 1 .. Len(reports) /\ r = reports[1]
  <2> HIDE DEF Report
  <2> QED BY <1>1
<1>3. r.status \subseteq {KnobA, KnobB} /\ r.level[KnobA] \in Bit /\ r.level[KnobB] \in Bit
  BY <1>1, <1>2 DEF Levels, Bit
<1>4. /\ v[0] = Present /\ v[1] = After(Present, r)
      /\ v[0] \in Heeding /\ v[1] \in Heeding
  <2>1. 0 \in 0 .. Len(reports) /\ 1 \in 0 .. Len(reports) /\ 1 - 1 = 0
    BY <1>2
  <2>2. v[1] = After(v[1 - 1], reports[1])
    BY <1>2 DEF Knob, Ahead
  <2> QED BY <1>2, <2>1, <2>2 DEF Knob, Ahead
<1>5. /\ Wired(machine, Pins, KnobA, KnobB, Lamp)
      /\ \A o \in Int : Near(o - world.centre, world.left.edges)
           => Within(machine.config[Lamp], o)
  BY <1>4, KnobWired, Pinned DEF Knob, KnobOnly, Present, Heeding
<1> DEFINE worth == Worth(machine.data[KnobA].previous, machine.data[KnobB].previous,
                          r.level[KnobA], r.level[KnobB],
                          In(KnobA, r.status), In(KnobB, r.status))
<1>6. ASSUME NEW i \in 0 .. Len(reports), v[i] \in Heeding
      PROVE  Within(machine.config[Lamp], v[i].o)
  <2>1. Near(v[i].o - world.centre, world.left.edges - left.edges - Ends(pending))
    BY DEF Knob, Reached
  <2>2. v[i].o \in Int /\ world.centre \in Nat /\ world.left.edges \in Nat
    BY <1>6, KnobIs, Zenon DEF Heeding, KnobAlone
  <2>3. left.edges \in Nat /\ Ends(pending) \in Nat
    BY DEF Ends, In, Knob, KnobOnly
  <2>4. v[i].o - world.centre \in Int /\ world.left.edges \in Int
    BY <2>2
  <2>5. Near(v[i].o - world.centre, world.left.edges)
    BY <2>1, <2>3, <2>4, NearMore
  <2> QED BY <1>5, <2>2, <2>5
<1>7. /\ Within(machine.config[Lamp], machine.out[Lamp])
      /\ Within(machine.config[Lamp], machine.out[Lamp] + worth)
      /\ machine.out[Lamp] \in Int
  <2>1. Present.o = machine.out[Lamp] /\ After(Present, r).o = machine.out[Lamp] + worth
    BY DEF Present, After
  <2>2. 0 \in 0 .. Len(reports) /\ 1 \in 0 .. Len(reports)
    BY <1>2
  <2> HIDE DEF worth, r
  <2> QED BY <1>4, <1>6, <2>1, <2>2 DEF Heeding
<1> HIDE DEF r
<1>8. /\ m.config = machine.config /\ m.out[Lamp] = machine.out[Lamp] + worth
      /\ m.data[Lamp].direction = machine.data[Lamp].direction
      /\ m.data[KnobA].previous = IF KnobA \in r.status THEN r.level[KnobA]
                                  ELSE machine.data[KnobA].previous
      /\ m.data[KnobB].previous = IF KnobB \in r.status THEN r.level[KnobB]
                                  ELSE machine.data[KnobB].previous
  <2>1. m = PinsChanged(machine, r.status, r.level, NoPin)
    BY DEF r
  <2>2. worth = Worth(machine.data[KnobA].previous, machine.data[KnobB].previous,
                      r.level[KnobA], r.level[KnobB], In(KnobA, r.status), In(KnobB, r.status))
    OBVIOUS
  <2> HIDE DEF worth
  <2>3. Hears(machine, Pins, KnobA, KnobB, Lamp, r.level, r.status, worth)
    BY <1>3, <1>5, <1>7, <2>2 DEF Hears
  <2> QED BY <2>1, <2>3, Heard
<1>9. [o |-> m.out[Lamp], a |-> m.data[KnobA].previous, b |-> m.data[KnobB].previous]
        = After(Present, r)
  BY <1>8 DEF After, Present
<1>10. m.data[Lamp].direction = "none"
  BY <1>8 DEF Knob, KnobOnly
<1> QED BY <1>4, <1>8, <1>9, <1>10 DEF r

LEMMA KnobTold ==
  ASSUME Core, world.knob # <<>>, NEW v, Knob(v), io_gpio_pins_changed
  PROVE  \E w : Knob(w)'
<1> DEFINE k == Len(reports)
           r == Head(reports)
           Report == [status : SUBSET world.contacts, level : Levels]
<1>0. /\ KnobA' = KnobA /\ KnobB' = KnobB /\ Lamp' = Lamp
      /\ world' = world /\ contacts' = contacts /\ pending' = pending /\ latch' = latch
      /\ left' = left /\ sequencer' = sequencer /\ posts' = posts /\ history' = history
      /\ reports # <<>> /\ reports' = Tail(reports)
  BY DEF io_gpio_pins_changed, KnobA, KnobB, Lamp
<1>1. machine' = PinsChanged(machine, Head(reports).status, Head(reports).level, NoPin)
  <2>1. world.alert = NoPin
    BY KnobIs, Zenon DEF KnobAlone
  <2> QED BY <2>1 DEF io_gpio_pins_changed
<1>2. /\ machine'.config = machine.config /\ machine'.data[Lamp].direction = "none"
      /\ [o |-> machine'.out[Lamp], a |-> machine'.data[KnobA].previous,
          b |-> machine'.data[KnobB].previous] = After(Present, r)
      /\ v[1] = After(Present, r)
  BY <1>0, <1>1, KnobHears
<1>3. Present' = v[1]
  BY <1>0, <1>2 DEF Present
<1>4. /\ k \in Nat /\ k > 0 /\ Len(reports') = k - 1
      /\ \A i \in 1 .. k - 1 : reports'[i] = reports[i + 1]
  <2>1. reports \in Seq(Report)
    BY DEF Core, Interrupts
  <2> HIDE DEF Report
  <2> QED BY <1>0, <2>1
<1>5. PICK w : w = [i \in 0 .. k - 1 |-> v[i + 1]]
  OBVIOUS
<1>6. KnobOnly'
  BY <1>0, <1>2 DEF Knob, KnobOnly
<1>7. Ahead(w, reports)'
  <2>1. /\ v \in [0 .. k -> Heeding]
        /\ \A i \in 1 .. k : v[i] = After(v[i - 1], reports[i])
    BY DEF Knob, Ahead
  <2> HIDE DEF k
  <2>2. w \in [0 .. k - 1 -> Heeding]
    <3>1. \A i \in 0 .. k - 1 : i + 1 \in 0 .. k
      BY <1>4
    <3> QED BY <1>5, <2>1, <3>1
  <2>3. w[0] = v[1]
    BY <1>5, <1>4
  <2>4. ASSUME NEW i \in 1 .. k - 1 PROVE w[i] = After(w[i - 1], reports'[i])
    <3>1. i + 1 \in 1 .. k /\ (i + 1) - 1 = i /\ i \in 0 .. k - 1 /\ i - 1 \in 0 .. k - 1
          /\ (i - 1) + 1 = i
      BY <1>4
    <3>2. w[i] = v[i + 1] /\ w[i - 1] = v[i]
      BY <1>5, <3>1
    <3>3. v[i + 1] = After(v[i], reports[i + 1])
      BY <2>1, <3>1
    <3> QED BY <1>4, <3>2, <3>3
  <2>5. \A s, x : After(s, x)' = After(s, x)
    BY <1>0 DEF After
  <2> QED BY <1>3, <1>4, <2>2, <2>3, <2>4, <2>5 DEF Ahead
<1>8. Reached(w, reports)'
  <2>1. ASSUME NEW i \in 0 .. k - 1
        PROVE  Near(w[i].o - world.centre, world.left.edges - left.edges - Ends(pending))
    <3>1. i + 1 \in 0 .. k /\ w[i] = v[i + 1]
      BY <1>5, <1>4
    <3> QED BY <3>1 DEF Knob, Reached
  <2>2. Ends(pending)' = Ends(pending)
    BY <1>0 DEF Ends
  <2> HIDE DEF k
  <2> QED BY <1>0, <1>4, <2>1, <2>2 DEF Reached
<1>9. Error(w[Len(reports)])'
  <2>1. w[k - 1] = v[k]
    <3>1. k - 1 \in 0 .. k - 1 /\ (k - 1) + 1 = k
      BY <1>4
    <3> QED BY <1>5, <3>1
  <2>2. w[Len(reports')] = v[k]
    BY <1>4, <2>1
  <2> QED BY <1>0, <2>2 DEF Error, Knob
<1> QED BY <1>6, <1>7, <1>8, <1>9 DEF Knob

\* What is there is of the kinds that the sums need.
LEMMA KnobKinds ==
  ASSUME Core, world.knob # <<>>, NEW v, Knob(v), NEW s, s = v[Len(reports)]
  PROVE  /\ s.o \in Int /\ s.a \in Bit /\ s.b \in Bit
         /\ contacts[KnobA] \in Bit /\ contacts[KnobB] \in Bit
         /\ latch # NoLatch => latch[KnobA] \in Bit /\ latch[KnobB] \in Bit
         /\ s.o - world.centre - history.turns \in Int
         /\ history.slips \in Nat /\ history.together \in Nat
         /\ Len(reports) \in Nat /\ world.centre \in Nat /\ world.left.edges \in Nat
         /\ pending \subseteq {KnobA, KnobB} /\ left.edges \in Nat
<1>1. /\ contacts \in [{KnobA, KnobB} -> {0, 1}] /\ pending \subseteq {KnobA, KnobB}
      /\ latch # NoLatch => latch \in Levels
      /\ KnobA \in Pins /\ KnobB \in Pins
  BY KnobIs DEF Core, Interrupts
<1>2. Len(reports) \in Nat /\ Len(reports) \in 0 .. Len(reports)
  BY DEF Core, Interrupts
<1>3. s \in Heeding
  BY <1>2 DEF Knob, Ahead
<1>4. world.centre \in Nat /\ world.left.edges \in Nat
  BY KnobIs, Zenon DEF KnobAlone
<1>5. /\ history.turns \in Int /\ history.slips \in Nat /\ history.together \in Nat
      /\ left.edges \in Nat
  BY DEF Knob, KnobOnly
<1>6. latch # NoLatch => latch[KnobA] \in Bit /\ latch[KnobB] \in Bit
  BY <1>1 DEF Levels, Bit
<1> QED BY <1>1, <1>2, <1>3, <1>4, <1>5, <1>6 DEF Heeding, Bit

LEMMA KnobRead ==
  ASSUME Core, world.knob # <<>>, NEW v, Knob(v), pc_int_read
  PROVE  Knob(v)'
<1> DEFINE s == v[Len(reports)]
<1>0. /\ KnobA' = KnobA /\ KnobB' = KnobB /\ Lamp' = Lamp
      /\ world' = world /\ contacts' = contacts /\ pending' = pending /\ reports' = reports
      /\ left' = left /\ sequencer' = sequencer /\ posts' = posts /\ history' = history
      /\ machine' = machine /\ latch = NoLatch /\ pending # {} /\ latch' = Level(contacts)
  BY DEF pc_int_read, KnobA, KnobB, Lamp
<1>1. KnobOnly' /\ Reached(v, reports)'
  BY <1>0 DEF Knob, KnobOnly, Reached, Ends
<1>2. Ahead(v, reports)'
  <2>1. Present' = Present
    BY <1>0 DEF Present
  <2>2. \A t, r : After(t, r)' = After(t, r)
    BY <1>0 DEF After
  <2> QED BY <1>0, <2>1, <2>2 DEF Knob, Ahead
<1>3. Error(s)'
  <2> DEFINE e == s.o - world.centre - history.turns
             n == history.slips + history.together
             x == contacts[KnobA]
             y == contacts[KnobB]
             i == In(KnobA, pending)
             j == In(KnobB, pending)
  <2>1. latch'[KnobA] = x /\ latch'[KnobB] = y /\ latch' # NoLatch
    <3>1. KnobA \in Pins /\ KnobB \in Pins /\ DOMAIN contacts = {KnobA, KnobB}
      BY KnobIs DEF Core, Interrupts
    <3>2. Level(contacts)[KnobA] = x /\ Level(contacts)[KnobB] = y
      BY <3>1 DEF Level
    <3>3. DOMAIN Level(contacts) # {}
      BY <3>1 DEF Level
    <3>4. DOMAIN NoLatch = {}
      BY DEF NoLatch
    <3> QED BY <1>0, <3>2, <3>3, <3>4
  <2>2. /\ s.a \in Bit /\ s.b \in Bit /\ x \in Bit /\ y \in Bit /\ e \in Int /\ n \in Nat
    <3>1. /\ s.a \in Bit /\ s.b \in Bit /\ x \in Bit /\ y \in Bit /\ e \in Int
          /\ history.slips \in Nat /\ history.together \in Nat
      BY KnobKinds
    <3> HIDE DEF s, e, x, y
    <3> QED BY <3>1
  <2>3. IF i = 1 /\ j = 1 THEN Open(e, s.a, s.b, x, y, n)
        ELSE Shut(e, s.a, s.b, x, y, i, j, x, y, n)
    BY <1>0 DEF Knob, Error, In
  <2> HIDE DEF s, e, n, x, y
  <2>4. Shut(e, s.a, s.b, x, y, i, j, x, y, n)
    <3>1. CASE i = 1 /\ j = 1
      <4>1. Shut(e, s.a, s.b, x, y, 1, 1, x, y, n)
        BY <2>2, <2>3, <3>1, Latches
      <4> HIDE DEF i, j
      <4> QED BY <3>1, <4>1
    <3>2. CASE ~(i = 1 /\ j = 1)
      BY <2>3, <3>2
    <3> QED BY <3>1, <3>2
  <2>5. Shut(e, s.a, s.b, x, y, i, j, latch'[KnobA], latch'[KnobB], n)
    BY <2>1, <2>4
  <2> QED BY <1>0, <2>1, <2>5 DEF Error, e, n, x, y, s
<1> QED BY <1>0, <1>1, <1>2, <1>3 DEF Knob

LEMMA EndsAre ==
  ASSUME Core, world.knob # <<>>, NEW S, S \subseteq {KnobA, KnobB}
  PROVE  Cardinality(S) = Ends(S) /\ (S # {} <=> KnobA \in S \/ KnobB \in S)
<1>0. KnobA # KnobB
  BY KnobIs
<1>1. CASE KnobA \in S /\ KnobB \in S
  <2>1. S = {KnobA} \cup {KnobB} /\ KnobB \notin {KnobA}
    BY <1>0, <1>1
  <2>2. Cardinality({KnobA}) = 1 /\ IsFiniteSet({KnobA})
    BY FS_Singleton
  <2>3. Cardinality({KnobA} \cup {KnobB}) = 2
    BY <2>1, <2>2, FS_AddElement
  <2> QED BY <1>1, <2>1, <2>3 DEF Ends, In
<1>2. CASE KnobA \in S /\ KnobB \notin S
  <2>1. S = {KnobA}
    BY <1>2
  <2>2. Cardinality({KnobA}) = 1
    BY FS_Singleton
  <2> QED BY <1>2, <2>1, <2>2 DEF Ends, In
<1>3. CASE KnobA \notin S /\ KnobB \in S
  <2>1. S = {KnobB}
    BY <1>3
  <2>2. Cardinality({KnobB}) = 1
    BY FS_Singleton
  <2> QED BY <1>3, <2>1, <2>2 DEF Ends, In
<1>4. CASE KnobA \notin S /\ KnobB \notin S
  <2>1. S = {}
    BY <1>4
  <2> QED BY <1>4, <2>1, FS_EmptySet DEF Ends, In
<1> QED BY <1>1, <1>2, <1>3, <1>4

\* A report that the queue has a place for, and one that it has not.
LEMMA KnobReport ==
  ASSUME Core, world.knob # <<>>, NEW v, Knob(v), pc_int_report
  PROVE  \E w : Knob(w)'
<1> DEFINE k == Len(reports)
           s == v[k]
           r == [status |-> pending, level |-> latch]
           room == Len(reports) < TaskQueueLength
           e == s.o - world.centre - history.turns
           n == history.slips + history.together
           x == contacts[KnobA]
           y == contacts[KnobB]
           i == In(KnobA, pending)
           j == In(KnobB, pending)
           l == latch[KnobA]
           g == latch[KnobB]
           ends == Ends(pending)
           both == IF ends > 1 THEN 1 ELSE 0
           p == IF i + j = 2 THEN 1 ELSE 0
           worth == Worth(s.a, s.b, l, g, i, j)
           u == IF i = 1 THEN l ELSE s.a
           f == IF j = 1 THEN g ELSE s.b
           t == After(s, r)
<1>0. /\ KnobA' = KnobA /\ KnobB' = KnobB /\ Lamp' = Lamp
      /\ world' = world /\ contacts' = contacts /\ left' = left
      /\ sequencer' = sequencer /\ posts' = posts /\ machine' = machine
      /\ latch # NoLatch /\ latch' = NoLatch /\ pending' = {}
      /\ reports' = IF room THEN Append(reports, r) ELSE reports
  BY DEF pc_int_report, KnobA, KnobB, Lamp
<1>1. /\ pending \subseteq {KnobA, KnobB} /\ Cardinality(pending) = ends
      /\ i \in Bit /\ j \in Bit /\ i + j > 0 /\ ends = i + j /\ k \in Nat /\ both = p
  <2>1. pending \subseteq {KnobA, KnobB} /\ k \in Nat
    BY KnobKinds
  <2>2. pending # {}
    BY <1>0 DEF Knob, KnobOnly
  <2>3. Cardinality(pending) = ends /\ (KnobA \in pending \/ KnobB \in pending)
    BY <2>1, <2>2, EndsAre
  <2>4. i \in Bit /\ j \in Bit /\ i + j > 0 /\ ends = i + j
    BY <2>3 DEF In, Bit, Ends
  <2> HIDE DEF k, i, j, ends
  <2>5. both = p
    BY <2>4 DEF Bit
  <2> QED BY <2>1, <2>3, <2>4, <2>5
<1>2. /\ history'.turns = history.turns
      /\ history'.slips = IF room THEN history.slips ELSE history.slips + ends
      /\ history'.together = history.together + both
  <2>1. history' = [history EXCEPT
          !.slips = IF room THEN @ ELSE @ + Cardinality(pending),
          !.together = IF Cardinality(pending) > 1 THEN @ + 1 ELSE @]
    BY DEF pc_int_report
  <2>2. /\ {"turns", "slips", "together"} \subseteq DOMAIN history
        /\ history.slips \in Nat /\ history.together \in Nat
    BY DEF Core, SequencerInv, Records, Knob, KnobOnly
  <2> HIDE DEF room, ends
  <2> QED BY <1>1, <2>1, <2>2
<1>3. /\ s.o \in Int /\ s.a \in Bit /\ s.b \in Bit /\ x \in Bit /\ y \in Bit
      /\ l \in Bit /\ g \in Bit /\ e \in Int /\ n \in Nat
      /\ history.slips \in Nat /\ history.together \in Nat
  <2>1. /\ s.o \in Int /\ s.a \in Bit /\ s.b \in Bit /\ x \in Bit /\ y \in Bit
        /\ l \in Bit /\ g \in Bit /\ e \in Int
        /\ history.slips \in Nat /\ history.together \in Nat
    BY <1>0, KnobKinds
  <2> HIDE DEF s, e, x, y, l, g
  <2> QED BY <2>1
<1>4. Shut(e, s.a, s.b, x, y, i, j, l, g, n)
  BY <1>0 DEF Knob, Error
<1>5. /\ Shut(e + worth, u, f, x, y, 0, 0, x, y, n + p)
      /\ Shut(e, s.a, s.b, x, y, 0, 0, x, y, n + (i + j) + p)
  <2> HIDE DEF s, e, n, x, y, l, g, i, j
  <2>1. Ready(e, s.a, s.b, x, y, i, j, l, g, n)
    BY <1>1, <1>3, <1>4 DEF Ready
  <2> QED BY <2>1, Queued
<1>6. t = [o |-> s.o + worth, a |-> u, b |-> f]
  BY DEF After, In
<1>7. worth \in -ends .. ends /\ u \in Bit /\ f \in Bit
  <2>1. \A c, d \in Bit : Way(c, d, l, g) \in -1 .. 1
    BY <1>3, TurnIs
  <2>2. u \in Bit /\ f \in Bit
    BY <1>3
  <2> DEFINE c == Way(s.a, s.b, l, g)
             d == Way(u, s.b, l, g)
  <2>3. c \in -1 .. 1 /\ d \in -1 .. 1
    BY <1>3, <2>1, <2>2
  <2>4. worth = (IF i = 1 THEN c ELSE 0) + (IF j = 1 THEN d ELSE 0)
    BY DEF Worth
  <2> HIDE DEF worth, ends, c, d, i, j
  <2>5. worth \in -ends .. ends
    BY <1>1, <2>3, <2>4 DEF Bit
  <2> QED BY <2>2, <2>5
<1>8. KnobOnly'
  <2>1. history'.slips \in Nat /\ history'.together \in Nat
    <3> HIDE DEF room, ends, p, both, i, j
    <3>1. ends \in Nat /\ both \in Nat
      BY <1>1 DEF Bit, p
    <3>2. history'.together \in Nat
      BY <1>2, <1>3, <3>1
    <3>3. history'.slips = history.slips \/ history'.slips = history.slips + ends
      BY <1>2
    <3>4. history'.slips \in Nat
      BY <1>3, <3>1, <3>3
    <3> QED BY <3>2, <3>4
  <2>2. history'.turns = history.turns
    BY <1>2
  <2> QED BY <1>0, <2>1, <2>2 DEF Knob, KnobOnly
<1>9. Ends(pending)' = 0
  BY <1>0 DEF Ends, In
<1>10. Present' = Present /\ \A c, d : After(c, d)' = After(c, d)
  BY <1>0 DEF Present, After
<1>11. CASE room
  <2> DEFINE Report == [status : SUBSET world.contacts, level : Levels]
  <2>0. /\ Len(reports') = k + 1 /\ reports'[k + 1] = r
        /\ \A c \in 1 .. k : reports'[c] = reports[c]
    <3>1. reports \in Seq(Report) /\ reports' = Append(reports, r)
      BY <1>0, <1>11 DEF Core, Interrupts
    <3> HIDE DEF Report, r
    <3> QED BY <3>1
  <2> HIDE DEF k
  <2>1. PICK w : w = [c \in 0 .. k + 1 |-> IF c <= k THEN v[c] ELSE t]
    OBVIOUS
  <2>2. w[k + 1] = t /\ \A c \in 0 .. k : w[c] = v[c]
    <3>1. ~(k + 1 <= k) /\ k + 1 \in 0 .. k + 1
          /\ \A c \in 0 .. k : c <= k /\ c \in 0 .. k + 1
      BY <1>1
    <3> HIDE DEF t
    <3> QED BY <2>1, <3>1
  <2>3. v \in [0 .. k -> Heeding] /\ v[0] = Present
        /\ \A c \in 1 .. k : v[c] = After(v[c - 1], reports[c])
    BY DEF Knob, Ahead, k
  <2>4. t \in Heeding
    <3>1. s.o + worth \in Int
      <4> HIDE DEF s, worth, ends
      <4> QED BY <1>1, <1>3, <1>7 DEF Bit
    <3> HIDE DEF worth, u, f, s, t
    <3> QED BY <1>6, <1>7, <3>1 DEF Heeding
  <2>5. Ahead(w, reports)'
    <3> HIDE DEF t, r
    <3>1. w \in [0 .. k + 1 -> Heeding]
      <4>1. \A c \in 0 .. k + 1 : c <= k => c \in 0 .. k
        BY <1>1
      <4> QED BY <2>1, <2>3, <2>4, <4>1
    <3>2. ASSUME NEW c \in 1 .. k + 1 PROVE w[c] = After(w[c - 1], reports'[c])
      <4>1. CASE c \in 1 .. k
        <5>1. c \in 0 .. k /\ c - 1 \in 0 .. k
          BY <1>1, <4>1
        <5> QED BY <2>0, <2>2, <2>3, <4>1, <5>1
      <4>2. CASE c = k + 1
        <5>1. c - 1 = k /\ k \in 0 .. k
          BY <1>1, <4>2
        <5>2. w[c - 1] = v[k]
          BY <2>2, <5>1
        <5> QED BY <2>0, <2>2, <4>2, <5>2 DEF t
      <4>3. c \in 1 .. k \/ c = k + 1
        BY <1>1
      <4> QED BY <4>1, <4>2, <4>3
    <3>3. w[0] = Present
      BY <1>1, <2>2, <2>3
    <3> QED BY <1>10, <2>0, <3>1, <3>2, <3>3 DEF Ahead
  <2>6. Reached(w, reports)'
    <3> DEFINE there == world.left.edges - left.edges
    <3>1. ASSUME NEW c \in 0 .. k PROVE Near(w[c].o - world.centre, there)
      <4>1. Near(v[c].o - world.centre, there - ends)
        BY DEF Knob, Reached, k
      <4>2. /\ v[c].o - world.centre \in Int /\ there \in Int /\ ends \in Nat
        <5>1. v[c] \in Heeding /\ v[c].o \in Int
          BY <2>3 DEF Heeding
        <5>2. world.centre \in Nat /\ world.left.edges \in Nat /\ left.edges \in Nat
          BY KnobKinds
        <5>3. ends \in Nat
          <6> HIDE DEF ends, i, j
          <6> QED BY <1>1 DEF Bit
        <5> HIDE DEF ends
        <5> QED BY <5>1, <5>2, <5>3
      <4>3. w[c].o = v[c].o
        BY <2>2
      <4> HIDE DEF there, ends
      <4> QED BY <4>1, <4>2, <4>3 DEF Near
    <3>2. Near(w[k + 1].o - world.centre, there)
      <4>1. Near(s.o - world.centre, there - ends)
        <5>1. k \in 0 .. k
          BY <1>1
        <5> QED BY <5>1 DEF Knob, Reached, k
      <4>2. w[k + 1].o = s.o + worth
        <5> HIDE DEF worth, t, s, u, f
        <5> QED BY <1>6, <2>2
      <4>3. world.centre \in Nat /\ world.left.edges \in Nat /\ left.edges \in Nat
        BY KnobKinds
      <4>4. s.o \in Int /\ ends \in Nat /\ worth \in -ends .. ends
        <5> HIDE DEF ends, i, j, s, worth
        <5> QED BY <1>1, <1>3, <1>7 DEF Bit
      <4> HIDE DEF s, ends, worth
      <4>5. /\ there \in Int /\ s.o - world.centre \in Int
            /\ (s.o + worth) - world.centre = (s.o - world.centre) + worth
        BY <4>3, <4>4
      <4> HIDE DEF there
      <4>6. Near((s.o - world.centre) + worth, there)
        BY <4>1, <4>4, <4>5, NearFurther
      <4> QED BY <4>2, <4>5, <4>6
    <3>3. \A c \in 0 .. k + 1 : c \in 0 .. k \/ c = k + 1
      BY <1>1
    <3>4. \A c \in 0 .. k + 1 : Near(w[c].o - world.centre, there)
      <4> HIDE DEF there
      <4> QED BY <3>1, <3>2, <3>3
    <3>5. there - 0 = there
      <4>1. world.left.edges \in Nat /\ left.edges \in Nat
        BY KnobKinds
      <4> QED BY <4>1
    <3>6. world.left.edges - left.edges - Ends(pending)' = there
      <4> HIDE DEF there
      <4> QED BY <1>9, <3>5 DEF there
    <3> HIDE DEF there
    <3> QED BY <1>0, <2>0, <3>4, <3>6 DEF Reached
  <2>7. Error(w[Len(reports)])'
    <3>1. w[Len(reports')] = [o |-> s.o + worth, a |-> u, b |-> f]
      <4> HIDE DEF t, worth, u, f, s
      <4> QED BY <1>6, <2>0, <2>2
    <3>2. /\ history'.slips + history'.together = n + p
          /\ (s.o + worth) - world.centre - history.turns = e + worth
      <4>1. history'.slips = history.slips /\ history'.together = history.together + p
        <5> HIDE DEF room, p, both, ends
        <5> QED BY <1>1, <1>2, <1>11
      <4>2. p \in Nat
        OBVIOUS
      <4>3. world.centre \in Nat /\ history.turns \in Int
        BY KnobKinds DEF Knob, KnobOnly
      <4>4. s.o \in Int /\ worth \in Int
        <5> HIDE DEF s, worth, ends
        <5> QED BY <1>1, <1>3, <1>7 DEF Bit
      <4> HIDE DEF p, s, worth
      <4>5. (s.o + worth) - world.centre - history.turns = e + worth
        BY <4>3, <4>4
      <4>6. history'.slips + history'.together = n + p
        BY <1>3, <4>1, <4>2
      <4> QED BY <4>5, <4>6
    <3>3. Shut(e + worth, u, f, x, y, 0, 0, x, y, n + p)
      BY <1>5
    <3>4. In(KnobA, pending)' = 0 /\ In(KnobB, pending)' = 0 /\ KnobA' \notin pending'
      BY <1>0 DEF In
    <3>5. PICK q : q = w[Len(reports')]
      OBVIOUS
    <3>6. q.o = s.o + worth /\ q.a = u /\ q.b = f
      <4> HIDE DEF s, worth, u, f
      <4> QED BY <3>1, <3>5
    <3> HIDE DEF s, worth, u, f, e, n, p
    <3> QED BY <1>0, <1>2, <3>2, <3>3, <3>4, <3>5, <3>6 DEF Error, x, y
  <2> QED BY <1>8, <2>5, <2>6, <2>7 DEF Knob
<1>12. CASE ~room
  <2>1. reports' = reports
    BY <1>0, <1>12
  <2>2. Ahead(v, reports)'
    BY <1>10, <2>1 DEF Knob, Ahead
  <2>3. Reached(v, reports)'
    <3> DEFINE there == world.left.edges - left.edges
    <3>1. ASSUME NEW c \in 0 .. k PROVE Near(v[c].o - world.centre, there - 0)
      <4>1. Near(v[c].o - world.centre, there - ends)
        BY DEF Knob, Reached
      <4>2. v[c].o \in Int
        BY DEF Knob, Ahead, Heeding
      <4>3. world.centre \in Nat /\ world.left.edges \in Nat /\ left.edges \in Nat
        BY KnobKinds
      <4>4. ends \in Nat
        <5> HIDE DEF ends, i, j
        <5> QED BY <1>1 DEF Bit
      <4>5. v[c].o - world.centre \in Int /\ there \in Int /\ there - 0 = there
        BY <4>2, <4>3
      <4> HIDE DEF ends, there
      <4>6. Near(v[c].o - world.centre, there)
        BY <4>1, <4>4, <4>5 DEF Near
      <4> QED BY <4>5, <4>6
    <3> QED BY <1>0, <1>9, <2>1, <3>1 DEF Reached
  <2>4. Error(v[Len(reports)])'
    <3>1. In(KnobA, pending)' = 0 /\ In(KnobB, pending)' = 0 /\ KnobA' \notin pending'
      BY <1>0 DEF In
    <3>2. Shut(e, s.a, s.b, x, y, 0, 0, x, y, n + (i + j) + p)
      BY <1>5
    <3>3. history'.slips + history'.together = n + (i + j) + p
      <4>1. /\ history'.slips = history.slips + (i + j)
            /\ history'.together = history.together + p
        <5> HIDE DEF room, p, both, ends, i, j
        <5> QED BY <1>1, <1>2, <1>12
      <4>2. p \in Nat
        OBVIOUS
      <4> HIDE DEF p, i, j
      <4> QED BY <1>1, <1>3, <4>1, <4>2 DEF Bit
    <3>4. Shut(e, s.a, s.b, x, y, 0, 0, x, y, history'.slips + history'.together)
      <4> HIDE DEF s, e, x, y, n, p, i, j
      <4> QED BY <3>2, <3>3
    <3> QED BY <1>0, <1>2, <2>1, <3>1, <3>4 DEF Error
  <2> QED BY <1>8, <2>2, <2>3, <2>4 DEF Knob
<1> QED BY <1>11, <1>12

\* An edge: the knob has turned, or has been told of wrongly.
LEMMA TurnedIs ==
  ASSUME Core, world.knob # <<>>, NEW levels, levels[KnobA] \in Bit, levels[KnobB] \in Bit
  PROVE  Turned(levels) = Way(contacts[KnobA], contacts[KnobB], levels[KnobA], levels[KnobB])
<1> DEFINE x == contacts[KnobA]
           y == contacts[KnobB]
           way == Way(x, y, levels[KnobA], levels[KnobB])
           turn == Turn([n \in 1 .. 2 |-> contacts[world.knob[n]]],
                        [n \in 1 .. 2 |-> levels[world.knob[n]]])
<1>1. x \in Bit /\ y \in Bit
  BY KnobIs DEF Core, Interrupts, Bit
<1>2. turn = Turn(<<x, y>>, <<levels[KnobA], levels[KnobB]>>)
  <2>1. /\ [n \in 1 .. 2 |-> contacts[world.knob[n]]] = <<x, y>>
        /\ [n \in 1 .. 2 |-> levels[world.knob[n]]] = <<levels[KnobA], levels[KnobB]>>
    BY PairIs DEF KnobA, KnobB
  <2> QED BY <2>1, Zenon
<1>3. turn = TurnNamed(way) /\ way \in -1 .. 1
  BY <1>1, <1>2, TurnIs
<1>4. Turned(levels) = CASE turn = "up" -> 1 [] turn = "down" -> -1 [] OTHER -> 0
  BY Zenon DEF Turned
<1> HIDE DEF turn, way
<1>5. way \in {-1, 0, 1}
  BY <1>3
<1>6. Turned(levels) = way
  BY <1>3, <1>4, <1>5 DEF TurnNamed
<1> QED BY <1>6 DEF way

\* k is 1 when the levels have been read.
Wrong(e, u, v, x, y, i, j, k, l, m, n) ==
  IF k = 0 /\ i = 1 /\ j = 1 THEN Open(e, u, v, x, y, n)
  ELSE Shut(e, u, v, x, y, i, j, IF k = 0 THEN x ELSE l, IF k = 0 THEN y ELSE m, n)
Moving(e, u, v, x, y, i, j, k, l, m, n) ==
  /\ u \in Bit /\ v \in Bit /\ x \in Bit /\ y \in Bit /\ e \in Int /\ n \in Nat
  /\ i \in Bit /\ j \in Bit /\ k \in Bit
  /\ k = 1 => l \in Bit /\ m \in Bit /\ i + j > 0
  /\ Wrong(e, u, v, x, y, i, j, k, l, m, n)

LEMMA Moved ==
  ASSUME NEW e, NEW u, NEW v, NEW x, NEW y, NEW i, NEW j, NEW k, NEW l, NEW m, NEW n,
         Moving(e, u, v, x, y, i, j, k, l, m, n)
  PROVE  /\ Wrong(e - Way(x, y, 1 - x, y), u, v, 1 - x, y, 1, j, k, l, m,
                  IF i = 1 \/ k = 1 THEN n + 1 ELSE n)
         /\ Wrong(e - Way(x, y, x, 1 - y), u, v, x, 1 - y, i, 1, k, l, m,
                  IF j = 1 \/ k = 1 THEN n + 1 ELSE n)
<1> USE DEF Moving
<1>1. CASE k = 1
  <2>1. Shut(e, u, v, x, y, i, j, l, m, n)
    BY <1>1 DEF Wrong
  <2>2. /\ Shut(e - Way(x, y, 1 - x, y), u, v, 1 - x, y, 1, j, l, m, n + 1)
        /\ Shut(e - Way(x, y, x, 1 - y), u, v, x, 1 - y, i, 1, l, m, n + 1)
    BY <1>1, <2>1, EdgeLatched
  <2> QED BY <1>1, <2>2 DEF Wrong
<1>2. CASE k = 0
  <2>1. IF i = 1 /\ j = 1 THEN Open(e, u, v, x, y, n) ELSE Shut(e, u, v, x, y, i, j, x, y, n)
    BY <1>2 DEF Wrong
  <2>2. IF j = 1
        THEN Open(e - Way(x, y, 1 - x, y), u, v, 1 - x, y, IF i = 1 THEN n + 1 ELSE n)
        ELSE Shut(e - Way(x, y, 1 - x, y), u, v, 1 - x, y, 1, j, 1 - x, y,
                  IF i = 1 THEN n + 1 ELSE n)
    BY <2>1, EdgeA DEF Bit
  <2>3. IF i = 1
        THEN Open(e - Way(x, y, x, 1 - y), u, v, x, 1 - y, IF j = 1 THEN n + 1 ELSE n)
        ELSE Shut(e - Way(x, y, x, 1 - y), u, v, x, 1 - y, i, 1, x, 1 - y,
                  IF j = 1 THEN n + 1 ELSE n)
    BY <2>1, EdgeB DEF Bit
  <2> QED BY <1>2, <2>2, <2>3 DEF Wrong
<1> QED BY <1>1, <1>2 DEF Bit

LEMMA KnobEdge ==
  ASSUME Core, world.knob # <<>>, NEW v, Knob(v), Edge
  PROVE  Knob(v)'
<1> DEFINE s == v[Len(reports)]
           e == s.o - world.centre - history.turns
           n == history.slips + history.together
           x == contacts[KnobA]
           y == contacts[KnobB]
           i == In(KnobA, pending)
           j == In(KnobB, pending)
           l == latch[KnobA]
           g == latch[KnobB]
<1>0. /\ KnobA' = KnobA /\ KnobB' = KnobB /\ Lamp' = Lamp
      /\ world' = world /\ latch' = latch /\ reports' = reports /\ machine' = machine
      /\ sequencer' = sequencer /\ posts' = posts
      /\ left' = [left EXCEPT !.edges = @ - 1] /\ left.edges > 0
  BY DEF Edge, Spent, KnobA, KnobB, Lamp
<1>1. PICK p \in world.contacts :
        /\ contacts' = [contacts EXCEPT ![p] = 1 - @] /\ pending' = pending \cup {p}
        /\ history' = [history EXCEPT
             !.falls[p] = @ + contacts[p],
             !.turns = @ + Turned(contacts'),
             !.slips = IF p \in pending \/ latch # NoLatch THEN @ + 1 ELSE @]
  BY DEF Edge
<1>2. /\ p \in {KnobA, KnobB}
      /\ contacts' = [contacts EXCEPT ![p] = 1 - @] /\ pending' = pending \cup {p}
      /\ history' = [history EXCEPT
           !.falls[p] = @ + contacts[p],
           !.turns = @ + Turned(contacts'),
           !.slips = IF p \in pending \/ latch # NoLatch THEN @ + 1 ELSE @]
  <2>1. p \in {KnobA, KnobB}
    BY KnobIs
  <2> QED BY <1>1, <2>1
<1>3. /\ history'.turns = history.turns + Turned(contacts')
      /\ history'.together = history.together
      /\ history'.slips = IF p \in pending \/ latch # NoLatch THEN history.slips + 1
                          ELSE history.slips
  BY <1>2 DEF Core, SequencerInv, Records
<1>4. /\ left'.edges = left.edges - 1 /\ left'.commands = left.commands
      /\ left'.restarts = left.restarts /\ DOMAIN left' = DOMAIN left
      /\ left.edges \in Nat /\ left'.edges \in Nat
  BY <1>0 DEF Knob, KnobOnly
<1>5. /\ s.o \in Int /\ s.a \in Bit /\ s.b \in Bit /\ x \in Bit /\ y \in Bit
      /\ latch # NoLatch => l \in Bit /\ g \in Bit
      /\ e \in Int /\ n \in Nat /\ history.slips \in Nat /\ history.together \in Nat
      /\ i \in Bit /\ j \in Bit
  <2>1. /\ s.o \in Int /\ s.a \in Bit /\ s.b \in Bit /\ x \in Bit /\ y \in Bit
        /\ latch # NoLatch => l \in Bit /\ g \in Bit
        /\ e \in Int /\ history.slips \in Nat /\ history.together \in Nat
    BY KnobKinds
  <2>2. i \in Bit /\ j \in Bit
    BY DEF In, Bit
  <2> HIDE DEF s, e, x, y, l, g, i, j
  <2> QED BY <2>1, <2>2
<1>6. /\ contacts'[KnobA] = IF p = KnobA THEN 1 - x ELSE x
      /\ contacts'[KnobB] = IF p = KnobB THEN 1 - y ELSE y
      /\ KnobA # KnobB
  <2>1. DOMAIN contacts = {KnobA, KnobB} /\ KnobA # KnobB
    BY KnobIs DEF Core, Interrupts
  <2> QED BY <1>2, <2>1
<1> DEFINE way == Way(x, y, contacts'[KnobA], contacts'[KnobB])
<1>7. Turned(contacts') = way /\ way \in -1 .. 1
  <2>1. contacts'[KnobA] \in Bit /\ contacts'[KnobB] \in Bit
    <3> HIDE DEF x, y
    <3> QED BY <1>5, <1>6 DEF Bit
  <2>2. PICK levels : levels = contacts'
    OBVIOUS
  <2>3. Turned(levels) = Way(x, y, levels[KnobA], levels[KnobB])
    BY <2>1, <2>2, TurnedIs
  <2> HIDE DEF x, y
  <2>4. way \in -1 .. 1
    BY <1>5, <2>1, TurnIs
  <2> QED BY <2>2, <2>3, <2>4
<1>8. /\ In(KnobA, pending)' = IF p = KnobA THEN 1 ELSE i
      /\ In(KnobB, pending)' = IF p = KnobB THEN 1 ELSE j
  BY <1>0, <1>2, <1>6 DEF In
<1>9. KnobOnly'
  <2>1. history'.turns \in Int /\ history'.slips \in Nat
    <3>1. history.turns \in Int
      BY DEF Knob, KnobOnly
    <3> HIDE DEF way
    <3> QED BY <1>3, <1>5, <1>7, <3>1
  <2> QED BY <1>0, <1>2, <1>3, <1>4, <2>1 DEF Knob, KnobOnly
<1>10. Ahead(v, reports)'
  <2>1. Present' = Present /\ \A c, d : After(c, d)' = After(c, d)
    BY <1>0 DEF Present, After
  <2> QED BY <1>0, <2>1 DEF Knob, Ahead
<1>11. Reached(v, reports)'
  <2> DEFINE there == world.left.edges - left.edges - Ends(pending)
             after == world.left.edges - left'.edges - Ends(pending)'
  <2>1. there \in Int /\ after \in {there, there + 1}
    <3>1. Ends(pending)' \in {Ends(pending), Ends(pending) + 1} /\ Ends(pending) \in Int
      <4> HIDE DEF i, j
      <4>1. Ends(pending) = i + j /\ Ends(pending)' = In(KnobA, pending)' + In(KnobB, pending)'
        BY <1>0 DEF Ends, i, j
      <4> QED BY <1>5, <1>6, <1>8, <4>1 DEF Bit
    <3>2. world.left.edges \in Int
      BY KnobKinds
    <3>3. PICK f, h : f = Ends(pending) /\ h = Ends(pending)'
      OBVIOUS
    <3>4. f \in Int /\ h \in {f, f + 1}
      BY <3>1, <3>3
    <3>5. there = world.left.edges - left.edges - f
          /\ after = world.left.edges - (left.edges - 1) - h
      BY <1>4, <3>3
    <3> HIDE DEF there, after
    <3>6. left.edges \in Int
      BY <1>4
    <3>7. PICK a, b : a = world.left.edges /\ b = left.edges
      OBVIOUS
    <3>8. a \in Int /\ b \in Int /\ there = a - b - f /\ after = a - (b - 1) - h
      BY <3>2, <3>5, <3>6, <3>7
    <3> QED BY <3>4, <3>8
  <2>2. ASSUME NEW c \in 0 .. Len(reports) PROVE Near(v[c].o - world.centre, after)
    <3>1. Near(v[c].o - world.centre, there)
      BY DEF Knob, Reached
    <3>2. v[c].o - world.centre \in Int
      <4>1. v[c].o \in Int
        BY DEF Knob, Ahead, Heeding
      <4> QED BY <4>1, KnobKinds
    <3> HIDE DEF there, after
    <3> QED BY <2>1, <3>1, <3>2, NearNext
  <2> HIDE DEF after
  <2> QED BY <1>0, <2>2 DEF Reached, after
<1>12. Error(v[Len(reports)])'
  <2> DEFINE z == e - way
             m == history'.slips + history'.together
  <2>1. s.o - world.centre - history'.turns = z
    <3>1. history'.turns = history.turns + way
      BY <1>3, <1>7
    <3>2. world.centre \in Nat /\ history.turns \in Int
      BY KnobKinds DEF Knob, KnobOnly
    <3> HIDE DEF s, way
    <3>3. PICK d, f, t : d = s.o - world.centre /\ f = way /\ t = history.turns
      OBVIOUS
    <3>4. d \in Int /\ f \in Int /\ t \in Int
      BY <1>5, <1>7, <3>2, <3>3
    <3>5. d - (t + f) = d - t - f
      BY <3>4
    <3> QED BY <3>1, <3>3, <3>5
  <2>2. m = IF p \in pending \/ latch # NoLatch THEN n + 1 ELSE n
    <3>1. CASE p \in pending \/ latch # NoLatch
      BY <1>3, <1>5, <3>1
    <3>2. CASE ~(p \in pending \/ latch # NoLatch)
      BY <1>3, <1>5, <3>2
    <3> QED BY <3>1, <3>2
  <2> DEFINE k == IF latch = NoLatch THEN 0 ELSE 1
  <2>3. Moving(e, s.a, s.b, x, y, i, j, k, l, g, n)
    <3>1. Wrong(e, s.a, s.b, x, y, i, j, k, l, g, n)
      BY DEF Knob, Error, Wrong, In
    <3>2. k \in Bit /\ (k = 1 => l \in Bit /\ g \in Bit /\ i + j > 0)
      <4>1. latch # NoLatch => KnobA \in pending \/ KnobB \in pending
        <5>1. latch # NoLatch => pending # {}
          BY DEF Knob, KnobOnly
        <5> QED BY <5>1, KnobKinds
      <4> QED BY <1>5, <4>1 DEF Bit, In
    <3> HIDE DEF e, s, x, y, i, j, k, l, g, n
    <3> QED BY <1>5, <3>1, <3>2 DEF Moving
  <2>4. /\ Wrong(e - Way(x, y, 1 - x, y), s.a, s.b, 1 - x, y, 1, j, k, l, g,
                 IF i = 1 \/ k = 1 THEN n + 1 ELSE n)
        /\ Wrong(e - Way(x, y, x, 1 - y), s.a, s.b, x, 1 - y, i, 1, k, l, g,
                 IF j = 1 \/ k = 1 THEN n + 1 ELSE n)
    <3> HIDE DEF e, s, x, y, i, j, k, l, g, n
    <3> QED BY <2>3, Moved
  <2>5. Wrong(z, s.a, s.b, contacts'[KnobA], contacts'[KnobB],
              In(KnobA, pending)', In(KnobB, pending)', k, l, g, m)
    <3>1. CASE p = KnobA
      <4>1. m = IF i = 1 \/ k = 1 THEN n + 1 ELSE n
        BY <2>2, <3>1 DEF In
      <4>2. /\ contacts'[KnobA] = 1 - x /\ contacts'[KnobB] = y
            /\ In(KnobA, pending)' = 1 /\ In(KnobB, pending)' = j
        BY <1>6, <1>8, <3>1
      <4> HIDE DEF e, s, x, y, i, j, k, l, g, n, m
      <4> QED BY <2>4, <4>1, <4>2
    <3>2. CASE p = KnobB
      <4>1. m = IF j = 1 \/ k = 1 THEN n + 1 ELSE n
        BY <2>2, <3>2 DEF In
      <4>2. /\ contacts'[KnobA] = x /\ contacts'[KnobB] = 1 - y
            /\ In(KnobA, pending)' = i /\ In(KnobB, pending)' = 1
        BY <1>6, <1>8, <3>2
      <4> HIDE DEF e, s, x, y, i, j, k, l, g, n, m
      <4> QED BY <2>4, <4>1, <4>2
    <3> QED BY <1>2, <3>1, <3>2
  <2>6. /\ (KnobA \in pending)' <=> In(KnobA, pending)' = 1
        /\ (KnobB \in pending)' <=> In(KnobB, pending)' = 1
    BY DEF In
  <2>7. PICK q : q = s
    OBVIOUS
  <2>8. Wrong(q.o - world.centre - history'.turns, q.a, q.b, contacts'[KnobA], contacts'[KnobB],
              In(KnobA, pending)', In(KnobB, pending)', k, l, g, history'.slips + history'.together)
    <3> HIDE DEF s, z, k, l, g
    <3> QED BY <2>1, <2>5, <2>7
  <2>9. Error(q)'
    <3>1. CASE latch = NoLatch
      BY <1>0, <2>6, <2>8, <3>1 DEF Error, Wrong
    <3>2. CASE latch # NoLatch
      BY <1>0, <2>6, <2>8, <3>2 DEF Error, Wrong
    <3> QED BY <3>1, <3>2
  <2> QED BY <1>0, <2>7, <2>9
<1> QED BY <1>9, <1>10, <1>11, <1>12 DEF Knob

\* The start: the lamp is written, the encoder is told nothing.
Writable(c) == ~c.suspended /\ c.mode \notin CountedModes /\ c.llmode \in Outputs

LEMMA WrittenIs ==
  ASSUME NEW m, NEW values, Shape(m, Pins), NEW p \in Pins, NEW w, w = Written(m, values)
  PROVE  /\ w.data[p].previous = m.data[p].previous
         /\ w.data[p].direction = m.data[p].direction
         /\ p \in DOMAIN values /\ Writable(m.config[p])
              => w.out[p] = Clipped(m.config[p].llmode, values[p])
<1> DEFINE x == WritePin(m, p, values[p]).machine
           after == [q \in Pins |-> IF q \in DOMAIN values
                                    THEN WritePin(m, q, values[q]).machine ELSE m]
<1>1. /\ w.data = [q \in Pins |-> after[q].data[q]]
      /\ w.out = [q \in Pins |-> after[q].out[q]]
  BY DEF Written, Shape
<1>2. after[p] = IF p \in DOMAIN values THEN x ELSE m
  OBVIOUS
<1> HIDE DEF after
<1>3. w.data[p] = after[p].data[p] /\ w.out[p] = after[p].out[p]
  BY <1>1
<1>4. /\ x.data[p].previous = m.data[p].previous /\ x.data[p].direction = m.data[p].direction
      /\ Writable(m.config[p]) => x.out[p] = Clipped(m.config[p].llmode, values[p])
  <2>1. CASE m.config[p].suspended
    BY <2>1 DEF WritePin, Bad, Writable
  <2>2. CASE ~m.config[p].suspended /\ m.config[p].mode \in CountedModes
    <3>1. x = [m EXCEPT !.data[p].value = values[p]]
      BY <2>2 DEF WritePin, Good
    <3>2. x.data[p] = [m.data[p] EXCEPT !.value = values[p]]
      BY <3>1 DEF Shape
    <3> HIDE DEF x
    <3> QED BY <2>2, <3>2 DEF Shape, IsData, Writable
  <2>3. CASE ~m.config[p].suspended /\ m.config[p].mode \notin CountedModes
    <3>1. x = DeviceWrite(m, p, values[p]).machine
      BY <2>3 DEF WritePin
    <3> HIDE DEF x
    <3> QED BY <2>3, <3>1, DeviceKeeps DEF Writable
  <2> QED BY <2>1, <2>2, <2>3
<1> HIDE DEF x
<1> QED BY <1>2, <1>3, <1>4

LEMMA BootedAtRest ==
  ASSUME NEW S, NEW p \in DOMAIN S, p = <<p[1], p[2]>>
  PROVE  /\ Restored(S)[p].mode = "rotary_encoder" => Booted(S).data[p].previous = 0
         /\ (Restored(S)[p].mode \in PwmModes /\ ~Restored(S)[p].suspended
             /\ "autostart" \notin Restored(S)[p].flags)
              => Booted(S).data[p].direction = "none"
<1> DEFINE P == DOMAIN S
           m == [config |-> Restored(S), data |-> [q \in P |-> Idle], out |-> [q \in P |-> 0]]
           w == Started(m, p)
<1>1. Shape(m, P)
  <2>1. IsData(Idle)
    BY DEF IsData, Idle
  <2> QED BY <2>1, RestoredIs DEF Shape
<1>2. Booted(S).data[p] = w.data[p]
  BY Zenon DEF Booted
<1>3. /\ m.config = Restored(S) /\ m.data[p].previous = 0 /\ m.data[p].direction = "none"
  BY DEF Idle
<1> HIDE DEF m
<1>4. ASSUME m.config[p].mode = "rotary_encoder" PROVE w = m
  BY <1>4 DEF Started, PwmModes
<1>5. ASSUME m.config[p].mode \in PwmModes, ~m.config[p].suspended,
             "autostart" \notin m.config[p].flags
      PROVE  w.data[p].direction = "none"
  <2> DEFINE x == io_trigger_pin(m, p, "stop")
             z == io_trigger_pin(x, p, "off")
  <2>1. w = m \/ w = z
    BY <1>5 DEF Started, PwmModes, Flagged
  <2>2. Shape(x, P) /\ x.config = m.config
    BY <1>1, TriggerKeeps DEF Kept
  <2> HIDE DEF x
  <2>3. x.config[p].mode # "trigger" /\ TriggerMode(x, p, "off") = TriggerPwm(x, p, "off")
    BY <1>5, <2>2 DEF TriggerMode, PwmModes
  <2>4. z = TriggerPwm(x, p, "off").machine
    BY <1>5, <2>2, <2>3, TriggerSingle
  <2>5. z.data[p].direction = "none"
    BY <1>5, <2>2, <2>4, PwmKeeps
  <2> HIDE DEF z, w
  <2> QED BY <1>3, <2>1, <2>5
<1> HIDE DEF w
<1> QED BY <1>2, <1>3, <1>4, <1>5

LEMMA KnobStarts ==
  ASSUME Init, Core, world.knob # <<>>
  PROVE  \E v : Knob(v)
<1> DEFINE b == Booted(store)
           c == Restored(store)
<1>0. /\ store = world.store /\ machine = Written(b, world.written)
      /\ contacts = [p \in world.contacts |-> 1]
      /\ pending = {} /\ latch = NoLatch /\ reports = <<>>
      /\ sequencer = Stopped /\ posts = 0 /\ left = world.left /\ history = NoHistory
  BY DEF Init
<1>1. Shape(b, Pins) /\ b.config = c
  BY BootedIs DEF Pins
<1>2. machine.config = c
  <2> HIDE DEF b
  <2> QED BY <1>0, <1>1, WrittenKeeps DEF Kept
<1>3. /\ c[KnobA].mode = "rotary_encoder" /\ c[KnobB].mode = "rotary_encoder"
      /\ c[Lamp].mode \in PwmModes /\ "autostart" \notin c[Lamp].flags
      /\ Lamp \in DOMAIN world.written /\ world.written[Lamp] = world.centre
      /\ world.centre \in Nat /\ world.left.edges \in Nat
      /\ world.centre + world.left.edges <= MaxValue(c[Lamp].llmode)
      /\ {"commands", "edges", "restarts"} \subseteq DOMAIN world.left
      /\ world.left.commands = 0 /\ world.left.restarts = 0
  BY <1>0, KnobIs, Zenon DEF KnobAlone, KnobA, KnobB, Lamp
<1>4. ~c[Lamp].suspended /\ c[Lamp].llmode \in Outputs
  <2>1. c[Lamp].llmode \in Outputs
    <3>1. c[Lamp].mode \in DrivenModes
      BY <1>3 DEF DrivenModes
    <3> QED BY <1>2, <3>1, KnobIs DEF Core, Fit, Pins
  <2>2. ~c[Lamp].suspended
    BY KnobIs, RestoredIs DEF Pins
  <2> QED BY <2>1, <2>2
<1>5. /\ b.data[KnobA].previous = 0 /\ b.data[KnobB].previous = 0
      /\ b.data[Lamp].direction = "none"
  <2>1. KnobA \in DOMAIN store /\ KnobB \in DOMAIN store /\ Lamp \in DOMAIN store
    BY KnobIs DEF Pins
  <2>2. b.data[KnobA].previous = 0 /\ b.data[KnobB].previous = 0
    BY <1>3, <2>1, KnobIs, BootedAtRest
  <2>3. b.data[Lamp].direction = "none"
    BY <1>3, <1>4, <2>1, KnobIs, BootedAtRest
  <2> QED BY <2>2, <2>3
<1> HIDE DEF b, c
<1>6. /\ machine.data[KnobA].previous = 0 /\ machine.data[KnobB].previous = 0
      /\ machine.data[Lamp].direction = "none"
  BY <1>0, <1>1, <1>5, KnobIs, WrittenIs
<1>7. machine.out[Lamp] = world.centre
  <2>1. machine.out[Lamp] = Clipped(c[Lamp].llmode, world.centre)
    <3>1. c[Lamp].mode \notin CountedModes
      BY <1>3 DEF PwmModes, CountedModes
    <3> QED BY <1>0, <1>1, <1>3, <1>4, <3>1, KnobIs, WrittenIs DEF Writable
  <2>2. MaxValue(c[Lamp].llmode) \in Int
    BY DEF MaxValue
  <2>3. ~(world.centre > MaxValue(c[Lamp].llmode)) /\ ~(world.centre < 0)
    BY <1>3, <2>2
  <2> QED BY <1>3, <2>1, <2>2, <2>3 DEF Clipped
<1>8. KnobOnly
  <2>1. sequencer.repeats = 0 /\ history.turns = 0 /\ history.slips = 0 /\ history.together = 0
    BY <1>0 DEF Stopped, NoHistory
  <2> QED BY <1>0, <1>2, <1>3, <1>6, <2>1 DEF KnobOnly, c
<1>9. PICK v : v = [i \in 0 .. 0 |-> Present]
  OBVIOUS
<1>10. v[0] = Present /\ Present.o = world.centre /\ Present.a = 0 /\ Present.b = 0
       /\ Len(reports) = 0 /\ Ends(pending) = 0
       /\ In(KnobA, pending) = 0 /\ In(KnobB, pending) = 0
  BY <1>0, <1>6, <1>7, <1>9 DEF Present, Ends, In
<1>11. Ahead(v, reports)
  <2>1. Present \in Heeding
    BY <1>3, <1>6, <1>7 DEF Present, Heeding, Bit
  <2> QED BY <1>9, <1>10, <2>1 DEF Ahead
<1>12. Reached(v, reports)
  BY <1>0, <1>3, <1>10 DEF Reached, Near
<1>13. Error(v[Len(reports)])
  <2>1. contacts[KnobA] = 1 /\ contacts[KnobB] = 1
    BY <1>0, KnobIs
  <2>2. /\ v[0].o - world.centre - history.turns = 0 /\ history.slips + history.together = 0
    BY <1>0, <1>3, <1>10 DEF NoHistory
  <2>3. Shut(0, 0, 0, 1, 1, 0, 0, 1, 1, 0)
    BY DEF Shut, Settled, Worth, Way, Sense, Near
  <2> QED BY <1>0, <1>10, <2>1, <2>2, <2>3 DEF Error
<1> QED BY <1>8, <1>11, <1>12, <1>13 DEF Knob

LEMMA KnobStep == Core /\ KnobInv /\ [Next]_vars => KnobInv'
<1> SUFFICES ASSUME Core, KnobInv, [Next]_vars, world'.knob # <<>>
             PROVE  \E w : Knob(w)'
  BY DEF KnobInv
<1>1. CASE UNCHANGED vars
  <2>1. PICK v : Knob(v)
    BY <1>1 DEF vars, KnobInv
  <2>2. Knob(v)'
    BY <1>1, <2>1, KnobSame DEF vars
  <2> QED BY <2>2
<1>2. CASE Next
  <2>1. world' = world
    BY <1>2 DEF Next, io_mode, io_flag, io_trigger, io_write, io_read, io_suspend, io_resume,
                sequencer_start, sequencer_stop, Commanded, Elsewhere, io_periodic_fast,
                sequencer_run, Edge, pc_int_read, pc_int_report, io_gpio_pins_changed, Reboot
  <2>2. world.knob # <<>>
    BY <2>1
  <2>3. PICK v : Knob(v)
    BY <2>2 DEF KnobInv
  <2>4. left.commands = 0 /\ left.restarts = 0 /\ posts = 0
    BY <2>3 DEF Knob, KnobOnly
  <2>5. ~Command /\ ~sequencer_run /\ ~Reboot
    BY <2>4 DEF Command, sequencer_run, Reboot
  <2>6. \/ io_periodic_fast \/ Edge \/ pc_int_read \/ pc_int_report \/ io_gpio_pins_changed
    BY <1>2, <2>5 DEF Next, io_mode, io_flag, io_trigger, io_write, io_read, io_suspend,
                      io_resume, sequencer_start, sequencer_stop, Commanded
  <2>7. ASSUME io_periodic_fast \/ Edge \/ pc_int_read PROVE Knob(v)'
    BY <2>2, <2>3, <2>7, KnobTick, KnobEdge, KnobRead
  <2>8. ASSUME pc_int_report \/ io_gpio_pins_changed PROVE \E w : Knob(w)'
    BY <2>2, <2>3, <2>8, KnobReport, KnobTold
  <2> QED BY <2>6, <2>7, <2>8
<1> QED BY <1>1, <1>2

LEMMA SettledNear ==
  ASSUME NEW e \in Int, NEW n \in Int, NEW u \in Bit, NEW v \in Bit, NEW x \in Bit, NEW y \in Bit,
         Settled(e, u, v, x, y, n)
  PROVE  Near(e, n)
BY DEF Settled, Near, Sense, Bit

LEMMA KnobSuffices == Core /\ KnobInv => DriftBounded
<1> SUFFICES ASSUME Core, KnobInv, Handled, world.knob # <<>>
             PROVE  LET wrong == machine.out[world.knobbed] - world.centre - history.turns
                        allowed == Drift * (1 + history.slips + history.together)
                    IN  wrong <= allowed /\ -wrong <= allowed
  BY Zenon DEF DriftBounded
<1>1. PICK v : Knob(v)
  BY DEF KnobInv
<1>2. PICK s : s = v[Len(reports)]
  OBVIOUS
<1> DEFINE e == s.o - world.centre - history.turns
           n == history.slips + history.together
           x == contacts[KnobA]
           y == contacts[KnobB]
<1>3. Len(reports) = 0 /\ pending = {} /\ latch = NoLatch
  BY DEF Handled
<1>4. /\ s.a \in Bit /\ s.b \in Bit /\ x \in Bit /\ y \in Bit /\ e \in Int
      /\ history.slips \in Nat /\ history.together \in Nat
  BY <1>1, <1>2, KnobKinds
<1>5. Shut(e, s.a, s.b, x, y, 0, 0, x, y, n)
  BY <1>1, <1>2, <1>3 DEF Knob, Error, In
<1>6. s.o = machine.out[Lamp]
  BY <1>1, <1>2, <1>3 DEF Knob, Ahead, Present
<1> HIDE DEF e, x, y
<1>7. Settled(e, s.a, s.b, x, y, 3 * (1 + n))
  <2>1. /\ e + Worth(s.a, s.b, x, y, 0, 0) = e
        /\ 3 * (1 + n + 0) = 3 * (1 + n)
    BY <1>4 DEF Worth
  <2> QED BY <1>5, <2>1 DEF Shut
<1>8. Near(e, 3 * (1 + n))
  <2>1. 3 * (1 + n) \in Int
    BY <1>4
  <2> QED BY <1>4, <1>7, <2>1, SettledNear
<1>9. e = machine.out[world.knobbed] - world.centre - history.turns
  BY <1>6 DEF e, Lamp
<1>10. Drift * (1 + history.slips + history.together) = 3 * (1 + n)
  BY <1>4 DEF Drift
<1>11. \A z : Near(e, z) => e <= z /\ -z <= e
  BY DEF Near
<1> QED BY <1>4, <1>8, <1>9, <1>10, <1>11

(* What a knob controls follows it, whatever comes between its turns       *)
(* (pc_int_isr 732-742, io_pin_changed 1644-1729): it is off by the first  *)
(* turn after a restart, when the levels before it are not known, and by   *)
(* the edges that slip or are reported together, and by no more.           *)
THEOREM DriftBoundedCorrect == Spec => []DriftBounded
<1>1. Init => Core /\ KnobInv
  BY CoreStarts, KnobStarts DEF KnobInv
<1> QED BY <1>1, KnobStep, CoreCorrect, KnobSuffices, PTL DEF Spec
=============================================================================
