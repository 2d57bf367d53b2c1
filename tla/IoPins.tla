------------------------------- MODULE IoPins -------------------------------
(***************************************************************************)
(* What pins do once configured: reading, writing and triggering them      *)
(* (io_read_pin, io_write_pin, io_trigger_pin), the fast timer's part in   *)
(* blinking and fading (io_periodic_fast) and what an input's edge sets    *)
(* off (io_pin_changed).  Operators only; Io has the state.                *)
(*                                                                         *)
(* A machine is a record of config (see IoConfig), data (io_data's pins)   *)
(* and out, the value written to each output pin (what reading it gives:   *)
(* an inverted pin is inverted both ways).  What can fail returns the      *)
(* machine and whether it went well.                                       *)
(***************************************************************************)
EXTENDS IoConfig

CONSTANT MaxTriggers   \* that one event sets off, before the stack is full

ASSUME IoPinsAssumption == MaxTriggers \in Nat \ {0}

Idle == [value |-> 0, saved |-> 0, speed |-> 0, direction |-> "none",
         previous |-> 0]

\* The member of a set of one (TLC works out what is done in steps in order so).
Only(S) == CHOOSE x \in S : TRUE

Good(m) == [ok |-> TRUE, machine |-> m]
Bad(m) == [ok |-> FALSE, machine |-> m]

Flagged(m, p, flag) == flag \in m.config[p].flags
CountedModes == {"counter", "trigger", "rotary_encoder", "pcint"}
PwmModes == {"output_pwm1", "output_pwm2"}
DrivenModes == PwmModes \cup {"timer", "output_digital", "lcd"}
-----------------------------------------------------------------------------
(* The device's write_pin and read_pin.  A pin that was never configured   *)
(* as an output cannot be written, one that only counts not even read.     *)
MaxValue(llmode) ==
  CASE llmode = "output_pwm1" -> 65535
    [] llmode = "output_pwm2" -> 255
    [] OTHER -> 1
Outputs == {"output_digital", "output_pwm1", "output_pwm2"}

Clipped(llmode, v) == IF v > MaxValue(llmode) THEN MaxValue(llmode) ELSE v
DeviceWrite(m, p, v) ==
  IF m.config[p].llmode \in Outputs
  THEN Good([m EXCEPT !.out[p] = Clipped(m.config[p].llmode, v)])
  ELSE Bad(m)

Readable(m, p) == m.config[p].llmode \in Outputs \cup {"input_digital", "i2c"}

(* io_write_pin_x, of a pin that exists; io_read_pin, which may reset.     *)
WritePin(m, p, v) ==
  IF m.config[p].suspended THEN Bad(m)
  ELSE IF m.config[p].mode \in CountedModes
  THEN Good([m EXCEPT !.data[p].value = v])
  ELSE DeviceWrite(m, p, v)

ReadPin(m, p) ==
  IF /\ Flagged(m, p, "reset-on-read")
     /\ m.config[p].mode \in {"counter", "rotary_encoder"}
  THEN WritePin(m, p, 0) ELSE Good(m)
-----------------------------------------------------------------------------
(* io_trigger_pin_x, by mode. *)
TriggerDigital(m, p, action) ==
  CASE action \in {"off", "stop", "down"} -> DeviceWrite(m, p, 0)
    [] action \in {"on", "start", "up"} -> DeviceWrite(m, p, 1)
    [] OTHER -> Bad(m)

(* A counter is read from the device, which cannot read it. *)
TriggerCounter(m, p, action) ==
  IF action \in {"down", "up"} /\ Readable(m, p)
  THEN DeviceWrite(m, p, IF action = "up" THEN m.out[p] + 1
                         ELSE IF m.out[p] > 0 THEN m.out[p] - 1 ELSE 0)
  ELSE Bad(m)

(* The level a timer pin rests at is the one its direction goes to. *)
Rest(c) == IF c.direction = "up" THEN 1 ELSE 0
TriggerTimer(m, p, action) ==
  LET c == m.config[p]
      Then(w, speed, direction) ==
        IF w.ok THEN Good([w.machine EXCEPT !.data[p].speed = speed,
                                            !.data[p].direction = direction])
        ELSE w
  IN  CASE action \in {"off", "stop"} -> Then(DeviceWrite(m, p, Rest(c)), 0, "none")
        [] action \in {"on", "start"} ->
             Then(DeviceWrite(m, p, 1 - Rest(c)), c.speed, c.direction)
        [] OTHER -> Bad(m)

(* One step of a fade, by adding or by a factor (the speed in ten          *)
(* thousandths); one that would not move moves by one.                     *)
Down(m, p, v) ==
  LET speed == m.config[p].speed
      q == (v * 10000) \div (speed + 10000)
  IN  IF Flagged(m, p, "linear") THEN (IF v >= speed THEN v - speed ELSE v)
      ELSE IF q = v /\ v > 0 THEN v - 1 ELSE q
\* Seeded fault: a step that would not move does not.
UpByFactor(m, p, v) ==
  LET speed == m.config[p].speed
  IN  IF Flagged(m, p, "linear") THEN v + speed ELSE (v * (speed + 10000)) \div 10000

Up(m, p, v) ==
  LET speed == m.config[p].speed
      q == (v * (speed + 10000)) \div 10000
  IN  IF Flagged(m, p, "linear") THEN v + speed
      ELSE IF q = v THEN v + 1 ELSE q

PwmDown(m, p) ==
  LET d == m.data[p]
      v == Down(m, p, m.out[p])
  IN  IF v > m.config[p].shared.lower THEN [value |-> v, data |-> d]
      ELSE IF Flagged(m, p, "repeat") /\ d.direction = "down"
      THEN [value |-> v, data |-> [d EXCEPT !.direction = "up"]]
      ELSE [value |-> 0, data |-> [d EXCEPT !.direction = "none"]]

PwmUp(m, p) ==
  LET d == m.data[p]
      lower == m.config[p].shared.lower
      upper == m.config[p].shared.upper
      v == IF m.out[p] < lower THEN lower ELSE Up(m, p, m.out[p])
  IN  IF v < upper THEN [value |-> v, data |-> d]
      ELSE [value |-> upper,
            data |-> IF d.direction = "up" THEN [d EXCEPT !.direction = "down"] ELSE d]

(* Switching off keeps the value for switching on again. *)
PwmOff(m, p) ==
  LET d == [m.data[p] EXCEPT !.direction = "none", !.speed = 0]
  IN  [value |-> 0, data |-> IF m.out[p] > 0 THEN [d EXCEPT !.saved = m.out[p]] ELSE d]
PwmOn(m, p) ==
  LET d == m.data[p]
  IN  IF m.out[p] > 0 THEN [value |-> m.out[p], data |-> d]
      ELSE [value |-> IF d.saved > 0 THEN d.saved ELSE m.config[p].shared.upper,
            data |-> [d EXCEPT !.saved = 0]]
PwmStart(m, p) ==
  LET d == m.data[p]
  IN  IF d.direction # "none" THEN [value |-> m.out[p], data |-> d]
      ELSE [value |-> d.saved,
            data |-> [d EXCEPT !.direction = "up", !.saved = 0,
                               !.speed = m.config[p].speed]]
PwmStop(m, p) ==
  [value |-> m.out[p],
   data |-> [m.data[p] EXCEPT !.direction = "none", !.speed = 0]]

PwmStep(m, p, action) ==
  CASE action = "off" -> PwmOff(m, p)
    [] action = "on" -> PwmOn(m, p)
    [] action = "toggle" -> IF m.out[p] = 0 THEN PwmOn(m, p) ELSE PwmOff(m, p)
    [] action = "stop" -> PwmStop(m, p)
    [] action = "start" -> PwmStart(m, p)
    [] action = "down" -> PwmDown(m, p)
    [] action = "up" -> PwmUp(m, p)

TriggerPwm(m, p, action) ==
  IF action \notin Actions \ {"none"} THEN Bad(m)
  ELSE LET step == PwmStep(m, p, action)
       IN  DeviceWrite([m EXCEPT !.data[p] = step.data], p, step.value)

TriggerMode(m, p, action) ==
  LET mode == m.config[p].mode
  IN  CASE mode \in {"output_digital", "lcd"} -> TriggerDigital(m, p, action)
        [] mode = "counter" -> TriggerCounter(m, p, action)
        [] mode = "timer" -> TriggerTimer(m, p, action)
        [] mode \in PwmModes -> TriggerPwm(m, p, action)
        [] OTHER -> Bad(m)

(* io_trigger_pin: of a target that may not exist, and may itself be a     *)
(* trigger pin, which triggers its own targets and then goes on: todo has  *)
(* what is to be triggered, in order.  The first failure ends it all.      *)
TriggerStep(r) ==
  LET m == r.machine
      t == Head(r.todo)
      p == <<t.io, t.pin>>
      done == TriggerMode(m, p, t.action)
  IN  IF ~r.ok \/ r.todo = <<>> THEN r
      ELSE IF p \notin DOMAIN m.config THEN [r EXCEPT !.ok = FALSE]
      ELSE IF m.config[p].suspended THEN [r EXCEPT !.ok = FALSE]
      ELSE IF m.config[p].mode = "trigger"
      THEN [r EXCEPT !.todo = SelectSeq(m.config[p].shared.trigger,
                                        LAMBDA u : u.action # "off") \o Tail(@)]
      ELSE [ok |-> done.ok, machine |-> done.machine, todo |-> Tail(r.todo)]

TriggerNext(r) == Only({TriggerStep(s) : s \in {r}})
Asked(m, p, action) ==
  [ok |-> TRUE, machine |-> m,
   todo |-> <<[io |-> p[1], pin |-> p[2], action |-> action]>>]
io_trigger_pin(m, p, action) ==
  LET run[n \in 0 .. MaxTriggers] ==
        IF n = 0 THEN Asked(m, p, action) ELSE TriggerNext(run[n - 1])
  IN  run[MaxTriggers].machine
-----------------------------------------------------------------------------
(* io_periodic_fast, of one pin.  rate: the timer's interval in ms. *)
\* Seeded fault: the direction is turned whether or not the timer repeats.
TimerTickForEver(m, p, rate) ==
  LET d == m.data[p]
      up == d.direction = "up"
      w == DeviceWrite(m, p, IF up THEN 1 ELSE 0).machine
  IN  IF d.direction = "none" THEN m
      ELSE IF d.speed > rate THEN [m EXCEPT !.data[p].speed = d.speed - rate]
      ELSE [w EXCEPT !.data[p].speed = 0,
                     !.data[p].direction = IF up THEN "down" ELSE "up"]

TimerTick(m, p, rate) ==
  LET d == m.data[p]
      up == d.direction = "up"
      repeat == Flagged(m, p, "repeat")
      w == DeviceWrite(m, p, IF up THEN 1 ELSE 0).machine
  IN  IF d.direction = "none" THEN m
      ELSE IF d.speed > rate THEN [m EXCEPT !.data[p].speed = d.speed - rate]
      ELSE [w EXCEPT
              !.data[p].speed = IF repeat THEN m.config[p].speed ELSE 0,
              !.data[p].direction = IF ~repeat THEN "none"
                                    ELSE IF up THEN "down" ELSE "up"]

Fading(m, p) ==
  /\ m.config[p].mode \in PwmModes
  /\ m.config[p].shared.upper > m.config[p].shared.lower
  /\ m.config[p].speed > 0
  /\ m.data[p].direction # "none"

PeriodicFast(m, p, rate) ==
  IF m.config[p].mode = "timer" THEN TimerTick(m, p, rate)
  ELSE IF Fading(m, p) THEN io_trigger_pin(m, p, m.data[p].direction)
  ELSE m
-----------------------------------------------------------------------------
(* io_pin_changed, told of a change of p and of the levels of all pins.    *)
\* Seeded fault: every change counts.
CountsBoth(m, p, level) == level[p] \in {0, 1}

Counts(m, p, level) == level[p] = IF Flagged(m, p, "invert") THEN 1 ELSE 0
OneUp(m, p) == [m EXCEPT !.data[p].value = @ + 1]

(* ... a trigger pin: both targets, whether or not the first goes well.    *)
ChangedTrigger(m, p) ==
  LET Follow(w, t) == IF t.action = "none" THEN w
                      ELSE io_trigger_pin(w, <<t.io, t.pin>>, t.action)
      t == m.config[p].shared.trigger
  IN  Follow(Follow(OneUp(m, p), t[1]), t[2])

(* ... a rotary encoder: the two previous levels, as the last report of    *)
(* each pin had them, and the two present ones, of the lower pin first.    *)
Turn(before, after) ==
  CASE <<before, after>> \in {<<<<1, 1>>, <<0, 1>>>>, <<<<0, 1>>, <<0, 0>>>>,
                              <<<<0, 0>>, <<1, 0>>>>, <<<<1, 0>>, <<1, 1>>>>} -> "up"
    [] <<before, after>> \in {<<<<1, 0>>, <<0, 0>>>>, <<<<0, 0>>, <<0, 1>>>>,
                              <<<<0, 1>>, <<1, 1>>>>, <<<<1, 1>>, <<1, 0>>>>} -> "down"
    [] OTHER -> "none"

Opposite(action) ==
  CASE action = "up" -> "down" [] action = "down" -> "up" [] OTHER -> "none"

\* Seeded fault: the pins in the order of the report, not of the encoder.
DecodedAsReported(m, p, level) ==
  LET pair == <<p, <<p[1], m.config[p].shared.partner>>>>
  IN  Turn([n \in 1 .. 2 |-> m.data[pair[n]].previous],
           [n \in 1 .. 2 |-> level[pair[n]]])

Decoded(m, p, level) ==
  LET partner == <<p[1], m.config[p].shared.partner>>
      pair == IF p[2] > partner[2] THEN <<partner, p>> ELSE <<p, partner>>
      turn == Turn([n \in 1 .. 2 |-> m.data[pair[n]].previous],
                   [n \in 1 .. 2 |-> level[pair[n]]])
  IN  IF partner \notin DOMAIN m.config THEN "none"
      ELSE IF Flagged(m, p, "invert") THEN Opposite(turn) ELSE turn

ChangedRotary(m, p, level) ==
  LET turn == Decoded(m, p, level)
      t == m.config[p].shared
  IN  IF turn = "none" THEN m
      ELSE IF t.remote >= 0 THEN OneUp(m, p)
      ELSE io_trigger_pin(OneUp(m, p), <<t.io, t.pin>>, turn)

(* alert: the pin that shows every change (pcint_alert), or NoPin.         *)
NoPin == <<None, None>>
PinChanged(m, p, level, alert) ==
  LET mode == m.config[p].mode
      w == CASE mode \in {"counter", "pcint"} /\ Counts(m, p, level) -> OneUp(m, p)
             [] mode = "trigger" /\ Counts(m, p, level) -> ChangedTrigger(m, p)
             [] mode = "rotary_encoder" -> ChangedRotary(m, p, level)
             [] OTHER -> m
      a == IF alert = NoPin THEN w ELSE io_trigger_pin(w, alert, "on")
  IN  [a EXCEPT !.data[p].previous = level[p]]

(* io_gpio_pins_changed: those reported that are still counted, in order.  *)
ChangedIf(m, p, status, level, alert) ==
  IF p \in status /\ m.config[p].llmode = "counter"
  THEN PinChanged(m, p, level, alert) ELSE m
ChangedNext(w, n, status, level, alert) ==
  Only({ChangedIf(x, <<Gpio, n>>, status, level, alert) : x \in {w}})
PinsChanged(m, status, level, alert) ==
  LET pins == io_info_entry_gpio.pins
      seen[n \in 0 .. pins] ==
        IF n = 0 THEN m ELSE ChangedNext(seen[n - 1], n - 1, status, level, alert)
  IN  seen[pins]
-----------------------------------------------------------------------------
(* io_init, when the device answers: a pin that can be what it is          *)
(* configured as starts, or is switched off.  No pin touches another.      *)
Started(m, p) ==
  LET auto == Flagged(m, p, "autostart")
      mode == m.config[p].mode
  IN  IF ~init_pin_mode(p, m.config[p]) THEN m
      ELSE IF mode \in {"output_digital", "lcd"}
      THEN io_trigger_pin(m, p, IF auto THEN "on" ELSE "off")
      ELSE IF mode \in PwmModes \cup {"timer"}
      THEN IF auto THEN io_trigger_pin(m, p, "start")
           ELSE io_trigger_pin(io_trigger_pin(m, p, "stop"), p, "off")
      ELSE m

Booted(store) ==
  LET resting == [config |-> Restored(store),
                  data |-> [p \in DOMAIN store |-> Idle],
                  out |-> [p \in DOMAIN store |-> 0]]
      started == [p \in DOMAIN store |-> Started(resting, p)]
  IN  [config |-> resting.config,
       data |-> [p \in DOMAIN store |-> started[p].data[p]],
       out |-> [p \in DOMAIN store |-> started[p].out[p]]]
=============================================================================
