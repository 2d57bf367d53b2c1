-------------------------------- MODULE MCIo --------------------------------
(* The worlds the I/O core is checked in.                                    *)
EXTENDS Io, TLC

Nobody ==
  [store |-> <<>>, written |-> <<>>, contacts |-> {}, knob |-> <<>>,
   knobbed |-> NoPin, centre |-> 0, alert |-> NoPin, program |-> <<>>,
   modes |-> {}, flags |-> {}, triggers |-> {}, writes |-> {}, reads |-> {},
   suspends |-> {}, plays |-> {},
   left |-> [commands |-> 0, losses |-> 0, edges |-> 0, restarts |-> 0]]

GpioPin(n) == <<Gpio, n>>
Digital == ("mode" :> "output_digital") @@ ("llmode" :> "output_digital")
Pwm(speed, lower, upper, flags) ==
  ("mode" :> "output_pwm1") @@ ("llmode" :> "output_pwm1")
    @@ ("outputa.speed" :> speed) @@ ("outputa.lower" :> lower)
    @@ ("outputa.upper" :> upper) @@ ("flags" :> flags)
Counting == ("mode" :> "counter") @@ ("llmode" :> "counter")
Triggering(action, io, pin) ==
  ("mode" :> "trigger") @@ ("llmode" :> "counter") @@ ("trigger.0.io" :> io)
    @@ ("trigger.0.pin" :> pin) @@ ("trigger.0.type" :> action)
Encoding(type, io, pin) ==
  ("mode" :> "rotary_encoder") @@ ("llmode" :> "counter") @@ ("renc.pintype" :> type)
    @@ ("renc.trigger_pin.io" :> io) @@ ("renc.trigger_pin.pin" :> pin)
Blinking(delay, direction, flags) ==
  ("mode" :> "timer") @@ ("llmode" :> "output_digital") @@ ("timer.delay" :> delay)
    @@ ("timer.direction" :> direction) @@ ("flags" :> flags)

Mode(p, mode, args) == [pin |-> p, mode |-> mode, args |-> args]
Flag(p, flag, on) == [pin |-> p, flag |-> flag, on |-> on]
To(p, action) == [pin |-> p, action |-> action]
Put(p, value) == [pin |-> p, value |-> value]

(* Configuring: an encoder, modes with parameters, modes refused.            *)
Wiring ==
  [Nobody EXCEPT
     !.store = (GpioPin(1) :> <<>>) @@ (GpioPin(4) :> <<>>) @@ (GpioPin(5) :> Digital)
               @@ (<<Aux, 1>> :> <<>>) @@ (<<Mcp, 3>> :> Counting),
     !.modes =
       {Mode(GpioPin(4), "rotary_encoder", <<"1a", 0, 12>>),
        Mode(GpioPin(5), "rotary_encoder", <<"1b">>),
        Mode(GpioPin(4), "output_pwm1", <<100, 5000, 200>>),
        Mode(GpioPin(4), "output_pwm2", <<>>),
        Mode(GpioPin(5), "timer", <<"up", 300>>),
        Mode(GpioPin(5), "trigger", <<"on", 0, 4, "off", 0, 12>>),
        Mode(GpioPin(5), "i2c", <<"sda">>),
        Mode(GpioPin(5), "disabled", <<>>),
        Mode(GpioPin(1), "lcd", <<"bl">>),
        Mode(GpioPin(1), "disabled", <<>>),
        Mode(<<Aux, 1>>, "input_analog", <<>>),
        Mode(<<Aux, 1>>, "output_digital", <<>>),
        Mode(<<Mcp, 3>>, "output_digital", <<>>),
        Mode(<<Mcp, 3>>, "lcd", <<"d4">>)},
     !.flags = {Flag(GpioPin(5), "invert", TRUE), Flag(GpioPin(5), "invert", FALSE),
                Flag(<<Mcp, 3>>, "pullup", TRUE), Flag(<<Aux, 1>>, "pullup", TRUE)},
     !.left = [commands |-> 3, losses |-> 1, edges |-> 0, restarts |-> 1]]

(* A knob that dims a lamp.                                                  *)
Knob ==
  [Nobody EXCEPT
     !.store = (GpioPin(4) :> Encoding("1a", 0, 12)) @@ (GpioPin(5) :> Encoding("1b", 0, 12))
               @@ (GpioPin(12) :> Pwm(1, 0, 1000, {"linear"})),
     !.written = GpioPin(12) :> 500,
     !.contacts = {GpioPin(4), GpioPin(5)},
     !.knob = <<GpioPin(4), GpioPin(5)>>, !.knobbed = GpioPin(12), !.centre = 500,
     !.left = [@ EXCEPT !.edges = 6]]

(* Two inputs, a counter and a trigger; an output that shows every edge.     *)
Inputs ==
  [Nobody EXCEPT
     !.store = (GpioPin(4) :> Counting) @@ (GpioPin(5) :> Triggering("on", 0, 12))
               @@ (GpioPin(12) :> Digital) @@ (GpioPin(13) :> Digital),
     !.contacts = {GpioPin(4), GpioPin(5)},
     !.alert = GpioPin(13),
     !.left = [@ EXCEPT !.edges = 5]]

(* Lamps that fade, one up and down and one that gets stuck, and are         *)
(* triggered, written and suspended.                                         *)
Lamps ==
  [Nobody EXCEPT
     !.store = (GpioPin(12) :> Pwm(5000, 0, 4, {"repeat"}))
               @@ (GpioPin(13) :> Pwm(20000, 10000, 60000, {"linear", "autostart"})),
     !.triggers = {To(GpioPin(12), "start"), To(GpioPin(12), "toggle"),
                   To(GpioPin(13), "start"), To(GpioPin(13), "down")},
     !.writes = {Put(GpioPin(12), 1), Put(GpioPin(13), 15000)},
     !.suspends = {GpioPin(12)},
     !.left = [@ EXCEPT !.commands = 3, !.restarts = 1]]

(* A lamp that blinks, made to repeat and not to, suspended, and replaced.   *)
Blinker ==
  [Nobody EXCEPT
     !.store = GpioPin(14) :> Blinking(300, "up", {"autostart"}),
     !.triggers = {To(GpioPin(14), "start"), To(GpioPin(14), "stop")},
     !.suspends = {GpioPin(14)},
     !.writes = {Put(GpioPin(14), 1)},
     !.flags = {Flag(GpioPin(14), "repeat", TRUE), Flag(GpioPin(14), "repeat", FALSE)},
     !.modes = {Mode(GpioPin(14), "timer", <<"down", 200>>),
                Mode(GpioPin(14), "output_pwm1", <<10, 100, 20000>>)},
     !.left = [@ EXCEPT !.commands = 4, !.restarts = 1]]

(* A program of two entries, and a counter that is read and reset.           *)
Programs ==
  [Nobody EXCEPT
     !.store = (GpioPin(4) :> (("flags" :> {"reset-on-read"}) @@ Counting))
               @@ (GpioPin(12) :> Digital),
     !.program = <<[pin |-> GpioPin(12), value |-> 1, duration |-> 200],
                   [pin |-> GpioPin(12), value |-> 0, duration |-> 100]>>,
     !.plays = {[start |-> 0, repeats |-> 2], [start |-> 1, repeats |-> 1]},
     !.reads = {GpioPin(4)}, !.writes = {Put(GpioPin(4), 2)},
     !.suspends = {GpioPin(12)},
     !.left = [@ EXCEPT !.commands = 3, !.restarts = 1]]

MCWorlds == {Wiring, Knob, Inputs, Lamps, Blinker, Programs}
=============================================================================
