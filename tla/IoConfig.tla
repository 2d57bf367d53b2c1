------------------------------ MODULE IoConfig ------------------------------
(***************************************************************************)
(* What configures a pin: io.c's io-mode and io-flag commands, which write *)
(* a pin's settings to the configuration in flash and put them in force,   *)
(* and io_init, which after a restart puts in force what it finds there.   *)
(* Operators only: what a command or a restart makes of a configuration.   *)
(* Io has the state.                                                       *)
(*                                                                         *)
(* A pin is <<io, pin>>, by number.  io_config is a function of pins.  The *)
(* stored settings of a pin are a function from the tails of the entries'  *)
(* names (what follows "io.0.4.") to values; an enumeration is stored by   *)
(* the name of its value.  A command is its mode and the sequence of its   *)
(* further arguments; one that is left out, or does not parse, ends it.    *)
(***************************************************************************)
EXTENDS Integers, Sequences, FiniteSets

Gpio == 0
Aux == 1
Mcp == 2
Ledpixel == 6

BoundLimit == 1048576     \* output_pwm.lower_bound and upper_bound: 20 bits
SpeedLimit == 262144      \* speed: 18 bits
Unbounded == 2147483647   \* ~0, an upper bound that was left out
FieldLimit == 16          \* trigger.io.io and .pin: 4 bits, unsigned
Signed8(n) == ((n + 128) % 256) - 128  \* renc.trigger_pin: 8 bits, signed
MinDelay == 100
None == -1
Junk == -2                \* what another mode left in the union

Smallest(S) == CHOOSE n \in S : \A m \in S : n <= m
Largest(S) == CHOOSE n \in S : \A m \in S : m <= n
-----------------------------------------------------------------------------
(* The devices: how many pins, and what they can do (caps).                *)
io_info_entry_gpio ==
  [pins |-> 16, caps |-> {"input_digital", "counter", "output_digital",
     "output_pwm1", "output_pwm2", "i2c", "uart", "ledpixel", "pullup",
     "rotary_encoder", "spi", "pin_change_int"}]
io_info_entry_aux ==
  [pins |-> 2, caps |-> {"input_digital", "output_digital", "input_analog"}]
io_info_entry_mcp ==
  [pins |-> 16, caps |-> {"input_digital", "counter", "output_digital",
                          "pullup", "rotary_encoder"}]
io_info_entry_pcf ==
  [pins |-> 8, caps |-> {"input_digital", "counter", "output_digital",
                         "rotary_encoder"}]
io_info_entry_ledpixel == [pins |-> 16, caps |-> {"output_pwm1"}]

io_info == <<io_info_entry_gpio, io_info_entry_aux, io_info_entry_mcp,
  io_info_entry_mcp, io_info_entry_mcp, io_info_entry_pcf,
  io_info_entry_ledpixel, io_info_entry_pcf, io_info_entry_mcp>>

NumberOfPins(io) == io_info[io + 1].pins
Can(p, cap) == cap \in io_info[p[1] + 1].caps

(* The pins of the internal device: 6 to 11 belong to the flash.           *)
gpio_info_table ==
  [valid |-> 0 .. 15 \ 6 .. 11, uart |-> {1, 2, 3}, i2s |-> {2, 3} \cup 12 .. 15,
   i2s_data |-> 3]

io_ledpixel_mode(p) ==
  IF p[1] # Gpio THEN "invalid"
  ELSE IF p[2] = gpio_info_table.i2s_data THEN "i2s"
  ELSE IF p[2] \in gpio_info_table.uart THEN "uart" ELSE "invalid"

(* init_pin_mode of the devices: can the pin be what c says?               *)
GpioInitPinMode(pin, c) ==
  /\ pin \in gpio_info_table.valid
  /\ c.llmode \notin {"disabled", "input_analog"}
  /\ c.llmode = "uart" => pin \in gpio_info_table.uart
  /\ c.llmode = "i2s" => pin \in gpio_info_table.i2s
AuxInitPinMode(pin, c) ==
  IF pin = 0 THEN c.llmode \in {"disabled", "input_digital", "output_digital"}
             ELSE c.llmode = "input_analog"
ExpanderPinMode(c) ==
  c.llmode \in {"disabled", "counter", "input_digital", "output_digital"}
init_pin_mode(p, c) ==
  CASE p[1] = Gpio -> GpioInitPinMode(p[2], c)
    [] p[1] = Aux -> AuxInitPinMode(p[2], c)
    [] p[1] = Ledpixel -> TRUE
    [] OTHER -> ExpanderPinMode(c)
-----------------------------------------------------------------------------
(* io_config_pin_entry_t; the union by the mode that wrote it.             *)
Zero == [kind |-> "zero"]
Blank == [mode |-> "disabled", llmode |-> "disabled", flags |-> {},
          suspended |-> FALSE, direction |-> "none", speed |-> 0, shared |-> Zero]

Partner(c) ==
  CASE c.shared.kind = "renc" -> c.shared.partner
    [] c.shared.kind = "zero" -> 0
    [] OTHER -> Junk

(* Entries: one, and those of e and, for other names, of f.                *)
Entry(name, value) == [n \in {name} |-> value]
e ++ f ==
  [n \in DOMAIN e \cup DOMAIN f |-> IF n \in DOMAIN e THEN e[n] ELSE f[n]]

Arg(args, i, default) == IF i <= Len(args) THEN args[i] ELSE default

(* What a branch of io-mode makes of its arguments: an error before        *)
(* anything has changed, or the low level mode, the entries it saves and   *)
(* io_config with the pin's parameters in it.                              *)
Refused == [ok |-> FALSE]
Accepted(llmode, entries, config) ==
  [ok |-> TRUE, llmode |-> llmode, entries |-> entries, config |-> config]
Plain(p, config, cap, llmode) ==
  IF Can(p, cap) THEN Accepted(llmode, <<>>, config) ELSE Refused

InputDigital(p, config) == Plain(p, config, "input_digital", "input_digital")
Counter(p, config) == Plain(p, config, "counter", "counter")
OutputDigital(p, config) == Plain(p, config, "output_digital", "output_digital")
InputAnalog(p, config) == Plain(p, config, "input_analog", "input_analog")
Uart(p, config) == Plain(p, config, "uart", "uart")
Cfa634(p, config) == Plain(p, config, "uart", "uart")
Spi(p, config) == Plain(p, config, "spi", "spi")
Pcint(p, config) == Plain(p, config, "pin_change_int", "counter")
Disable(config) == Accepted("disabled", <<>>, config)

RefusedLedpixel(p) == ~Can(p, "ledpixel") \/ io_ledpixel_mode(p) = "invalid"
LedpixelMode(p, config) ==
  IF RefusedLedpixel(p) THEN Refused
  ELSE Accepted(IF io_ledpixel_mode(p) = "i2s" THEN "i2s" ELSE "uart", <<>>, config)

Timer(p, config, args) ==
  IF \/ ~Can(p, "output_digital") \/ Len(args) < 2
     \/ args[1] \notin {"up", "down"} \/ args[2] < MinDelay
  THEN Refused
  ELSE Accepted("output_digital",
         Entry("timer.direction", args[1]) ++ Entry("timer.delay", args[2]),
         [config EXCEPT ![p].direction = args[1],
                        ![p].speed = args[2] % SpeedLimit])

(* The two pwm modes: bounds and speed, where 0 stands for none.           *)
Modulated(p, config, args, llmode) ==
  LET lower == Arg(args, 1, 0)
      upper == IF Arg(args, 2, 0) = 0 THEN Unbounded ELSE args[2]
      speed == Arg(args, 3, 0)
      When(present, entry) == IF present THEN entry ELSE <<>>
  IN  IF ~Can(p, llmode) \/ upper < lower THEN Refused
      ELSE Accepted(llmode,
             When(speed > 0, Entry("outputa.speed", speed))
               ++ When(lower > 0, Entry("outputa.lower", lower))
               ++ When(upper < Unbounded, Entry("outputa.upper", upper)),
             [config EXCEPT ![p].speed = speed % SpeedLimit,
                            ![p].shared = [kind |-> "pwm",
                                           lower |-> lower % BoundLimit,
                                           upper |-> upper % BoundLimit]])
OutputPwm1(p, config, args) == Modulated(p, config, args, "output_pwm1")
OutputPwm2(p, config, args) == Modulated(p, config, args, "output_pwm2")

I2c(p, config, args) ==
  IF ~Can(p, "i2c") \/ Arg(args, 1, "") \notin {"sda", "scl"} THEN Refused
  ELSE Accepted("i2c", Entry("i2c.pinmode", args[1]),
         [config EXCEPT ![p].shared = [kind |-> "i2c", pin_mode |-> args[1]]])

LcdUse == {"rs", "rw", "e", "d0", "d1", "d2", "d3", "d4", "d5", "d6", "d7", "bl"}
Backlight(p) ==
  IF Can(p, "output_pwm2") THEN "output_pwm2"
  ELSE IF Can(p, "output_pwm1") THEN "output_pwm1" ELSE "output_digital"
Lcd(p, config, args) ==
  LET use == Arg(args, 1, "")
      llmode == IF use = "bl" THEN Backlight(p) ELSE "output_digital"
  IN  IF use \notin LcdUse \/ ~Can(p, llmode) THEN Refused
      ELSE Accepted(llmode, Entry("lcd.pin", use),
             [config EXCEPT ![p].shared = [kind |-> "lcd", pin_use |-> use]])

(* A rotary encoder is two pins, its 'b' pin above its 'a' pin.  The 'b'   *)
(* pin looks for the other and takes over what it triggers.                *)
RencPins == {"unset", "1a", "1b", "2a", "2b"}
IsB(type) == type \in {"1b", "2b"}
AOf(type) == IF type = "1b" THEN "1a" ELSE "2a"
Partners(p, config, type) ==
  {n \in 0 .. p[2] - 1 :
     LET q == <<p[1], n>>
     IN  /\ q \in DOMAIN config
         /\ config[q].mode = "rotary_encoder"
         /\ config[q].shared.pin_type = AOf(type)}

NoTarget == [remote |-> None, io |-> None, pin |-> None]
RencTarget(args) ==
  IF Len(args) < 3 THEN NoTarget
  ELSE [remote |-> Arg(args, 4, None), io |-> args[2], pin |-> args[3]]

RencEntries(type, t) ==
  Entry("renc.pintype", type)
    ++ (IF t.remote >= 0 THEN Entry("renc.remote", t.remote) ELSE <<>>)
    ++ (IF t.io >= 0 /\ t.pin >= 0
        THEN Entry("renc.trigger_pin.io", t.io) ++ Entry("renc.trigger_pin.pin", t.pin)
        ELSE <<>>)

Renc(type, partner, t) ==
  [kind |-> "renc", pin_type |-> type, partner |-> partner,
   remote |-> Signed8(t.remote), io |-> Signed8(t.io), pin |-> Signed8(t.pin)]

RotaryEncoder(p, config, args) ==
  LET type == Arg(args, 1, "")
      others == Partners(p, config, type)
      a == <<p[1], Smallest(others)>>
      own == RencTarget(args)
  IN  IF ~Can(p, "rotary_encoder") \/ type \notin RencPins THEN Refused
      ELSE IF ~IsB(type)
      THEN Accepted("counter", RencEntries(type, own),
             [config EXCEPT ![p].shared = Renc(type, Partner(config[p]), own)])
      ELSE IF others = {} THEN Refused
      ELSE Accepted("counter", RencEntries(type, config[a].shared),
             [config EXCEPT ![a].shared.partner = p[2],
                            ![p].shared = Renc(type, a[2], config[a].shared)])

(* One trigger, or two: a second that is not complete is left out.         *)
Actions == {"none", "off", "on", "down", "up", "toggle", "stop", "start"}
Target(io, pin, action) ==
  [io |-> io % FieldLimit, pin |-> pin % FieldLimit, action |-> action]
NoTrigger == Target(None, None, "none")
Triggers(a, b) == [kind |-> "trigger", trigger |-> <<a, b>>]
Complete(args, i) == i + 2 <= Len(args) /\ args[i] \in Actions
TriggerEntries(t, io, pin, type) ==
  Entry(io, t.io) ++ Entry(pin, t.pin) ++ Entry(type, t.action)

Trigger(p, config, args) ==
  LET a == Target(args[2], args[3], args[1])
      b == IF Complete(args, 4) THEN Target(args[5], args[6], args[4]) ELSE NoTrigger
  IN  IF ~Can(p, "counter") \/ ~Complete(args, 1) THEN Refused
      ELSE Accepted("counter",
             TriggerEntries(a, "trigger.0.io", "trigger.0.pin", "trigger.0.type")
               ++ (IF b.action = "none" THEN <<>> ELSE
                     TriggerEntries(b, "trigger.1.io", "trigger.1.pin", "trigger.1.type")),
             [config EXCEPT ![p].shared = Triggers(a, b)])

io_mode_traits ==
  {"disabled", "input_digital", "counter", "output_digital", "timer",
   "input_analog", "output_pwm1", "i2c", "uart", "lcd", "trigger", "ledpixel",
   "cfa634", "output_pwm2", "rotary_encoder", "spi", "pcint"}
io_flag_static_names ==
  {"autostart", "repeat", "pullup", "reset-on-read", "extended", "grb", "linear",
   "fill8", "invert"}

Branch(p, config, cmd) ==
  CASE cmd.mode = "input_digital" -> InputDigital(p, config)
    [] cmd.mode = "counter" -> Counter(p, config)
    [] cmd.mode = "rotary_encoder" -> RotaryEncoder(p, config, cmd.args)
    [] cmd.mode = "trigger" -> Trigger(p, config, cmd.args)
    [] cmd.mode = "output_digital" -> OutputDigital(p, config)
    [] cmd.mode = "timer" -> Timer(p, config, cmd.args)
    [] cmd.mode = "input_analog" -> InputAnalog(p, config)
    [] cmd.mode = "output_pwm1" -> OutputPwm1(p, config, cmd.args)
    [] cmd.mode = "output_pwm2" -> OutputPwm2(p, config, cmd.args)
    [] cmd.mode = "i2c" -> I2c(p, config, cmd.args)
    [] cmd.mode = "uart" -> Uart(p, config)
    [] cmd.mode = "lcd" -> Lcd(p, config, cmd.args)
    [] cmd.mode = "ledpixel" -> LedpixelMode(p, config)
    [] cmd.mode = "cfa634" -> Cfa634(p, config)
    [] cmd.mode = "spi" -> Spi(p, config)
    [] cmd.mode = "pcint" -> Pcint(p, config)
    [] cmd.mode = "disabled" -> Disable(config)

(* What an accepted command leaves in flash: everything else of the pin is *)
(* deleted, its flags with it ...                                          *)
Saved(cmd, out) ==
  IF cmd.mode = "disabled" THEN <<>>
  ELSE Entry("mode", cmd.mode) ++ Entry("llmode", out.llmode) ++ out.entries

(* ... and in memory, where the flags stay.  A mode the device cannot give *)
(* the pin disables it.                                                    *)
InForce(p, cmd, out) ==
  LET c == [out.config[p] EXCEPT !.mode = cmd.mode, !.llmode = out.llmode]
  IN  [out.config EXCEPT ![p] =
         IF init_pin_mode(p, c) THEN c
         ELSE [c EXCEPT !.mode = "disabled", !.llmode = "disabled"]]
-----------------------------------------------------------------------------
(* io_init.  Get(p, name, default): config_get of one of the pin's entries. *)
Has(entries, names) == names \subseteq DOMAIN entries
Get(entries, name, default) ==
  IF name \in DOMAIN entries THEN entries[name] ELSE default

(* The emergency mode: without a configuration the serial port works.      *)
RestoredMode(p, entries) ==
  IF /\ Has(entries, {"mode", "llmode"})
     /\ entries["mode"] # "disabled" /\ entries["llmode"] # "disabled"
  THEN [Blank EXCEPT !.mode = entries["mode"], !.llmode = entries["llmode"]]
  ELSE IF p[1] = Gpio /\ p[2] \in {1, 3}
  THEN [Blank EXCEPT !.mode = "uart", !.llmode = "uart"]
  ELSE Blank

(* The parameters of one mode, or the pin disabled where they are missing. *)
Off(c) == [c EXCEPT !.mode = "disabled", !.llmode = "disabled"]

RestoreRotary(entries, c) ==
  LET t == [remote |-> Get(entries, "renc.remote", None),
            io |-> Get(entries, "renc.trigger_pin.io", None),
            pin |-> Get(entries, "renc.trigger_pin.pin", None)]
      whole == Has(entries, {"renc.trigger_pin.io", "renc.trigger_pin.pin"})
  IN  IF ~Has(entries, {"renc.pintype"}) THEN Off(c)
      ELSE [c EXCEPT !.shared =
              Renc(entries["renc.pintype"], 0, IF whole THEN t ELSE NoTarget)]

RestoreTrigger(p, entries, c) ==
  LET Restored(io, pin, type, default) ==
        IF Has(entries, {io, pin, type})
        THEN Target(entries[io], entries[pin], entries[type]) ELSE default
      old == Restored("trigger.io", "trigger.pin", "trigger.type", NoTrigger)
  IN  IF ~Can(p, "counter") THEN Off(c)
      ELSE [c EXCEPT !.shared = Triggers(
              Restored("trigger.0.io", "trigger.0.pin", "trigger.0.type", old),
              Restored("trigger.1.io", "trigger.1.pin", "trigger.1.type", NoTrigger))]

\* Seeded fault: the direction is not read.
RestoreTimerUndirected(p, entries, c) ==
  IF ~Can(p, "output_digital") \/ ~Has(entries, {"timer.delay", "timer.direction"})
  THEN Off(c)
  ELSE [c EXCEPT !.speed = entries["timer.delay"] % SpeedLimit]

RestoreTimer(p, entries, c) ==
  IF ~Can(p, "output_digital") \/ ~Has(entries, {"timer.delay", "timer.direction"})
  THEN Off(c)
  ELSE [c EXCEPT !.speed = entries["timer.delay"] % SpeedLimit,
                 !.direction = entries["timer.direction"]]

RestorePwm(p, entries, c) ==
  IF ~Can(p, c.mode) THEN Off(c)
  ELSE [c EXCEPT
          !.speed = Get(entries, "outputa.speed", 0) % SpeedLimit,
          !.shared = [kind |-> "pwm",
            lower |-> Get(entries, "outputa.lower", 0) % BoundLimit,
            upper |-> Get(entries, "outputa.upper", Unbounded) % BoundLimit]]

RestoreI2c(p, entries, c) ==
  IF ~Can(p, "i2c") \/ ~Has(entries, {"i2c.pinmode"}) THEN Off(c)
  ELSE [c EXCEPT !.shared = [kind |-> "i2c", pin_mode |-> entries["i2c.pinmode"]]]

RestoreLcd(entries, c) ==
  IF ~Has(entries, {"lcd.pin"}) THEN Off(c)
  ELSE [c EXCEPT !.shared = [kind |-> "lcd", pin_use |-> entries["lcd.pin"]]]

RestoreChecked(p, c) ==
  IF \/ c.mode = "ledpixel" /\ RefusedLedpixel(p)
     \/ c.mode = "cfa634" /\ ~Can(p, "uart")
     \/ c.mode = "spi" /\ ~Can(p, "spi")
     \/ c.mode = "pcint" /\ ~Can(p, "pin_change_int")
  THEN Off(c) ELSE c

RestoredPin(p, entries) ==
  LET c == [RestoredMode(p, entries) EXCEPT !.flags = Get(entries, "flags", {})]
  IN  CASE c.mode = "rotary_encoder" -> RestoreRotary(entries, c)
        [] c.mode = "trigger" -> RestoreTrigger(p, entries, c)
        [] c.mode = "timer" -> RestoreTimer(p, entries, c)
        [] c.mode \in {"output_pwm1", "output_pwm2"} -> RestorePwm(p, entries, c)
        [] c.mode = "i2c" -> RestoreI2c(p, entries, c)
        [] c.mode = "lcd" -> RestoreLcd(entries, c)
        [] OTHER -> RestoreChecked(p, c)

(* The pins in order: a 'b' pin finds the lowest 'a' pin before it, and an *)
(* 'a' pin ends up with the last 'b' pin that found it.                    *)
RestoredPartner(p, config) ==
  LET type == config[p].shared.pin_type
      FoundBy(q) == /\ q[1] = p[1] /\ config[q].mode = "rotary_encoder"
                    /\ IsB(config[q].shared.pin_type)
                    /\ Partners(q, config, config[q].shared.pin_type) # {}
                    /\ Smallest(Partners(q, config, config[q].shared.pin_type)) = p[2]
      bs == {q[2] : q \in {r \in DOMAIN config : FoundBy(r)}}
      as == Partners(p, config, type)
  IN  IF IsB(type) THEN (IF as = {} THEN 0 ELSE Smallest(as))
      ELSE IF bs = {} THEN 0 ELSE Largest(bs)

Restored(store) ==
  LET alone == [p \in DOMAIN store |-> RestoredPin(p, store[p])]
  IN  [p \in DOMAIN store |->
         IF alone[p].mode # "rotary_encoder" THEN alone[p]
         ELSE [alone[p] EXCEPT !.shared.partner = RestoredPartner(p, alone)]]
=============================================================================
