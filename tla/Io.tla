--------------------------------- MODULE Io ---------------------------------
(***************************************************************************)
(* The I/O core at work: commands that configure, read, write, trigger and *)
(* suspend pins; the fast timer, which makes pins blink and fade and plays *)
(* the sequencer's program; the gpio interrupt, whose reports of changed   *)
(* inputs wait in a queue; and restarts, after which the configuration is  *)
(* what flash holds.  IoConfig and IoPins have what each does to a pin.    *)
(*                                                                         *)
(* Tasks and timers run one at a time and to their end; only the interrupt *)
(* handler comes between (and the contacts of the inputs change when they  *)
(* like, between its two reads as well).  A world is a bridge and who is   *)
(* connected to it: its flash, the commands and how often what may happen. *)
(***************************************************************************)
EXTENDS IoPins

CONSTANTS Worlds,           \* one of which is the bridge's
          Rate,             \* of the fast timer, in ms
          TaskQueueLength   \* of each priority

(* The commands are those that parse, with numbers that are not negative;  *)
(* pins are those the bridge shows; entries are as io_mode writes them: an *)
(* output has a low level mode that can be written, a target numbers.      *)
AllPins == {p \in (0 .. Len(io_info) - 1) \X Nat : p[2] < NumberOfPins(p[1])}
Stored(entries) ==
  /\ Has(entries, {"mode", "llmode"}) /\ entries["mode"] \in DrivenModes
       => entries["llmode"] \in Outputs \cup {"disabled"}
  /\ \A name \in {"renc.remote", "renc.trigger_pin.io", "renc.trigger_pin.pin"} :
       Get(entries, name, None) \in Int
Given(cmd) ==
  LET args == cmd.args
      t == RencTarget(args)
  IN  /\ cmd.mode \in io_mode_traits
      /\ Len(args) \in Nat /\ DOMAIN args = 1 .. Len(args)
      /\ cmd.mode \in PwmModes => \A i \in 1 .. 3 : Arg(args, i, 0) \in 0 .. Unbounded
      /\ cmd.mode = "trigger" => \A i \in {2, 3, 5, 6} : Arg(args, i, 0) \in Nat
      /\ cmd.mode = "rotary_encoder" =>
           \/ t = NoTarget
           \/ {t.io, t.pin} \subseteq Nat /\ t.remote \in Nat \cup {None}

(* A knob is spoken of where it is an encoder that nobody else uses, of a   *)
(* lamp it dims by one at a turn and that nobody else does anything to; the *)
(* edges there may be are too few for the ends of its range.                *)
KnobAlone(w) ==
  LET a == w.knob[1]
      b == w.knob[2]
      there == Restored(w.store)
      lamp == there[w.knobbed]
      edges == w.left.edges
  IN  /\ w.contacts = {a, b} /\ a[2] < b[2] /\ w.alert = NoPin
      /\ there[a].shared.partner = b[2] /\ there[b].shared.partner = a[2]
      /\ \A p \in {a, b} : LET c == there[p] IN
           /\ c.mode = "rotary_encoder" /\ c.llmode = "counter" /\ "invert" \notin c.flags
           /\ ~(c.shared.remote >= 0) /\ <<c.shared.io, c.shared.pin>> = w.knobbed
      /\ w.knobbed \in DOMAIN w.store \cap DOMAIN w.written
      /\ w.written[w.knobbed] = w.centre
      /\ lamp.mode \in PwmModes /\ "linear" \in lamp.flags /\ "autostart" \notin lamp.flags
      /\ lamp.speed = 1 /\ {w.centre, lamp.shared.lower, lamp.shared.upper, edges} \subseteq Nat
      /\ lamp.shared.lower + edges < w.centre /\ w.centre + edges < lamp.shared.upper
      /\ w.centre + edges <= MaxValue(lamp.llmode)
      /\ {"commands", "edges", "restarts"} \subseteq DOMAIN w.left
      /\ w.left.commands = 0 /\ w.left.restarts = 0

ASSUME IoAssumption ==
  /\ Rate \in Nat \ {0} /\ TaskQueueLength \in Nat \ {0}
  /\ \A w \in Worlds : LET pins == DOMAIN w.store IN
       /\ pins \subseteq AllPins /\ \A p \in pins : Stored(w.store[p])
       /\ w.reads \cup w.suspends \cup w.contacts \subseteq pins
       /\ \A p \in w.contacts : p[1] = Gpio
       /\ \A cmd \in w.modes : Given(cmd)
       /\ \A cmd \in w.flags : cmd.flag \in io_flag_static_names
       /\ \A cmd \in w.triggers : cmd.action \in Actions
       /\ \A cmd \in w.modes \cup w.flags \cup w.triggers \cup w.writes : cmd.pin \in pins
       /\ \A i \in DOMAIN w.program :
            w.program[i].pin \in pins /\ w.program[i].duration \in Nat
       /\ w.knob # <<>> => KnobAlone(w)

VARIABLES
  world,
  machine,    \* io_config, io_data and the outputs: see IoPins
  store,      \* the pins' entries in flash
  contacts,   \* the levels at the inputs that something is connected to
  pending,    \* GPIO_STATUS
  latch,      \* the levels the interrupt handler has read, or NoLatch
  reports,    \* task_pins_changed_gpio in the queue: its arguments
  sequencer,  \* start, current, repeats; left: of the entry's time, in ms
  posts,      \* how often task_run_sequencer is in the queue
  left,       \* how often commands, lost saves, edges and restarts may yet be
  history     \* what the properties compare with

vars == <<world, machine, store, contacts, pending, latch, reports, sequencer,
          posts, left, history>>

NoLatch == <<>>
Stopped == [start |-> 0, current |-> -1, repeats |-> 0, left |-> -1]
Pins == DOMAIN store
Level(levels) == [p \in Pins |-> IF p \in DOMAIN levels THEN levels[p] ELSE 0]

(* history: unsaved, the pins whose settings flash did not take; remade,   *)
(* the pins given a mode while suspended; doubled, whether the sequencer's *)
(* task was posted while it was in the queue; falls of each contact; turns *)
(* of the knob; slips, the edges that came while one was pending or the    *)
(* handler was at work, or that the queue had no place for; together, the  *)
(* reports of more than one pin.                                           *)
NoHistory == [unsaved |-> {}, remade |-> {}, doubled |-> FALSE,
              falls |-> [p \in Pins |-> 0], turns |-> 0, slips |-> 0, together |-> 0]

(* After a restart that was a while ago: some pins have been written since. *)
Written(m, values) ==
  LET after == [p \in Pins |-> IF p \in DOMAIN values
                               THEN WritePin(m, p, values[p]).machine ELSE m]
  IN  [m EXCEPT !.data = [p \in Pins |-> after[p].data[p]],
                !.out = [p \in Pins |-> after[p].out[p]]]

Init ==
  /\ world \in Worlds
  /\ store = world.store
  /\ machine = Written(Booted(store), world.written)
  /\ contacts = [p \in world.contacts |-> 1]
  /\ pending = {} /\ latch = NoLatch /\ reports = <<>>
  /\ sequencer = Stopped /\ posts = 0
  /\ left = world.left
  /\ history = NoHistory
-----------------------------------------------------------------------------
(* A command: a task like the others, that the interrupt is not over.      *)
Task == latch = NoLatch
Command == Task /\ left.commands > 0
Spent(field) == [left EXCEPT ![field] = @ - 1]
Elsewhere == UNCHANGED <<world, contacts, pending, latch, reports>>
NoSave == UNCHANGED <<store, history>>
NoSequencer == UNCHANGED <<sequencer, posts>>

(* A save that flash takes, or does not: nobody looks.  What becomes of a  *)
(* setting that is cut off for lack of room is in FlashStore.              *)
Save(p, entries, after) ==
  \/ /\ store' = [store EXCEPT ![p] = entries]
     /\ left' = Spent("commands")
     /\ history' = after
  \/ /\ left.losses > 0
     /\ store' = store
     /\ left' = [Spent("commands") EXCEPT !.losses = @ - 1]
     /\ history' = [after EXCEPT !.unsaved = @ \cup {p}]

(* A pin that is set up anew, by a mode or a flag: its output is off then, *)
(* but for the pins of the auxiliary device, and one that is disabled.     *)
SetUp(p, config) ==
  [machine EXCEPT
     !.config = config,
     !.out = IF p[1] = Aux \/ (p[1] = Gpio /\ config[p].llmode = "disabled") THEN @
             ELSE [@ EXCEPT ![p] = 0]]

io_mode ==
  /\ Command
  /\ \E cmd \in world.modes :
       LET p == cmd.pin
           out == Branch(p, machine.config, cmd)
       IN  /\ out.ok
           /\ machine' = SetUp(p, InForce(p, cmd, out))
           /\ Save(p, Saved(cmd, out),
                   [history EXCEPT
                      !.unsaved = @ \ {p},
                      !.remade = IF machine.config[p].suspended THEN @ \cup {p} ELSE @])
  /\ NoSequencer /\ Elsewhere

(* Without a flag the command saves the flags there are, as it does when   *)
(* it clears one that is not set.                                          *)
io_flag ==
  /\ Command
  /\ \E cmd \in world.flags :
       LET p == cmd.pin
           flags == IF cmd.on THEN machine.config[p].flags \cup {cmd.flag}
                    ELSE machine.config[p].flags \ {cmd.flag}
           config == [machine.config EXCEPT ![p].flags = flags]
       IN  /\ "pullup" \in flags => Can(p, "pullup")
           /\ init_pin_mode(p, config[p])
           /\ machine' = SetUp(p, config)
           /\ Save(p, Entry("flags", flags) ++ store[p], history)
  /\ NoSequencer /\ Elsewhere

(* The commands that save nothing; a read may reset what it reads.         *)
Commanded(m) ==
  /\ Command
  /\ machine' = m
  /\ left' = Spent("commands")
  /\ NoSave /\ NoSequencer /\ Elsewhere

io_trigger == \E t \in world.triggers : Commanded(io_trigger_pin(machine, t.pin, t.action))
io_write == \E w \in world.writes : Commanded(WritePin(machine, w.pin, w.value).machine)
io_read == \E p \in world.reads : Commanded(ReadPin(machine, p).machine)

Quiet(m, p) ==
  WritePin(io_trigger_pin(io_trigger_pin(m, p, "stop"), p, "off"), p, 0).machine
\* Seeded fault: suspended first, when nothing can switch it off any more.
io_suspend_first ==
  \E p \in world.suspends :
    Commanded(Quiet([machine EXCEPT !.config[p].suspended = TRUE], p))

io_suspend ==
  \E p \in world.suspends :
    Commanded([Quiet(machine, p) EXCEPT !.config[p].suspended = TRUE])
io_resume ==
  \E p \in world.suspends : Commanded([machine EXCEPT !.config[p].suspended = FALSE])

sequencer_start ==
  /\ Command
  /\ \E play \in world.plays :
       sequencer' = [Stopped EXCEPT !.start = play.start, !.current = play.start - 1,
                                    !.repeats = play.repeats]
  /\ left' = Spent("commands")
  /\ UNCHANGED <<machine, posts>> /\ NoSave /\ Elsewhere

sequencer_stop ==
  /\ Command
  /\ world.plays # {}
  /\ sequencer' = Stopped
  /\ left' = Spent("commands")
  /\ UNCHANGED <<machine, posts>> /\ NoSave /\ Elsewhere
-----------------------------------------------------------------------------
(* io_periodic_fast, in which no pin touches another.  The sequencer's     *)
(* task is posted at every tick between the end of an entry's time and the *)
(* task's turn.                                                            *)
Ticked ==
  LET after == [p \in Pins |-> PeriodicFast(machine, p, Rate)]
  IN  [machine EXCEPT !.data = [p \in Pins |-> after[p].data[p]],
                      !.out = [p \in Pins |-> after[p].out[p]]]

\* Seeded fault: whether or not the entry's time is over.
DueAlways(time) == sequencer.repeats > 0
Due(time) == sequencer.repeats > 0 /\ time < 0

Less(time) == IF time < Rate THEN -1 ELSE time - Rate

io_periodic_fast ==
  /\ Task
  /\ machine' = Ticked
  /\ LET time == Less(sequencer.left)
     IN  /\ sequencer' = [sequencer EXCEPT !.left = time]
         /\ posts' = IF Due(time) /\ posts < TaskQueueLength THEN posts + 1 ELSE posts
         /\ history' = [history EXCEPT !.doubled = @ \/ (Due(time) /\ posts > 0)]
  /\ UNCHANGED <<store, left>> /\ Elsewhere

(* sequencer_run: the entry after the current one, if there is one; if not *)
(* the program's start, as often as it is to be repeated.  A program that  *)
(* has been stopped since is at the entry before the first.                *)
Active(i) == i + 1 \in DOMAIN world.program

(* sequencer_run, of the entry there is.                                   *)
Playing(current, repeats) ==
  LET entry == world.program[current + 1]
  IN  /\ sequencer' = [sequencer EXCEPT !.current = current, !.repeats = repeats,
                                        !.left = entry.duration]
      /\ machine' = WritePin(machine, entry.pin, entry.value).machine

sequencer_run ==
  /\ Task
  /\ posts > 0
  /\ posts' = posts - 1
  /\ LET next == sequencer.current + 1
         again == sequencer.repeats - 1
     IN  \/ Active(next) /\ Playing(next, sequencer.repeats)
         \/ /\ ~Active(next) /\ again > 0 /\ Active(sequencer.start)
            /\ Playing(sequencer.start, again)
         \/ /\ ~Active(next) /\ (again <= 0 \/ ~Active(sequencer.start))
            /\ sequencer' = Stopped
            /\ UNCHANGED machine
  /\ history' = [history EXCEPT !.doubled = @ /\ posts > 1]
  /\ UNCHANGED <<store, left>> /\ Elsewhere
-----------------------------------------------------------------------------
(* An edge at an input that is counted is pending until the interrupt      *)
(* handler clears it.  The world's knob, if any, is two contacts.          *)
Turned(levels) ==
  IF world.knob = <<>> THEN 0
  ELSE LET Of(l) == [n \in 1 .. 2 |-> l[world.knob[n]]]
           turn == Turn(Of(contacts), Of(levels))
       IN  CASE turn = "up" -> 1 [] turn = "down" -> -1 [] OTHER -> 0

Edge ==
  /\ left.edges > 0
  /\ left' = Spent("edges")
  /\ \E p \in world.contacts :
       /\ machine.config[p].llmode = "counter"
       /\ contacts' = [contacts EXCEPT ![p] = 1 - @]
       /\ pending' = pending \cup {p}
       /\ history' = [history EXCEPT
            !.falls[p] = @ + contacts[p],
            !.turns = @ + Turned(contacts'),
            !.slips = IF p \in pending \/ latch # NoLatch THEN @ + 1 ELSE @]
  /\ UNCHANGED <<world, machine, store, latch, reports, sequencer, posts>>

(* pc_int_isr: the levels, then what has changed.                          *)
pc_int_read ==
  /\ latch = NoLatch /\ pending # {}
  /\ latch' = Level(contacts)
  /\ UNCHANGED <<world, machine, store, contacts, pending, reports, sequencer,
                 posts, left, history>>

pc_int_report ==
  /\ latch # NoLatch
  /\ pending' = {}
  /\ latch' = NoLatch
  /\ reports' = IF Len(reports) < TaskQueueLength
                THEN Append(reports, [status |-> pending, level |-> latch])
                ELSE reports
  /\ history' = [history EXCEPT
       !.slips = IF Len(reports) < TaskQueueLength THEN @ ELSE @ + Cardinality(pending),
       !.together = IF Cardinality(pending) > 1 THEN @ + 1 ELSE @]
  /\ UNCHANGED <<world, machine, store, contacts, sequencer, posts, left>>

io_gpio_pins_changed ==
  /\ Task
  /\ reports # <<>>
  /\ reports' = Tail(reports)
  /\ machine' = PinsChanged(machine, Head(reports).status, Head(reports).level,
                            world.alert)
  /\ UNCHANGED <<world, store, contacts, pending, latch, sequencer, posts, left, history>>
-----------------------------------------------------------------------------
Reboot ==
  /\ left.restarts > 0
  /\ left' = Spent("restarts")
  /\ machine' = Booted(store)
  /\ pending' = {} /\ latch' = NoLatch /\ reports' = <<>>
  /\ sequencer' = Stopped /\ posts' = 0
  /\ history' = NoHistory
  /\ UNCHANGED <<world, store, contacts>>

Next ==
  \/ io_mode \/ io_flag \/ io_trigger \/ io_write \/ io_read
  \/ io_suspend \/ io_resume \/ sequencer_start \/ sequencer_stop
  \/ io_periodic_fast \/ sequencer_run
  \/ Edge \/ pc_int_read \/ pc_int_report \/ io_gpio_pins_changed
  \/ Reboot

Spec == Init /\ [][Next]_vars

(* The fast timer comes round every 10 ms; the interrupt handler comes to  *)
(* its end.  Nobody has to give a command, or to turn a knob.              *)
FairSpec == Spec /\ WF_vars(io_periodic_fast) /\ WF_vars(pc_int_report)
-----------------------------------------------------------------------------
(* A restart changes no setting (io_init 1133-1465 against io_mode): what  *)
(* flash holds is at all times what memory holds, the mode and what        *)
(* belongs to it, and the flags if they were saved after the mode was (a   *)
(* mode deletes them in flash only).  A target that is not whole, or with  *)
(* no action, is not saved.  Of a mode the device cannot give the pin,     *)
(* memory forgets.  A pin of the serial port that is disabled is the       *)
(* port's again after a restart.  An 'a' and a 'b' pin that are each       *)
(* other's encoder find each other again, if flash holds no other pin that *)
(* can be taken for one of them.                                           *)
Aimed(t) ==
  IF t.io >= 0 /\ t.pin >= 0
  THEN [remote |-> IF t.remote >= 0 THEN t.remote ELSE None, io |-> t.io, pin |-> t.pin]
  ELSE NoTarget
Triggered(t) == IF t.action = "none" THEN NoTrigger ELSE t
Settings(c) ==
  CASE c.mode = "timer" -> [speed |-> c.speed, direction |-> c.direction]
    [] c.mode \in PwmModes -> [speed |-> c.speed, shared |-> c.shared]
    [] c.mode = "rotary_encoder" -> [type |-> c.shared.pin_type, target |-> Aimed(c.shared)]
    [] c.mode = "trigger" ->
         <<Triggered(c.shared.trigger[1]), Triggered(c.shared.trigger[2])>>
    [] c.mode \in {"i2c", "lcd"} -> c.shared
    [] OTHER -> <<>>

Survives(p, here, restored) ==
  \/ ~init_pin_mode(p, restored) /\ here.mode = "disabled"
  \/ /\ here.mode = restored.mode /\ here.llmode = restored.llmode
     /\ Settings(here) = Settings(restored)
     /\ "flags" \in DOMAIN store[p] => here.flags = restored.flags

Encoder(c) == c.mode = "rotary_encoder"
Paired(config, a, b) ==
  /\ a[1] = b[1] /\ Encoder(config[a]) /\ Encoder(config[b])
  /\ IsB(config[b].shared.pin_type)
  /\ config[a].shared.pin_type = AOf(config[b].shared.pin_type)
  /\ config[a].shared.partner = b[2] /\ config[b].shared.partner = a[2]
Alone(config, p) ==
  \A q \in Pins \ {p} :
    q[1] = p[1] /\ Encoder(config[q]) =>
      config[q].shared.pin_type # config[p].shared.pin_type

RestoredAgrees ==
  LET there == Restored(store)
      saved == Pins \ history.unsaved
  IN  /\ \A p \in saved :
           \/ p \in {<<Gpio, 1>>, <<Gpio, 3>>} /\ machine.config[p].mode = "disabled"
           \/ Survives(p, machine.config[p], there[p])
      /\ \A a, b \in saved :
           Paired(machine.config, a, b) /\ Alone(there, a) /\ Alone(there, b)
             => Paired(there, a, b)

(* A suspended output is off and stays off, whatever is written, triggered *)
(* or played (io_suspend 2967-2971), unless a mode it was given since took *)
(* over the blinking of one before.                                        *)
SuspendedStill ==
  \A p \in Pins \ history.remade :
    LET c == machine.config[p]
    IN  c.suspended /\ c.mode \in DrivenModes =>
          /\ machine.out[p] = 0
          /\ c.mode \in PwmModes \cup {"timer"} => machine.data[p].direction = "none"

(* A fade gets to its other end, to turn or to stop there (io_periodic_fast *)
(* 1817-1829, io_trigger_pin_x 774-833), but for two: down by more than is  *)
(* left above the lower bound, and up to a bound above the highest value.   *)
Stuck(p) ==
  LET c == machine.config[p]
  IN  \/ /\ machine.data[p].direction = "down" /\ "linear" \in c.flags
         /\ machine.out[p] > c.shared.lower /\ machine.out[p] < c.speed
      \/ machine.data[p].direction = "up" /\ c.shared.upper > MaxValue(c.llmode)
Movable ==
  {p \in UNION {DOMAIN w.store : w \in Worlds} :
     \E w \in Worlds : /\ p \in DOMAIN w.store /\ "mode" \in DOMAIN w.store[p]
                       /\ w.store[p]["mode"] \in PwmModes \cup {"timer"}}
Fades(p, direction) ==
  /\ p \in Pins /\ Fading(machine, p) /\ machine.data[p].direction = direction
  /\ ~machine.config[p].suspended
FadesTurn ==
  \A p \in Movable, direction \in {"up", "down"} :
    Fades(p, direction) ~> ~Fades(p, direction) \/ Stuck(p)

(* A timer that was started and does not repeat comes to rest at the level *)
(* of its direction (io_periodic_fast 1772-1815), unless it is given the   *)
(* other direction on its way.                                             *)
Blinks(p, direction) ==
  /\ p \in Pins /\ machine.config[p].mode = "timer"
  /\ machine.config[p].direction = direction
  /\ ~Flagged(machine, p, "repeat")
TimersRest ==
  \A p \in Movable, direction \in {"up", "down"} :
    Blinks(p, direction) /\ machine.data[p].direction = direction
      ~> \/ ~Blinks(p, direction)
         \/ machine.config[p].suspended
         \/ /\ machine.data[p].direction = "none"
            /\ machine.out[p] = Rest(machine.config[p])

(* An entry of the program is not cut short (io.c 1839, sequencer.c 373):  *)
(* while its time runs the sequencer's task is in the queue only if it was *)
(* posted twice.                                                           *)
EntriesLast ==
  sequencer.repeats > 0 /\ sequencer.left >= 0 => posts = 0 \/ history.doubled

(* Every falling edge is counted once (pc_int_isr 732-742, io_pin_changed  *)
(* 1591-1642), but for those that slip; one that comes between the reads   *)
(* of the interrupt handler may even be counted twice.  So it is for a     *)
(* counter that is not inverted and that nobody sets up, writes, plays,    *)
(* reads with a reset or suspends, whatever else the bridge is doing.      *)
Handled == pending = {} /\ latch = NoLatch /\ reports = <<>>
LeftAlone(p) ==
  /\ \A cmd \in world.modes \cup world.flags \cup world.writes : cmd.pin # p
  /\ \A i \in DOMAIN world.program : world.program[i].pin # p
  /\ p \notin world.suspends \cup DOMAIN world.written
  /\ Flagged(machine, p, "reset-on-read") => p \notin world.reads
Counted(p) ==
  /\ p \in world.contacts /\ LeftAlone(p)
  /\ machine.config[p].mode \in {"counter", "trigger"}
  /\ ~Flagged(machine, p, "invert")
CountsFalls ==
  \A p \in Pins :
    Handled /\ Counted(p) =>
      LET wrong == machine.data[p].value - history.falls[p]
      IN  wrong <= history.slips /\ -wrong <= history.slips

(* What a knob controls follows it (io_pin_changed 1644-1729): it is off   *)
(* by the first turn after a restart, when the levels before it are not    *)
(* known, and by the edges that slip or are reported together.             *)
Drift == 3
DriftBounded ==
  Handled /\ world.knob # <<>> =>
    LET wrong == machine.out[world.knobbed] - world.centre - history.turns
        allowed == Drift * (1 + history.slips + history.together)
    IN  wrong <= allowed /\ -wrong <= allowed
=============================================================================
