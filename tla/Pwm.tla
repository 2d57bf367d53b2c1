--------------------------------- MODULE Pwm ---------------------------------
(***************************************************************************)
(* The primary pwm outputs of io_gpio.c.  A task that changes a duty       *)
(* rebuilds one of two sets of phases (pwm_go); a timer interrupt that     *)
(* cannot be held off (an NMI) runs through the phases of the current set  *)
(* and changes to the other when it is told to (pwm_isr).  They share      *)
(* three one bit flags, kept in one word: writing one writes all three.    *)
(*                                                                         *)
(* At every cycle's start the pins that are active are set; each is        *)
(* cleared at the phase of its duty.  A delay too short for the timer is   *)
(* waited for inside the handler.                                          *)
(***************************************************************************)
EXTENDS Integers, FiniteSets, Sequences

CONSTANTS
  Pins,      \* the pins in pwm mode
  Duties,    \* that are written
  Periods,   \* 2 ^ pwm1_width
  Starts,    \* the duties that have been written before
  MaxWrites  \* of duties or of the width

ASSUME PwmAssumption ==
  /\ Pins \subseteq 0 .. 15 /\ Duties \subseteq Nat /\ MaxWrites \in Nat
  /\ Periods \subseteq {2 ^ n : n \in 6 .. 18} /\ Periods \subseteq Nat \ {0}
  /\ Starts \subseteq [Pins -> Nat]

MaxChannels == 4    \* io_gpio_pwm_max_channels
ShortDelay == 24    \* pwm_table_delay_size

VARIABLES
  duty, period,
  sets, current,       \* pwm_phase, pwm_current_phase_set
  flags,               \* io_gpio_flags: reset, next, enabled
  unmasked,            \* INT_ENABLE_TIMER0
  go, seen, target, word,   \* pwm_go: where it is, and what it has read
  phase, inside,       \* of pwm_isr, and whether it is still in its loop
  out,                 \* the pins that are on
  extend,              \* flag_pwm1_extend
  ticks, whole,        \* how long each pin was on in this cycle, if undisturbed
  writes

govars == <<go, seen, target, word>>
isrvars == <<phase, inside, out, ticks>>
vars == <<duty, period, sets, current, flags, unmasked, govars, isrvars, extend,
          whole, writes>>
-----------------------------------------------------------------------------
(* The set of phases for some duties: phase 0, and one for each duty, in   *)
(* order, that is not fully on or off.  There is room for four: of the     *)
(* fourth duty's pins only the first is kept.                              *)
Active(d) == {p \in Pins : d[p] > 0 /\ d[p] + 1 < period}
Below(d, p) == {d[q] : q \in {r \in Active(d) : d[r] < d[p]}}
Kept(d) ==
  {p \in Active(d) :
     \/ Cardinality(Below(d, p)) < MaxChannels - 1
     \/ /\ Cardinality(Below(d, p)) = MaxChannels - 1
        /\ \A q \in Active(d) : d[q] = d[p] => p <= q}

(* The delay after each phase: up to the next duty, or to the end.         *)
\* Seeded fault: the whole duty, not what is left of it.
WholeDelay(steps, i) == IF i = Len(steps) THEN period - 1 - steps[i] ELSE steps[i + 1]
Delay(steps, i) ==
  IF i = Len(steps) THEN period - 1 - steps[i]
  ELSE steps[i + 1] - (IF i = 0 THEN 0 ELSE steps[i])

\* The duties of a set in order.
Ascending(S) ==
  CHOOSE f \in [1 .. Cardinality(S) -> S] :
    \A i, j \in DOMAIN f : i < j => f[i] < f[j]

Built(d) ==
  LET kept == Kept(d)
      steps == Ascending({d[p] : p \in kept})
      one == {p \in kept : d[p] = 1}
  IN  [amount |-> IF kept = {} THEN 0 ELSE Len(steps) + 1,
       delay |-> IF kept = {} THEN <<>>
                 ELSE [i \in 0 .. Len(steps) |-> Delay(steps, i)],
       clear |-> [i \in 1 .. Len(steps) |-> {p \in kept : d[p] = steps[i]}],
       on |-> {p \in Pins : d[p] > 0 /\ d[p] + 1 >= period},
       off |-> {p \in Pins : d[p] = 0},
       all |-> kept, noduty1 |-> IF extend THEN kept \ one ELSE kept,
       duty1 |-> one, duty |-> d, done |-> TRUE]

Empty == [amount |-> 0, delay |-> <<>>, clear |-> <<>>, on |-> {}, off |-> {},
          all |-> {}, noduty1 |-> {}, duty1 |-> {},
          duty |-> [p \in Pins |-> 0], done |-> TRUE]

(* At first either the handler has nothing to do or is at the end of a     *)
(* cycle, or the bridge starts: init has built a set without pins, and     *)
(* masked the interrupt without telling the flags, and now the modes of    *)
(* the pins are set, all off.                                              *)
Rests ==
  /\ \E start \in Starts :
       duty = [p \in Pins |-> IF start[p] >= period THEN period - 1 ELSE start[p]]
  /\ sets = [n \in {0, 1} |-> IF n = 0 THEN Built(duty) ELSE Empty]
  /\ unmasked = (sets[0].amount > 0)
  /\ flags = [reset |-> FALSE, next |-> FALSE, enabled |-> unmasked]
  /\ out = sets[0].on
  /\ go = "idle"
init ==
  /\ duty = [p \in Pins |-> 0] /\ sets = [n \in {0, 1} |-> Empty]
  /\ unmasked = FALSE
  /\ flags = [reset |-> FALSE, next |-> FALSE, enabled |-> TRUE]
  /\ out = {}
  /\ go = "read"
Init ==
  /\ period \in Periods /\ extend \in BOOLEAN
  /\ Rests \/ init
  /\ current = 0 /\ phase = sets[0].amount /\ inside = FALSE
  /\ seen = FALSE /\ target = 0 /\ word = flags
  /\ ticks = [p \in Pins |-> 0] /\ whole = FALSE
  /\ writes = MaxWrites
-----------------------------------------------------------------------------
(* A task writes a duty, or changes the width, and calls pwm_go.           *)
Written ==
  /\ go = "idle" /\ ~inside /\ writes > 0
  /\ go' = "read"
  /\ writes' = writes - 1
  /\ UNCHANGED <<sets, current, flags, unmasked, seen, target, word, isrvars,
                 extend, whole>>
write_pin ==
  /\ Written
  /\ \E p \in Pins, d \in Duties :
       LET value == IF d >= period THEN period - 1 ELSE d
       IN  value # duty[p] /\ duty' = [duty EXCEPT ![p] = value]
  /\ UNCHANGED period
io_gpio_pwm1_width_set ==
  Written /\ period' \in Periods /\ UNCHANGED duty

Step(from, to) == go = from /\ ~inside /\ go' = to
NoIsr == UNCHANGED <<isrvars, extend, writes>>

pwm_go_read ==
  /\ Step("read", "off")
  /\ seen' = flags.enabled
  /\ UNCHANGED <<duty, period, sets, current, flags, unmasked, target, word, whole>> /\ NoIsr

pwm_go_off ==
  /\ Step("off", "choose")
  /\ unmasked' = FALSE
  /\ flags' = [flags EXCEPT !.enabled = FALSE]
  /\ UNCHANGED <<duty, period, sets, current, seen, target, word, whole>> /\ NoIsr

(* The current set, with the interrupt off, if the other is about to be    *)
(* used or nothing runs; or else the other one, with the interrupt on.     *)
\* Seeded fault: the other set, whether or not it is about to be used.
InPlaceIfOff == ~seen
InPlace == flags.next \/ ~seen

Clamped == [p \in Pins |-> IF duty[p] >= period THEN period - 1 ELSE duty[p]]
pwm_go_choose ==
  /\ Step("choose", "build")
  /\ target' = IF InPlace THEN current ELSE 1 - current
  /\ unmasked' = ~InPlace
  /\ flags' = [flags EXCEPT !.enabled = ~InPlace]
  /\ duty' = Clamped
  /\ sets' = [sets EXCEPT ![target'].done = FALSE]
  /\ UNCHANGED <<period, current, seen, word, whole>> /\ NoIsr

pwm_go_build ==
  /\ Step("build", IF target = current THEN "here" ELSE "load")
  /\ sets' = [sets EXCEPT ![target] = Built(duty)]
  /\ whole' = (whole /\ target # current)
  /\ UNCHANGED <<duty, period, current, flags, unmasked, seen, target, word>> /\ NoIsr

\* Seeded fault: without applying the pins that are fully on or off.
NotReset == [reset |-> FALSE, next |-> FALSE, enabled |-> TRUE]
Reset == [reset |-> TRUE, next |-> FALSE, enabled |-> TRUE]
pwm_go_here ==
  /\ Step("here", "idle")
  /\ flags' = Reset
  /\ unmasked' = TRUE
  /\ UNCHANGED <<duty, period, sets, current, seen, target, word, whole>> /\ NoIsr

(* reset = 0, then next = 1, each by reading and writing the word of flags. *)
Load(from, to) ==
  /\ Step(from, to)
  /\ word' = flags
  /\ UNCHANGED <<duty, period, sets, current, flags, unmasked, seen, target, whole>> /\ NoIsr
Store(from, to, value) ==
  /\ Step(from, to)
  /\ flags' = value
  /\ UNCHANGED <<duty, period, sets, current, unmasked, seen, target, word, whole>> /\ NoIsr
pwm_go_next ==
  \/ Load("load", "store") \/ Store("store", "load next", [word EXCEPT !.reset = FALSE])
  \/ Load("load next", "store next") \/ Store("store next", "idle", [word EXCEPT !.next = TRUE])
-----------------------------------------------------------------------------
(* pwm_isr: one time through its loop.                                     *)
Ready == inside \/ (unmasked /\ flags.enabled)
Unbuilt == UNCHANGED <<duty, period, sets, govars, extend, writes>>
Begins == phase >= sets[current].amount \/ phase = 0
Applies == flags.reset \/ flags.next
Next0 == IF flags.next THEN 1 - current ELSE current
Static(s, pins) == IF Applies THEN (pins \cup s.on) \ s.off ELSE pins

(* At the start of a cycle: nothing to do ...                              *)
pwm_isr_static ==
  /\ Ready /\ Begins
  /\ LET s == sets[Next0]
     IN  /\ s.amount < 2
         /\ out' = Static(s, out)
  /\ current' = Next0
  /\ flags' = [reset |-> FALSE, next |-> FALSE, enabled |-> FALSE]
  /\ unmasked' = FALSE
  /\ phase' = 0 /\ inside' = FALSE
  /\ UNCHANGED <<ticks, whole>> /\ Unbuilt

Waited(delay) == IF delay < 2 THEN 0 ELSE delay
Wait(s, ph, before) ==
  /\ ticks' = [p \in Pins |-> before[p] + IF p \in out' THEN Waited(s.delay[ph]) ELSE 0]
  /\ phase' = ph + 1
  /\ inside' = (s.delay[ph] < ShortDelay)

(* ... or all pins on, but for those of duty 1 seven times out of eight if *)
(* they are extended (which times is left open); these are cleared at once.*)
pwm_isr_begin ==
  /\ Ready /\ Begins
  /\ LET s == sets[Next0]
     IN  /\ s.amount >= 2
         /\ \E set \in {s.all, s.noduty1} :
              out' = (Static(s, out) \cup set) \ s.duty1
         /\ Wait(s, 0, [p \in Pins |-> 0])
  /\ current' = Next0
  /\ flags' = [flags EXCEPT !.reset = FALSE, !.next = FALSE]
  /\ whole' = TRUE
  /\ UNCHANGED unmasked /\ Unbuilt

(* And later the pins of the phase off.                                    *)
pwm_isr_phase ==
  /\ Ready /\ ~Begins
  /\ out' = out \ sets[current].clear[phase]
  /\ Wait(sets[current], phase, ticks)
  /\ UNCHANGED <<current, flags, unmasked, whole>> /\ Unbuilt

pwm_go ==
  \/ pwm_go_read \/ pwm_go_off \/ pwm_go_choose \/ pwm_go_build
  \/ pwm_go_here \/ pwm_go_next
pwm_isr == pwm_isr_static \/ pwm_isr_begin \/ pwm_isr_phase

Next == write_pin \/ io_gpio_pwm1_width_set \/ pwm_go \/ pwm_isr

(* The timer runs; a task goes on whenever the handler is out, as it is    *)
(* again and again for as long as it returns.                              *)
Spec == Init /\ [][Next]_vars
FairSpec == Spec /\ SF_vars(pwm_go) /\ WF_vars(pwm_isr)
-----------------------------------------------------------------------------
(* The handler never uses a set that is being built (pwm_go 563-572): not  *)
(* the current one, and not the one it is told to change to.               *)
WholeSets ==
  Ready => sets[current].done /\ (flags.next => sets[Next0].done)

(* In a cycle of a set that was not rebuilt meanwhile every pin is on for  *)
(* its duty (pwm_go 600-706, pwm_isr 497-530), less a tick for every step  *)
(* of one on the way, which is not waited for.                             *)
CycleExact ==
  LET s == sets[current]
      Missed(p) == {i \in DOMAIN s.delay : s.delay[i] = 1 /\
                      \E j \in DOMAIN s.clear : i < j /\ p \in s.clear[j]}
  IN  whole /\ s.done /\ s.amount > 0 /\ phase = s.amount =>
        \A p \in s.all : ticks[p] = s.duty[p] - Cardinality(Missed(p))

(* What is written last is shown (io_gpio.c 542-723), but for two cases:   *)
(* the handler ended, with nothing to do, while the other set was built,   *)
(* and nobody starts it to change to that (Stranded, until the next        *)
(* write); or all the delays of the set are short, and the handler never   *)
(* ends (Endless, with a narrow width).                                    *)
Shown ==
  /\ go = "idle" /\ ~flags.next /\ ~flags.reset
  /\ sets[current] = Built(duty)
  /\ sets[current].on \subseteq out /\ sets[current].off \cap out = {}
  /\ unmasked = (sets[current].amount >= 2)
Stranded == go = "idle" /\ flags.next /\ ~unmasked /\ sets[current].amount < 2
Endless ==
  /\ inside /\ sets[current].amount > 0
  /\ \A i \in DOMAIN sets[current].delay : sets[current].delay[i] < ShortDelay
DutiesReachPins == <>[](Shown \/ Stranded \/ Endless)
=============================================================================
