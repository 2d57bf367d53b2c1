----------------------------- MODULE FlashStore -----------------------------
(***************************************************************************)
(* Everything the program keeps in flash, and the one sector buffer it all *)
(* goes through: the configuration (config.c), the two mirrors of the      *)
(* sequencer's program (sequencer.c), the boot configuration               *)
(* (rboot-interface.c) and the pictures of the display (display.c).        *)
(*                                                                         *)
(* The buffer (util.c) has a user, and a user can claim it for himself.    *)
(* When the configuration is done with it the buffer is left as a cache of *)
(* the configuration's sector, for whoever comes next to take over.        *)
(*                                                                         *)
(* A task is not preempted, so a command has the program to itself; what   *)
(* can come between its steps is a failure of the flash or of the power.   *)
(* A sector is erased and then written, two steps here.  One sector stands *)
(* for the four a mirror consists of: the one with the header, which is    *)
(* rewritten with the entries it shares the sector with.                   *)
(***************************************************************************)
EXTENDS Integers, Sequences, FiniteSets, SequencesExt

CONSTANTS
  Name, Value, Absent,   \* settings, as in ConfigStore
  Long,                  \* the values that take twice the room of others
  Capacity,              \* the number of settings that fit, long ones twice
  Slot, Entry,           \* the sequencer's slots, 1 .. n, and what is in them
  PictureSectors,        \* the number of sectors of a picture
  FaultBound             \* bound: how often rewriting a sector is cut short

ASSUME FlashStoreAssumption ==
  /\ Absent \notin Value /\ Long \subseteq Value
  /\ {Capacity, PictureSectors} \subseteq Nat \ {0} /\ FaultBound \in Nat
  /\ IsFiniteSet(Slot) /\ Slot = 1 .. Cardinality(Slot)

VARIABLES
  use,          \* flash_sector_buffer_use
  pvt,          \* flash_sector_buffer_private
  ram,          \* the buffer
  flash,        \* what each sector holds
  pc,           \* what the command being run is about to do
  caller,       \* how the caller of config_open_write handles failures
  job,          \* what is being rewritten: sector, entry, what it held
  valid,        \* sequencer.flash_valid
  picture,      \* sectors loaded by the picture worker, -1 when idle
  old,          \* history: the configuration a write is replacing
  interrupted,  \* history: a sequencer update was cut short
  faults,       \* bound: how often a rewrite was
  abandoned     \* history: wlan-ap-configure has left the buffer claimed

buffer == <<use, pvt, ram>>
history == <<old, interrupted, faults>>
steps == <<buffer, flash, pc, caller, job, valid, picture, history>>
vars == <<steps, abandoned>>

Sector == {"config", "sequencer0", "sequencer1", "rboot"}
Mirror == {"sequencer0", "sequencer1"}
Use == {"free", "config_write", "config_write_dirty", "config_cache",
        "sequencer", "display_picture", "rboot"}

(* The contents of a sector or of the buffer.  `magic' is whether it       *)
(* starts as it should.  A configuration is a sequence of settings; it     *)
(* ends in an empty "line", in a "nul" where a setting did not fit, or in  *)
(* "none" of the two, and then its end can't be found.                     *)
Erased == [magic |-> FALSE, data |-> << >>, end |-> "none"]
EmptyConfig == [magic |-> TRUE, data |-> << >>, end |-> "line"]
Cleared == [magic |-> TRUE, data |-> [i \in Slot |-> Absent], end |-> "none"]
Boot == [magic |-> TRUE, data |-> << >>, end |-> "none"]

\* An entry of the sequencer in a sector that was erased.
Blank == "blank"

\* What may be found in a sector after writing c to it was cut short.
Torn(c) ==
  {Erased, c} \cup {[c EXCEPT !.data = SubSeq(c.data, 1, k), !.end = "none"] :
                      k \in 0 .. Len(c.data)}

NoJob == [sector |-> "config", entry |-> 0, held |-> Erased]
-----------------------------------------------------------------------------
Init ==
  /\ use = "free" /\ pvt = FALSE /\ ram = Erased
  /\ flash = [s \in Sector |->
                CASE s = "config" -> EmptyConfig
                  [] s = "rboot" -> Boot
                  [] OTHER -> Cleared]
  /\ pc = "idle" /\ caller = "careful" /\ job = NoJob
  /\ valid = TRUE
  /\ picture = -1
  /\ old = EmptyConfig
  /\ interrupted = FALSE /\ faults = 0 /\ abandoned = FALSE
-----------------------------------------------------------------------------
(* The buffer (util.c).                                                    *)

\* A request of the buffer by u succeeds.
Available(u) == use \in {"free", u} \/ ~pvt

Take(u, private, content) == use' = u /\ pvt' = private /\ ram' = content

\* Seeded fault: the buffer is left as it is.
FaultyRelease == UNCHANGED buffer

\* Whatever is left in a buffer that was released, Erased stands for it:
\* nobody may rely on it.
Release == use' = "free" /\ pvt' = FALSE /\ ram' = Erased
-----------------------------------------------------------------------------
(* The configuration (config.c).                                           *)

\* The buffer after reading c: without the magic it is cleared.
Loaded(c) == IF c.magic THEN c ELSE EmptyConfig

\* Seeded fault: whatever is in the buffer is taken for the configuration.
FaultyFresh == Loaded(ram)

\* What config_open_read finds in the buffer.
Fresh == Loaded(IF use = "config_cache" THEN ram ELSE flash["config"])

\* The sector need not be read, or reading it has failed.
Unreadable == use # "config_cache" /\ Release

\* config_get_string: the buffer becomes a cache of the configuration.
config_get_string ==
  /\ pc = "idle"
  /\ Available("config_read")
  /\ Take("config_cache", FALSE, Fresh) \/ Unreadable
  /\ UNCHANGED <<flash, pc, caller, job, valid, picture, history>>

Dirty == use = "config_write_dirty"
InSession == use \in {"config_write", "config_write_dirty"}

\* Seeded fault: only a session without changes is ended.
FaultyAbort ==
  IF use = "config_write" THEN Take("config_cache", FALSE, ram)
                          ELSE UNCHANGED buffer

\* config_abort_write: unsaved changes are forgotten with the buffer.
Abort ==
  CASE use = "config_write" -> Take("config_cache", FALSE, ram)
    [] Dirty -> Release
    [] OTHER -> UNCHANGED buffer

(* config_open_write, by four kinds of callers.  When it fails a careful   *)
(* one returns, an aborting one calls config_abort_write (and is like a     *)
(* careful one from there), and a blind one does not notice; "ap" is the   *)
(* command wlan-ap-configure.                                              *)
Idle == pc' = "idle" /\ caller' = "careful"

Caller == {"careful", "aborting", "blind", "ap"}

config_open_write(c) ==
  /\ pc = "idle"
  /\ \/ /\ Available("config_read")
        /\ Take("config_write", TRUE, Fresh)
        /\ pc' = "session"
        /\ caller' = IF c = "aborting" THEN "careful" ELSE c
     \/ /\ \/ Available("config_read") /\ Unreadable
           \/ /\ ~Available("config_read")
              /\ IF c = "aborting" THEN Abort ELSE UNCHANGED buffer
        /\ IF c = "blind" THEN pc' = "session" /\ caller' = c ELSE Idle
  /\ UNCHANGED <<flash, job, valid, picture, history>>

\* The settings in data that are in S, in their order.
Keep(data, S) ==
  LET f[k \in 0 .. Len(data)] ==
        IF k = 0 THEN << >>
        ELSE IF data[k] \in S THEN Append(f[k - 1], data[k]) ELSE f[k - 1]
  IN  f[Len(data)]

\* Seeded fault: with a setting everything behind it is deleted.
FaultyWithout(data, names) ==
  SubSeq(data, 1, Min({Len(data)} \cup {k - 1 : k \in {i \in DOMAIN data : data[i][1] \in names}}))

\* config_delete: what names leaves of the settings.
Without(data, names) == Keep(data, (Name \ names) \X Value)

\* The room that settings take.
Used(data) == Len(data) + Len(Keep(data, Name \X Long))

(* A setting replaces the one of the same name and goes to the end of the  *)
(* configuration.  What does not fit is cut off, with a nul; the end of a  *)
(* configuration with a nul in it is taken to be right after the magic,    *)
(* which the next setting spoils; without an end nothing is added.         *)
With(c, n, v) ==
  LET rest == [c EXCEPT !.data = Without(@, {n})]
      more == Append(rest.data, <<n, v>>)
  IN  CASE c.end = "line" /\ Used(more) <= Capacity -> [rest EXCEPT !.data = more]
        [] c.end = "line" /\ Used(more) > Capacity -> [rest EXCEPT !.end = "nul"]
        [] c.end = "nul" ->
             [magic |-> FALSE, data |-> << >>, end |-> "line"]
        [] OTHER -> rest

config_set_string(n, v) ==
  /\ pc = "session" /\ InSession
  /\ Take("config_write_dirty", TRUE, With(ram, n, v))
  /\ UNCHANGED <<flash, pc, caller, job, valid, picture, history>>

\* config_delete, also of all names that start alike.
config_delete(names) ==
  /\ pc = "session" /\ InSession
  /\ LET rest == Without(ram.data, names)
     IN  Take(IF rest = ram.data THEN use ELSE "config_write_dirty", TRUE,
              [ram EXCEPT !.data = rest])
  /\ UNCHANGED <<flash, pc, caller, job, valid, picture, history>>

\* A caller finds a fault in what it is asked to set.
config_abort_write ==
  /\ pc = "session" /\ caller = "careful"
  /\ Abort
  /\ Idle
  /\ UNCHANGED <<flash, job, valid, picture, history>>

\* wlan-ap-configure calls config_open_write again instead of closing, and
\* returns when that fails.
ReopenAp ==
  /\ pc = "session" /\ caller = "ap" /\ Dirty
  /\ Idle
  /\ UNCHANGED <<buffer, flash, job, valid, picture, history>>

\* What config_close_write makes of the buffer: everything after the end is
\* filled up, which is all there is when a nul was found.
Final(c) ==
  IF c.end = "nul" THEN [c EXCEPT !.data = << >>, !.end = "none"] ELSE c

(* config_close_write.  Unchanged, the buffer is a cache again; otherwise  *)
(* it is filled up and the sector rewritten.                               *)
config_close_write ==
  /\ pc = "session" /\ caller # "ap"
  /\ \/ /\ use = "config_write"
        /\ Take("config_cache", FALSE, ram)
        /\ Idle
        /\ UNCHANGED <<job, old>>
     \/ /\ Dirty /\ ram.end # "none"
        /\ Take(use, TRUE, Final(ram))
        /\ pc' = "erase" /\ caller' = "careful"
        /\ job' = NoJob
        /\ old' = Loaded(flash["config"])
     \/ /\ ~InSession
        /\ Idle
        /\ UNCHANGED <<buffer, job, old>>
  /\ UNCHANGED <<flash, valid, picture, interrupted, faults>>
-----------------------------------------------------------------------------
(* The other users of the buffer.                                          *)

\* Seeded fault: the sector is not read before it is rewritten.
FaultyUpdated(s, i, v) ==
  [Cleared EXCEPT !.data[i] = v]

\* The sector of mirror s with entry i changed.
Updated(s, i, v) ==
  LET c == flash[s]
  IN  [c EXCEPT !.data = [k \in Slot |-> IF k = i THEN v
                                         ELSE IF k <= Len(@) THEN @[k] ELSE Blank]]

(* sequencer_set_entry and _remove_entry (entry i), and sequencer_clear    *)
(* (entry 0), begin with mirror 0.                                         *)
UpdateSequencer(i, v) ==
  /\ pc = "idle"
  /\ i # 0 => valid
  /\ Available("sequencer")
  /\ \/ /\ Take("sequencer", TRUE,
                IF i = 0 THEN Cleared ELSE Updated("sequencer0", i, v))
        /\ pc' = "erase"
        /\ job' = [sector |-> "sequencer0", entry |-> i,
                   held |-> flash["sequencer0"]]
     \/ i # 0 /\ Release /\ UNCHANGED <<pc, job>>     \* reading failed
  /\ UNCHANGED <<flash, caller, valid, picture, history>>

\* rboot_if_write_config; what is in there already is not written again.
rboot_if_write_config ==
  /\ pc = "idle"
  /\ Available("rboot")
  /\ \/ /\ Take("rboot", TRUE, Boot)
        /\ pc' = "erase"
        /\ job' = [sector |-> "rboot", entry |-> 0, held |-> flash["rboot"]]
     \/ Release /\ UNCHANGED <<pc, job>>
  /\ UNCHANGED <<flash, caller, valid, picture, history>>

display_load_picture_slot ==
  /\ pc = "idle" /\ picture = -1
  /\ picture' = 0
  /\ UNCHANGED <<buffer, flash, pc, caller, job, valid, history>>

(* display_picture_load_worker: one sector; when the buffer is taken, it   *)
(* is tried again later.  It runs as the task that it posts, or, where the *)
(* queue refused that (display.c:149, 301), from the periodic update of    *)
(* the display, "fallback for missed task posts" (display.c:464).          *)
display_picture_load_worker ==
  /\ pc = "idle" /\ picture # -1
  /\ IF Available("display_picture")
       THEN /\ Release
            /\ picture' \in {-1} \cup
                 (IF picture + 1 < PictureSectors THEN {picture + 1} ELSE {})
       ELSE UNCHANGED <<buffer, picture>>
  /\ UNCHANGED <<flash, pc, caller, job, valid, history>>
-----------------------------------------------------------------------------
(* Rewriting a sector, and what can go wrong with it.                      *)

\* A command is done; what it has kept is of no use any more.
Done == Idle /\ job' = NoJob /\ old' = EmptyConfig

CutShort ==
  /\ faults < FaultBound /\ faults' = faults + 1
  /\ interrupted' = (interrupted \/ job.sector \in Mirror)

Fail ==
  /\ CutShort
  /\ Release
  /\ Done
  /\ UNCHANGED <<valid, picture>>

Erase ==
  /\ pc = "erase"
  /\ flash' = [flash EXCEPT ![job.sector] = Erased]
  /\ pc' = "write"
  /\ UNCHANGED <<buffer, caller, job, valid, picture, history>>

EraseFails ==
  /\ pc = "erase"
  /\ \E c \in {Erased, flash[job.sector]} : flash' = [flash EXCEPT ![job.sector] = c]
  /\ Fail

\* Seeded fault: only the first mirror is written.
FaultyAfterWrite ==
  /\ Done /\ UNCHANGED <<valid, interrupted>>
  /\ IF job.sector = "config" THEN Take("config_cache", FALSE, ram) ELSE Release

(* What follows a write that has succeeded: the configuration becomes the  *)
(* cache, the sequencer goes on with mirror 1, and after clearing it looks *)
(* at the header again.                                                    *)
AfterWrite ==
  CASE job.sector = "config" ->
         /\ Take("config_cache", FALSE, ram)
         /\ Done
         /\ UNCHANGED <<valid, interrupted>>
    [] job.sector = "sequencer0" ->
         /\ Take("sequencer", TRUE,
                 IF job.entry = 0 THEN Cleared
                 ELSE Updated("sequencer1", job.entry, ram.data[job.entry]))
         /\ pc' = "erase" /\ UNCHANGED caller
         /\ job' = [job EXCEPT !.sector = "sequencer1",
                               !.held = flash["sequencer1"]]
         /\ UNCHANGED <<valid, interrupted, old>>
    [] job.sector = "sequencer1" ->
         /\ Release
         /\ Done
         /\ valid' = (valid \/ job.entry = 0)
         /\ interrupted' = (interrupted /\ job.entry # 0)
    [] job.sector = "rboot" ->
         /\ Release
         /\ Done
         /\ UNCHANGED <<valid, interrupted>>

Write ==
  /\ pc = "write"
  /\ flash' = [flash EXCEPT ![job.sector] = ram]
  /\ AfterWrite
  /\ UNCHANGED <<picture, faults>>

\* Writing fails, or what is read back differs.
WriteFails ==
  /\ pc = "write"
  /\ \E c \in Torn(ram) : flash' = [flash EXCEPT ![job.sector] = c]
  /\ Fail

\* The second mirror can't be read.
ReadFails ==
  /\ pc = "erase" /\ job.sector = "sequencer1" /\ job.entry # 0
  /\ Fail
  /\ UNCHANGED flash

(* The program starts again, from whatever is in flash; sequencer_init     *)
(* looks at the mirror of the image that is run.                           *)
Restart(content) ==
  /\ flash' = content
  /\ Release
  /\ Done
  /\ \E s \in Mirror : valid' = content[s].magic
  /\ picture' = -1

PowerLoss ==
  \/ /\ pc \in {"idle", "session"}
     /\ Restart(flash)
     /\ UNCHANGED <<interrupted, faults>>
  \/ /\ pc = "erase"
     /\ CutShort
     /\ Restart(flash)
  \/ /\ pc = "write"
     /\ CutShort
     /\ \E c \in Torn(ram) : Restart([flash EXCEPT ![job.sector] = c])

(* config_close_write when the end of the configuration can't be found:    *)
(* the fill has a negative length, which takes it through all of memory.   *)
Overrun ==
  /\ pc = "session" /\ caller # "ap"
  /\ Dirty /\ ram.end = "none"
  /\ Restart(flash)
  /\ UNCHANGED <<interrupted, faults>>
-----------------------------------------------------------------------------
Step ==
  \/ config_get_string
  \/ \E c \in Caller : config_open_write(c)
  \/ \E n \in Name, v \in Value : config_set_string(n, v)
  \/ \E names \in (SUBSET Name) \ {{}} : config_delete(names)
  \/ config_abort_write \/ config_close_write
  \/ \E i \in Slot \cup {0}, v \in Entry \cup {Absent} : UpdateSequencer(i, v)
  \/ rboot_if_write_config
  \/ display_load_picture_slot \/ display_picture_load_worker
  \/ Erase \/ EraseFails \/ Write \/ WriteFails \/ ReadFails
  \/ PowerLoss \/ Overrun

Next ==
  \/ Step /\ abandoned' = (abandoned /\ pvt')
  \/ ReopenAp /\ abandoned' = TRUE

Spec == Init /\ [][Next]_vars

\* A command goes on to its end: it makes only so many calls before it ends
\* its session, and the flash answers.
GoOn ==
  \/ Erase \/ EraseFails \/ Write \/ WriteFails
  \/ config_close_write \/ config_abort_write \/ ReopenAp \/ Overrun
  \/ /\ caller = "ap" /\ ~Dirty
     /\ \E n \in Name, v \in Value : config_set_string(n, v)

\* The task queue, or the periodic update of the display, gives the worker its
\* turn, also between other commands.
FairSpec ==
  /\ Spec
  /\ WF_steps(GoOn)
  /\ SF_steps(display_picture_load_worker)
-----------------------------------------------------------------------------
Settings(c) ==
  [n \in Name |->
     LET found == Keep(c.data, {n} \X Value)
     IN  IF found = << >> THEN Absent ELSE found[1][2]]

IsConfig(c) ==
  /\ c.magic \in BOOLEAN /\ c.end \in {"line", "nul", "none"}
  /\ Used(c.data) <= Capacity
  /\ \A k \in DOMAIN c.data : c.data[k] \in Name \X Value

IsMirror(c) ==
  /\ c.magic \in BOOLEAN
  /\ Len(c.data) <= Cardinality(Slot)
  /\ \A k \in DOMAIN c.data : c.data[k] \in Entry \cup {Absent, Blank}

TypeOK ==
  /\ use \in Use /\ pvt \in BOOLEAN
  /\ InSession \/ use = "config_cache" => IsConfig(ram)
  /\ IsConfig(flash["config"])
  /\ \A s \in Mirror : IsMirror(flash[s])
  /\ pc \in {"idle", "session", "erase", "write"}
  /\ caller \in Caller
  /\ job.sector \in Sector /\ job.entry \in Slot \cup {0}
  /\ {valid, interrupted, abandoned} \subseteq BOOLEAN
  /\ faults \in 0 .. FaultBound
  /\ picture \in -1 .. PictureSectors - 1

(* What is taken for a cache of the configuration is what reading the      *)
(* sector would give, whoever has used the buffer or rewritten the sector  *)
(* in between (config_open_read does not read again when it finds a cache).*)
CacheCoherent ==
  use = "config_cache" => Loaded(ram) = Loaded(flash["config"])

(* A claim to the buffer ends with the command that made it, or nobody     *)
(* else ever gets the buffer; wlan-ap-configure, which opens a second time *)
(* where it should close, is the exception.                                *)
PrivateKept == pc = "idle" /\ pvt => abandoned

(* Unless an update was cut short the two mirrors hold the same program,   *)
(* so that it does not matter which image is booted (sequencer.c keeps one *)
(* in the half of the flash of each), and the program is taken for valid   *)
(* only with its header in place.                                          *)
MirrorsAgree ==
  pc = "idle" /\ ~interrupted =>
    /\ flash["sequencer0"] = flash["sequencer1"]
    /\ valid /\ flash["sequencer0"].magic

(* Rewriting a sector for one entry of the sequencer leaves every other    *)
(* entry in it what it was, or erased.                                     *)
KeepsOtherEntries ==
  [][pc = "write" /\ job.sector \in Mirror /\ job.entry # 0 =>
       LET new == flash'[job.sector].data
       IN  \A k \in DOMAIN new \ {job.entry} :
             new[k] \in {Blank, IF k \in DOMAIN job.held.data
                                  THEN job.held.data[k] ELSE Blank}]_vars

(* The configuration is what ConfigStore says.  While its sector is being  *)
(* rewritten it still counts as the old one, since until then nothing but  *)
(* a failure or a restart could show the difference.  What a session will  *)
(* make of it is what closing it would write and reading would find, and   *)
(* nothing when its end can't be found.                                    *)
Writing == pc \in {"erase", "write"} /\ job.sector = "config"

Stored == Settings(IF Writing THEN old ELSE Loaded(flash["config"]))

Open == Writing \/ InSession

Draft ==
  IF Writing \/ (InSession /\ ram.end # "none")
    THEN Settings(Loaded(Final(ram)))
    ELSE Settings(Loaded(flash["config"]))

Store == INSTANCE ConfigStore WITH
  store <- Stored, session <- Open, draft <- Draft

ImplementsConfigStore == Store!Spec

(* Store!Spec would not miss a setting that has no effect at all.  When    *)
(* there is room a setting is found with its new value afterwards, in      *)
(* front of any other of its name (config_get_string takes the first), and *)
(* the others are what they were.                                          *)
SetsWhatIsAsked ==
  [][pc' = "session" /\ ram.magic /\ ram.end = "line" =>
       \A n \in Name, v \in Value : config_set_string(n, v) =>
         \/ Settings(ram') = [Settings(ram) EXCEPT ![n] = v]
         \/ ram'.end = "nul"]_vars

(* A rewrite has the effect it was asked for and no other, in the program  *)
(* (sequencer.c 149-217) and in the configuration (config.c 415-450).      *)
RewritesExactly == KeepsOtherEntries /\ SetsWhatIsAsked

(* config.c:119: "config sector should end at \n\n".                       *)
EndsInEmptyLine == pc = "write" /\ job.sector = "config" => ram.end = "line"

(* A picture that is being loaded is done, or given up, in the end, even   *)
(* though it must wait for a buffer that others claim (display.c:188).     *)
PictureEnds == (picture # -1) ~> (picture = -1 \/ abandoned)
=============================================================================
