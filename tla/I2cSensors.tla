---------------------------- MODULE I2cSensors ----------------------------
(* The i2c sensors of i2c_sensor.c: the periodic task that looks for every   *)
(* device of the table on every bus, one row at a time, then initialises     *)
(* what it found, one sensor at a time, and from then on gives each sensor   *)
(* its turn in the background, round after round with a second in between;   *)
(* and the user's reads, which may come at any moment of that.               *)
(*                                                                           *)
(* The sensors plugged in are the environment.  A device answers the         *)
(* identification its own driver asks for, refuses what that driver wants    *)
(* refused, and acknowledges anything else, with contents no driver looks    *)
(* for; the ones on bus 0 are in front of the multiplexer and are seen from  *)
(* every bus.  A fault is a transaction that comes out the wrong way.        *)
EXTENDS SensorScripts, Integers, FiniteSets

CONSTANTS device_table, \* its rows, as SensorTable gives them
          Worlds,   \* what may be plugged in, and how many faults there may be
          Buses,    \* 9 with the multiplexer, 1 without
          Entries   \* i2c_sensor_data_entries, 28

Rows == 1 .. Len(device_table)

(* The quantities of a device follow its primary in the table and name it,   *)
(* and no row is there twice.                                                *)
ASSUME SensorsAssumption ==
    /\ Buses \in 1 .. 9 /\ Entries \in Nat \ {0, 1}
    /\ \A w \in Worlds : w.faults \in Nat
    /\ Len(device_table) \in Nat \ {0}
    /\ \A r \in Rows : \A q \in r + 1 .. Len(device_table) :
         device_table[r].id # device_table[q].id
    /\ \A r \in Rows : LET family == device_table[r].family
                       IN  \A i \in DOMAIN family : \E q \in r + 1 .. Len(device_table) :
                             /\ device_table[q].id = family[i]
                             /\ device_table[q].primary = device_table[r].id
    /\ \A r \in Rows : device_table[r].id # "none"
    /\ \A r \in Rows : device_table[r].primary # "none" =>
         /\ device_table[r].family = <<>>
         /\ \E p \in 1 .. r - 1 : /\ device_table[p].id = device_table[r].primary
                                  /\ device_table[p].primary = "none"

RowOf(id) == CHOOSE r \in Rows : device_table[r].id = id
IsPrimary(r) == device_table[r].primary = "none"

VARIABLES world,    \* [plugged: a set of devices, faults: how many there may be]
          faults,   \* what is left of them
          phase,    \* "detect", "init", "run": detect_finished and init_finished
          current,  \* the row or the sensor whose turn it is, from 1
          bus,      \* detect_current_bus
          sensors,  \* i2c_sensor_data, as far as it is in use: [bus, row]
          inited,   \* the outcome of each sensor's init function
          pause,    \* next_background_run lies ahead
          answer    \* what the read just done told the user

vars == <<world, faults, phase, current, bus, sensors, inited, pause, answer>>

Outcomes == {"no", "ok", "failed", "skipped"}

TypeOK == /\ world \in Worlds /\ faults \in 0 .. world.faults
          /\ phase \in {"detect", "init", "run"}
          /\ phase = "detect" => current \in Rows
          /\ phase # "detect" => current \in 1 .. Len(sensors) + 1
          /\ bus \in 0 .. Buses - 1
          /\ sensors \in Seq([bus : 0 .. Buses - 1, row : Rows]) /\ Len(sensors) < Entries
          /\ inited \in Seq(Outcomes) /\ Len(inited) = Len(sensors)
          /\ pause \in BOOLEAN
          /\ answer \in {"none", "unknown", "error", "not yet", "ok"}

sensor_data_get_entry(b, r) == \E i \in DOMAIN sensors : sensors[i] = [bus |-> b, row |-> r]
i2c_sensor_registered(b, id) == b < Buses /\ sensor_data_get_entry(b, RowOf(id))
i2c_sensor_address_registered(b, address) ==
    \E i \in DOMAIN sensors : /\ sensors[i].bus = b
                              /\ device_table[sensors[i].row].address = address

(***************************************************************************)
(* The devices.                                                            *)
(***************************************************************************)
Script(r) == device_table[r].detect
Addresses(r) == {device_table[r].address}
                  \cup {Script(r)[i].at : i \in {j \in DOMAIN Script(r) : Script(r)[j].at # ""}}
                  \cup {device_table[RowOf(id)].address : id \in {device_table[r].family[i] : i \in DOMAIN device_table[r].family}}

Personality(r) == device_table[r].detect \o device_table[r].init

(* The device of row r on bus b: it goes by its addresses, and knows what    *)
(* the functions of its driver want from it.                                 *)
Device(b, r, variant) ==
    [bus |-> b, row |-> r, variant |-> variant, addresses |-> Addresses(r), knows |-> Personality(r)]

(* Seen at an address with the multiplexer switched to bus b.                *)
Seen(w, b, address) == {d \in w.plugged : d.bus \in {0, b} /\ address \in d.addresses}

Known(d, op, reg) == {i \in DOMAIN d.knows : d.knows[i].op = op /\ d.knows[i].reg = reg}
Refuses(d, reg) == Known(d, "nak", reg) # {}
Contents(d, reg) ==
    IF Known(d, "is", reg) = {} THEN "--"
    ELSE LET want == d.knows[CHOOSE i \in Known(d, "is", reg) : TRUE].want
         IN want[IF d.variant < Len(want) THEN d.variant ELSE Len(want)]

Holds(step, text) == \E i \in DOMAIN step.want : step.want[i] = text

(* What a device makes of a step, before any fault.                          *)
Answers(d, step) ==
    CASE step.op = "nak"  -> Refuses(d, step.reg)
      [] step.op = "is"   -> ~Refuses(d, step.reg) /\ Holds(step, Contents(d, step.reg))
      [] step.op = "isnt" -> ~Holds(step, Contents(d, step.reg))
      [] OTHER            -> ~Refuses(d, step.reg)

(* A step of a driver's function for the sensor in row r on bus b.  "kin"    *)
(* asks the registry and not the bus, for the relatives that are registered; *)
(* "flag" is a bit the device has set in its own good time, so that it being *)
(* clear is one of the faults.                                               *)
StepPasses(w, b, r, step, relatives) ==
    LET address == IF step.at = "" THEN device_table[r].address ELSE step.at
    IN  CASE step.op = "kin"    -> (IF step.reg = "first" THEN 1 ELSE 2) \in relatives
          [] step.op = "kinget" -> 2 \in relatives => Seen(w, b, address) # {}
          [] step.op = "flag"   -> TRUE
          [] OTHER -> \E d \in Seen(w, b, address) : Answers(d, step)

(* The function ends at the first step that fails: fault is the step that    *)
(* comes out wrong, 0 for none.                                              *)
Responds(w, b, r, script, relatives, fault) ==
    \A i \in DOMAIN script : \/ script[i].op = "try"
                             \/ i # fault /\ StepPasses(w, b, r, script[i], relatives)
Relatives(r) == {1, 2} \cap DOMAIN device_table[r].family
Succeeds(b, r, script, fault) ==
    LET present == {n \in Relatives(r) : i2c_sensor_registered(b, device_table[r].family[n])}
    IN  Responds(world, b, r, script, present, fault)

(* i2c_select_bus is one transaction to the multiplexer: fault -1.           *)
Fault(script) == IF faults = 0 THEN {0} ELSE {-1, 0} \cup DOMAIN script
Spend(fault) == faults' = IF fault = 0 THEN faults ELSE faults - 1

Selected(fault) == fault # -1

(***************************************************************************)
(* What can be plugged in together.  The drivers tell the devices apart: of  *)
(* the rows that are tried on a bus, but for those whose address was taken   *)
(* by a device found before, the ones that answer are the devices there; and *)
(* each answers what its driver asks of it with its quantities registered.   *)
(***************************************************************************)
FamilyRows(r) ==
    {r} \cup {q \in r + 1 .. Len(device_table) : device_table[q].primary = device_table[r].id}
Taken(w, b, r) ==
    \E d \in w.plugged : d.bus \in {0, b} /\ \E q \in FamilyRows(d.row) :
        device_table[q].address = device_table[r].address /\ (d.bus < b \/ q < r)
ToldApart(w) ==
    \A b \in 0 .. Buses - 1 : \A r \in {q \in Rows : IsPrimary(q)} : \A relatives \in SUBSET {1, 2} :
        ~Taken(w, b, r) /\ Responds(w, b, r, Script(r), relatives, 0)
          <=> \E d \in w.plugged : d.bus = b /\ d.row = r
Answered(w) ==
    \A d \in w.plugged : \A q \in FamilyRows(d.row) :
        LET row == device_table[q]
            answers(script) == Responds(w, d.bus, q, script, Relatives(q), 0)
        IN  /\ row.hasInit => answers(row.init)
            /\ answers(row.read) \/ \E i \in DOMAIN row.read : row.read[i] = Valid

ASSUME PluggedAssumption == \A w \in Worlds :
    /\ \A d \in w.plugged : d.bus \in 0 .. Buses - 1 /\ d.row \in Rows /\ IsPrimary(d.row)
    /\ w.faults = 0 => ToldApart(w) /\ Answered(w)

(***************************************************************************)
(* Detection, one row at a time.                                           *)
(***************************************************************************)
Full == Len(sensors) + 1 >= Entries

Skipped(r) == \/ i2c_sensor_address_registered(0, device_table[r].address)
              \/ i2c_sensor_address_registered(bus, device_table[r].address)

\* The secondaries are taken to follow only where the primary was found last.
HastyDetected(r, fault) ==
    IF IsPrimary(r)
    THEN ~Skipped(r) /\ Selected(fault) /\ Succeeds(bus, r, Script(r), fault)
    ELSE sensors # <<>> /\ sensors[Len(sensors)] = [bus |-> bus, row |-> RowOf(device_table[r].primary)]

\* Secondaries follow a primary that was found in front of the multiplexer.
FrontDetected(r, fault) ==
    IF IsPrimary(r)
    THEN ~Skipped(r) /\ Selected(fault) /\ Succeeds(bus, r, Script(r), fault)
    ELSE i2c_sensor_registered(0, device_table[r].primary)

Detected(r, fault) ==
    IF IsPrimary(r)
    THEN ~Skipped(r) /\ Selected(fault) /\ Succeeds(bus, r, Script(r), fault)
    ELSE i2c_sensor_registered(bus, device_table[r].primary)

Register(r) == /\ sensors' = Append(sensors, [bus |-> bus, row |-> r])
               /\ inited' = Append(inited, "no")

NextRow == IF current < Len(device_table) THEN current' = current + 1 /\ UNCHANGED <<bus, phase>>
           ELSE /\ current' = 1
                /\ IF bus + 1 < Buses THEN bus' = bus + 1 /\ UNCHANGED phase
                                      ELSE bus' = 0 /\ phase' = "init"

i2c_sensors_detect ==
    /\ phase = "detect"
    /\ answer' = "none" /\ UNCHANGED <<world, pause>>
    /\ \/ /\ Full
          /\ phase' = "init" /\ current' = 1 /\ bus' = 0
          /\ UNCHANGED <<faults, sensors, inited>>
       \/ /\ ~Full
          /\ \E fault \in Fault(Script(current)) :
               /\ Spend(fault)
               /\ IF Detected(current, fault) THEN Register(current) ELSE UNCHANGED <<sensors, inited>>
          /\ NextRow

(***************************************************************************)
(* Initialisation, one sensor at a time.                                   *)
(***************************************************************************)
InitOutcome(s, fault) ==
    CASE ~device_table[s.row].hasInit -> "skipped"
      [] ~Selected(fault) -> "skipped"
      [] OTHER -> IF Succeeds(s.bus, s.row, device_table[s.row].init, fault) THEN "ok" ELSE "failed"

i2c_sensors_init ==
    /\ phase = "init"
    /\ answer' = "none" /\ UNCHANGED <<world, bus, sensors, pause>>
    /\ \/ /\ current > Len(sensors)
          /\ phase' = "run" /\ current' = 1
          /\ UNCHANGED <<faults, inited>>
       \/ /\ current <= Len(sensors)
          /\ \E fault \in Fault(device_table[sensors[current].row].init) :
               /\ Spend(fault)
               /\ inited' = [inited EXCEPT ![current] = InitOutcome(sensors[current], fault)]
          /\ current' = current + 1 /\ UNCHANGED phase

\* The round ends before the last sensor.
ShortBackground ==
    /\ phase = "run"
    /\ current = 1 => ~pause
    /\ answer' = "none" /\ UNCHANGED <<world, faults, phase, bus, sensors, inited>>
    /\ IF current + 1 >= Len(sensors)
       THEN current' = 1 /\ pause' = (sensors # <<>>)
       ELSE current' = current + 1 /\ UNCHANGED pause

(***************************************************************************)
(* The background: each sensor in its turn, a second between two rounds.     *)
(* What a driver does in its turn keeps to the driver and its device.        *)
(***************************************************************************)
i2c_sensors_background ==
    /\ phase = "run"
    /\ current = 1 => ~pause
    /\ answer' = "none" /\ UNCHANGED <<world, faults, phase, bus, sensors, inited>>
    /\ IF current >= Len(sensors)
       THEN current' = 1 /\ pause' = (sensors # <<>>)
       ELSE current' = current + 1 /\ UNCHANGED pause

Pass == /\ pause /\ pause' = FALSE
        /\ answer' = "none" /\ UNCHANGED <<world, faults, phase, current, bus, sensors, inited>>

i2c_sensors_periodic == i2c_sensors_detect \/ i2c_sensors_init \/ i2c_sensors_background

(***************************************************************************)
(* A read by the user or the web page.  Drivers that measure in the          *)
(* background answer with the last value, if there is one yet.               *)
(***************************************************************************)
ReadOutcome(b, r, fault) ==
    IF ~sensor_data_get_entry(b, r) THEN {"unknown"}
    ELSE IF ~Selected(fault) THEN {"error"}
    ELSE IF \E i \in DOMAIN device_table[r].read : device_table[r].read[i] = Valid
    THEN {"ok", "not yet"}
    ELSE {IF Succeeds(b, r, device_table[r].read, fault) THEN "ok" ELSE "error"}

Wanted == {sensors[i] : i \in DOMAIN sensors} \cup {[bus |-> Buses - 1, row |-> 1]}

i2c_sensor_read ==
    /\ answer = "none"
    /\ \E s \in Wanted : \E fault \in Fault(device_table[s.row].read) :
         /\ Spend(fault)
         /\ answer' \in ReadOutcome(s.bus, s.row, fault)
    /\ UNCHANGED <<world, phase, current, bus, sensors, inited, pause>>

Init == /\ world \in Worlds /\ faults = world.faults
        /\ phase = "detect" /\ current = 1 /\ bus = 0
        /\ sensors = <<>> /\ inited = <<>>
        /\ pause = FALSE /\ answer = "none"

Next == i2c_sensors_periodic \/ Pass \/ i2c_sensor_read

Spec == Init /\ [][Next]_vars

(* The slow timer posts the task ten times a second.                         *)
FairSpec == Spec /\ WF_vars(i2c_sensors_periodic) /\ WF_vars(Pass)

(***************************************************************************)
(* Properties.                                                             *)
(***************************************************************************)

Healthy == world.faults = 0
Found == {[bus |-> sensors[i].bus, row |-> sensors[i].row] : i \in {j \in DOMAIN sensors : IsPrimary(sensors[j].row)}}

(* Without faults detection finds every device under its own driver and on   *)
(* its own bus, and nothing else: no driver tried before takes it for its    *)
(* own, none tried later sees it a second time, and what is in front of the  *)
(* multiplexer is not found again behind it.                                 *)
FindsWhatIsThere ==
    phase # "detect" /\ Healthy /\ ~Full => Found = {[bus |-> d.bus, row |-> d.row] : d \in world.plugged}

(* Whatever goes wrong on the bus, a device that was found has all of its    *)
(* quantities once detection is over, unless the registry is full, and no    *)
(* quantity of a bus is there twice (i2c_sensor.c 7609-7713): drivers look   *)
(* their relatives up by bus and quantity when they initialise and when they *)
(* are read.                                                                 *)
FamilyComplete ==
    /\ \A i, j \in DOMAIN sensors : sensors[i] = sensors[j] => i = j
    /\ (phase # "detect" /\ ~Full) =>
         \A s \in Found : LET family == device_table[s.row].family
                         IN \A i \in DOMAIN family : i2c_sensor_registered(s.bus, family[i])

(* On a bus without faults every sensor that was found initialises, and no   *)
(* read of one that is initialised ends in an error.                         *)
HealthySensorsWork ==
    (Healthy /\ ~Full) => /\ \A i \in DOMAIN inited : inited[i] # "failed"
                          /\ phase = "run" => answer # "error"

(* A bus without faults (i2c_sensor.c 7609-7793).                            *)
HealthyBusWorks == FindsWhatIsThere /\ HealthySensorsWork

(* Every sensor that was found gets its turn in the background again and     *)
(* again, whatever fails.                                                    *)
EverySensorHasItsTurn ==
    \A i \in 1 .. Entries - 1 : []<>(phase = "run" /\ (Len(sensors) >= i => current = i))

=============================================================================

