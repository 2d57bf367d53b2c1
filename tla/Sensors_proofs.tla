--------------------------- MODULE Sensors_proofs ---------------------------
(***************************************************************************)
(* Proofs about the i2c sensors.                                           *)
(*                                                                         *)
(* For any table of devices in which a device's quantities follow its      *)
(* primary, any devices plugged in, any number of buses and of failed      *)
(* transactions, and a registry of any size: detection registers nothing   *)
(* twice, and what it has found it has found completely.  It goes through  *)
(* buses and rows in one sweep, so that the invariant is about the pairs   *)
(* that lie behind it.                                                     *)
(*                                                                         *)
(* For any light and any failures, the value of a light sensor that has a  *)
(* valid flag was counted in the row it is multiplied with, and the row is *)
(* one of the driver's table; and no air sensor starts a measurement on    *)
(* top of another.                                                         *)
(***************************************************************************)
EXTENDS I2cSensors, SensorRounds, TLAPS

(* The bus and row b, r were tried before bs, cr, which are next if the    *)
(* phase is still to detect.                                               *)
Passed(ph, bs, cr, b, r) == ph = "detect" => b < bs \/ (b = bs /\ r < cr)

Sensor == [bus : 0 .. Buses - 1, row : Rows]

SensorsTyped ==
  /\ sensors \in Seq(Sensor)
  /\ phase \in {"detect", "init", "run"}
  /\ phase = "detect" => bus \in 0 .. Buses - 1 /\ current \in Rows

(* What is registered lies behind.                                         *)
Behind ==
  \A i \in DOMAIN sensors :
    Passed(phase, bus, current, sensors[i].bus, sensors[i].row)

NoneTwice == \A i, j \in DOMAIN sensors : sensors[i] = sensors[j] => i = j

(* A quantity of a device that was found is registered once it was tried.  *)
FamilySoFar ==
  \/ phase # "detect" /\ Full
  \/ \A i \in DOMAIN sensors, q \in Rows :
       /\ device_table[q].primary = device_table[sensors[i].row].id
       /\ q > sensors[i].row /\ Passed(phase, bus, current, sensors[i].bus, q)
       => sensor_data_get_entry(sensors[i].bus, q)

Swept == SensorsTyped /\ Behind /\ NoneTwice /\ FamilySoFar
-----------------------------------------------------------------------------
LEMMA RowsOfTable ==
  /\ Len(device_table) \in Nat \ {0} /\ Rows \subseteq Nat \ {0}
  /\ \A r \in Rows : RowOf(device_table[r].id) = r
<1>1. Len(device_table) \in Nat \ {0}
  BY SensorsAssumption
<1>2. ASSUME NEW r \in Rows, NEW q \in Rows, device_table[q].id = device_table[r].id
      PROVE  q = r
  <2>1. ~(r < q)
    BY <1>1, <1>2, SensorsAssumption DEF Rows
  <2>2. ~(q < r)
    BY <1>1, <1>2, SensorsAssumption DEF Rows
  <2> QED  BY <1>1, <2>1, <2>2 DEF Rows
<1> QED  BY <1>1, <1>2 DEF Rows, RowOf

(* What the families of the table are.                                     *)
LEMMA Families ==
  ASSUME NEW r \in Rows, NEW i \in DOMAIN device_table[r].family
  PROVE  \E q \in Rows : /\ q > r /\ RowOf(device_table[r].family[i]) = q
                         /\ device_table[q].primary = device_table[r].id
<1>1. PICK q \in r + 1 .. Len(device_table) :
         /\ device_table[q].id = device_table[r].family[i]
         /\ device_table[q].primary = device_table[r].id
  BY SensorsAssumption
<1>2. q \in Rows /\ q > r
  BY RowsOfTable DEF Rows
<1> QED  BY <1>1, <1>2, RowsOfTable

LEMMA InRegistry ==
  ASSUME SensorsTyped, NEW k \in DOMAIN sensors
  PROVE  /\ sensors[k].bus \in 0 .. Buses - 1 /\ sensors[k].row \in Rows
         /\ sensors[k] = [bus |-> sensors[k].bus, row |-> sensors[k].row]
<1>1. sensors[k] \in Sensor
  BY DEF SensorsTyped
<1> QED  BY <1>1 DEF Sensor

LEMMA SweptIsComplete == Swept => FamilyComplete
<1> SUFFICES ASSUME Swept, phase # "detect", ~Full, NEW s \in Found,
                    NEW i \in DOMAIN device_table[s.row].family
             PROVE  i2c_sensor_registered(s.bus, device_table[s.row].family[i])
  BY DEF FamilyComplete, Swept, NoneTwice
<1>1. PICK k \in DOMAIN sensors : s.bus = sensors[k].bus /\ s.row = sensors[k].row
  BY DEF Found
<1>2. s.bus \in 0 .. Buses - 1 /\ s.row \in Rows
  BY <1>1, InRegistry DEF Swept
<1>3. PICK q \in Rows : /\ q > s.row /\ RowOf(device_table[s.row].family[i]) = q
                        /\ device_table[q].primary = device_table[s.row].id
  BY <1>2, Families
<1>4. sensor_data_get_entry(s.bus, q)
  BY <1>1, <1>3 DEF Swept, FamilySoFar, Passed
<1>5. s.bus < Buses
  BY <1>2, SensorsAssumption
<1> QED  BY <1>3, <1>4, <1>5 DEF i2c_sensor_registered

LEMMA SweptAtStart == Init => Swept
<1> SUFFICES ASSUME Init PROVE Swept
  OBVIOUS
<1>1. sensors = << >> /\ phase = "detect" /\ bus = 0 /\ current = 1
  BY DEF Init
<1>2. 0 \in 0 .. Buses - 1 /\ 1 \in Rows
  BY SensorsAssumption, RowsOfTable DEF Rows
<1>3. DOMAIN sensors = {} /\ Found = {}
  BY <1>1 DEF Found
<1> QED  BY <1>1, <1>2, <1>3
         DEF Swept, SensorsTyped, Behind, NoneTwice, FamilySoFar

(* Nothing is registered, and the sweep goes on or not at all.             *)
LEMMA Unregistered ==
  ASSUME Swept, UNCHANGED <<sensors, phase, bus, current>>
  PROVE  Swept'
BY DEF Swept, SensorsTyped, Behind, NoneTwice, FamilySoFar, Full,
       sensor_data_get_entry

LEMMA AfterDetection ==
  ASSUME Swept, phase # "detect", phase' \in {"init", "run"}, UNCHANGED sensors
  PROVE  Swept'
<1>1. \A b, r : /\ Passed(phase, bus, current, b, r)
                /\ Passed(phase', bus', current', b, r)
  BY DEF Passed
<1>2. Behind'
  BY <1>1 DEF Swept, Behind
<1>3. FamilySoFar'
  BY <1>1 DEF Swept, FamilySoFar, Full, sensor_data_get_entry
<1> QED  BY <1>2, <1>3 DEF Swept, SensorsTyped, NoneTwice

(* The step from one row to the next, or to the next bus, puts just the    *)
(* pair that was tried behind it.                                          *)
LEMMA NextPassed ==
  ASSUME SensorsTyped, phase = "detect", NextRow
  PROVE  /\ phase' \in {"detect", "init"}
         /\ phase' = "detect" => bus' \in 0 .. Buses - 1 /\ current' \in Rows
         /\ \A b \in 0 .. Buses - 1, r \in Rows :
              Passed(phase', bus', current', b, r)
                <=> Passed(phase, bus, current, b, r) \/ (b = bus /\ r = current)
<1>1. /\ Buses \in Nat /\ Len(device_table) \in Nat \ {0}
      /\ bus \in 0 .. Buses - 1 /\ current \in 1 .. Len(device_table)
  BY SensorsAssumption DEF SensorsTyped, Rows
<1>2. CASE current < Len(device_table)
  <2>1. current' = current + 1 /\ bus' = bus /\ phase' = "detect"
    BY <1>2 DEF NextRow
  <2> QED  BY <1>1, <1>2, <2>1 DEF Passed, Rows
<1>3. CASE ~(current < Len(device_table)) /\ bus + 1 < Buses
  <2>1. current' = 1 /\ bus' = bus + 1 /\ phase' = "detect"
    BY <1>3 DEF NextRow
  <2> QED  BY <1>1, <1>3, <2>1 DEF Passed, Rows
<1>4. CASE ~(current < Len(device_table)) /\ ~(bus + 1 < Buses)
  <2>1. phase' = "init"
    BY <1>4 DEF NextRow
  <2> QED  BY <1>1, <1>4, <2>1 DEF Passed, Rows
<1> QED  BY <1>2, <1>3, <1>4

(* What registering a row does to the registry.                            *)
LEMMA Registering ==
  ASSUME SensorsTyped, phase = "detect",
         sensors' = Append(sensors, [bus |-> bus, row |-> current])
  PROVE  /\ sensors' \in Seq(Sensor) /\ Len(sensors') = Len(sensors) + 1
         /\ DOMAIN sensors' = DOMAIN sensors \cup {Len(sensors) + 1}
         /\ \A i \in DOMAIN sensors : sensors'[i] = sensors[i]
         /\ sensors'[Len(sensors) + 1] = [bus |-> bus, row |-> current]
<1>1. sensors \in Seq(Sensor) /\ [bus |-> bus, row |-> current] \in Sensor
  BY DEF SensorsTyped, Sensor
<1> QED  BY <1>1

(* Trying a row registers it or does not, and makes the next one current.  *)
(* A quantity is registered where its primary is.                          *)
Tried(detected) ==
  /\ phase = "detect"
  /\ sensors' = IF detected THEN Append(sensors, [bus |-> bus, row |-> current])
                ELSE sensors
  /\ NextRow
  /\ \A i \in DOMAIN sensors :
       /\ sensors[i].bus = bus
       /\ device_table[current].primary = device_table[sensors[i].row].id
       => detected

LEMMA TriedKeepsRegistry ==
  ASSUME Swept, NEW detected \in BOOLEAN, Tried(detected)
  PROVE  SensorsTyped' /\ Behind' /\ NoneTwice'
<1>1. SensorsTyped /\ Behind /\ NoneTwice /\ phase = "detect" /\ NextRow
  BY DEF Swept, Tried
<1> DEFINE P(b, r) == Passed(phase, bus, current, b, r)
           Q(b, r) == Passed(phase', bus', current', b, r)
<1>2. /\ phase' \in {"detect", "init"}
      /\ phase' = "detect" => bus' \in 0 .. Buses - 1 /\ current' \in Rows
      /\ \A b \in 0 .. Buses - 1, r \in Rows :
           Q(b, r) <=> P(b, r) \/ (b = bus /\ r = current)
  BY <1>1, NextPassed
<1>3. bus \in 0 .. Buses - 1 /\ current \in Rows
  BY <1>1 DEF SensorsTyped
<1>4. ~P(bus, current) /\ Q(bus, current)
  <2>1. bus \in Int /\ current \in Int
    BY <1>3, SensorsAssumption, RowsOfTable
  <2>2. ~P(bus, current)
    BY <1>1, <2>1 DEF Passed
  <2> QED  BY <1>2, <1>3, <2>2
<1>5. \A i \in DOMAIN sensors : /\ P(sensors[i].bus, sensors[i].row)
                                /\ Q(sensors[i].bus, sensors[i].row)
  <2> HIDE DEF Q
  <2>1. \A i \in DOMAIN sensors : P(sensors[i].bus, sensors[i].row)
    BY <1>1 DEF Behind
  <2> HIDE DEF P
  <2> QED  BY <1>1, <1>2, <2>1, InRegistry
<1>6. CASE ~detected
  <2>1. sensors' = sensors
    BY <1>6 DEF Tried
  <2>2. Behind'
    BY <1>5, <2>1 DEF Behind
  <2>3. SensorsTyped'
    BY <1>1, <1>2, <2>1 DEF SensorsTyped
  <2> QED  BY <1>1, <2>1, <2>2, <2>3 DEF NoneTwice
<1>7. CASE detected
  <2> DEFINE new == [bus |-> bus, row |-> current]
             n == Len(sensors) + 1
  <2>1. /\ sensors' \in Seq(Sensor) /\ DOMAIN sensors' = DOMAIN sensors \cup {n}
        /\ \A i \in DOMAIN sensors : sensors'[i] = sensors[i]
        /\ sensors'[n] = new
    BY <1>1, <1>7, Registering DEF Tried
  <2>2. new.bus = bus /\ new.row = current
    OBVIOUS
  <2> HIDE DEF new, n
  <2>3. \A i \in DOMAIN sensors : sensors[i] # new
    <3> HIDE DEF P
    <3> QED  BY <1>4, <1>5, <2>2
  <2>4. Behind'
    <3>1. \A i \in DOMAIN sensors' : Q(sensors'[i].bus, sensors'[i].row)
      <4> HIDE DEF Q
      <4> QED  BY <1>4, <1>5, <2>1, <2>2
    <3> QED  BY <3>1 DEF Behind
  <2>5. NoneTwice'
    BY <1>1, <2>1, <2>3 DEF NoneTwice
  <2>6. SensorsTyped'
    BY <1>2, <2>1 DEF SensorsTyped
  <2> QED  BY <2>4, <2>5, <2>6
<1> QED  BY <1>6, <1>7

LEMMA TriedKeepsFamilies ==
  ASSUME Swept, NEW detected \in BOOLEAN, Tried(detected)
  PROVE  FamilySoFar'
<1>1. SensorsTyped /\ phase = "detect" /\ NextRow
  BY DEF Swept, Tried
<1> DEFINE P(b, r) == Passed(phase, bus, current, b, r)
           Q(b, r) == Passed(phase', bus', current', b, r)
           Has(b, q) == \E j \in DOMAIN sensors : sensors[j] = [bus |-> b, row |-> q]
           Got(b, q) == \E j \in DOMAIN sensors' : sensors'[j] = [bus |-> b, row |-> q]
<1>2. \A b \in 0 .. Buses - 1, r \in Rows :
        Q(b, r) <=> P(b, r) \/ (b = bus /\ r = current)
  BY <1>1, NextPassed
<1>3. bus \in 0 .. Buses - 1 /\ current \in Rows
  BY <1>1 DEF SensorsTyped
<1>4. \A i \in DOMAIN sensors, q \in Rows :
        /\ device_table[q].primary = device_table[sensors[i].row].id
        /\ q > sensors[i].row /\ P(sensors[i].bus, q)
        => Has(sensors[i].bus, q)
  BY <1>1 DEF Swept, FamilySoFar, sensor_data_get_entry
<1>5. SUFFICES ASSUME NEW i \in DOMAIN sensors', NEW q \in Rows,
                      device_table[q].primary = device_table[sensors'[i].row].id,
                      q > sensors'[i].row, Q(sensors'[i].bus, q)
               PROVE  Got(sensors'[i].bus, q)
  BY DEF FamilySoFar, sensor_data_get_entry
<1>6. /\ DOMAIN sensors \subseteq DOMAIN sensors'
      /\ \A j \in DOMAIN sensors : sensors'[j] = sensors[j]
      /\ detected => Got(bus, current)
      /\ i \notin DOMAIN sensors => sensors'[i] = [bus |-> bus, row |-> current]
  <2>1. CASE ~detected
    BY <2>1 DEF Tried
  <2>2. CASE detected
    BY <1>1, <2>2, Registering DEF Tried
  <2> QED  BY <2>1, <2>2
<1>7. CASE i \in DOMAIN sensors
  <2>1. sensors'[i] = sensors[i] /\ sensors[i].bus \in 0 .. Buses - 1
    BY <1>1, <1>6, <1>7, InRegistry
  <2> HIDE DEF P, Q
  <2>2. CASE P(sensors[i].bus, q)
    <3>1. Has(sensors[i].bus, q)
      BY <1>4, <1>5, <1>7, <2>1, <2>2
    <3> QED  BY <1>6, <2>1, <3>1
  <2>3. CASE sensors[i].bus = bus /\ q = current
    <3>1. detected
      BY <1>5, <1>7, <2>1, <2>3 DEF Tried
    <3> QED  BY <1>6, <2>1, <2>3, <3>1
  <2> QED  BY <1>2, <1>5, <2>1, <2>2, <2>3
<1>8. CASE i \notin DOMAIN sensors
  <2>1. sensors'[i].bus = bus /\ sensors'[i].row = current
    BY <1>6, <1>8
  <2>2. q > current /\ q # current
    BY <1>3, <1>5, <2>1, RowsOfTable
  <2>3. P(bus, q)
    <3> HIDE DEF P, Q
    <3> QED  BY <1>2, <1>3, <1>5, <2>1, <2>2
  <2>4. bus \in Int /\ current \in Int /\ q \in Int
    BY <1>3, SensorsAssumption, RowsOfTable
  <2> QED  BY <1>1, <2>2, <2>3, <2>4 DEF Passed
<1> QED  BY <1>7, <1>8

(* A step of detection that does not end it is one of these.               *)
LEMMA Detecting ==
  ASSUME Swept, i2c_sensors_detect, ~Full
  PROVE  \E detected \in BOOLEAN : Tried(detected)
<1>1. PICK fault \in Fault(Script(current)) :
         IF Detected(current, fault) THEN Register(current) ELSE UNCHANGED <<sensors, inited>>
  BY DEF i2c_sensors_detect
<1> DEFINE detected == Detected(current, fault)
<1>2. phase = "detect" /\ NextRow
  BY DEF i2c_sensors_detect
<1>3. SensorsTyped /\ bus \in 0 .. Buses - 1 /\ current \in Rows
  BY <1>2 DEF Swept, SensorsTyped
<1>4. ASSUME NEW i \in DOMAIN sensors, sensors[i].bus = bus,
             device_table[current].primary = device_table[sensors[i].row].id
      PROVE  detected
  <2>1. /\ sensors[i].row \in Rows
        /\ sensors[i] = [bus |-> bus, row |-> sensors[i].row]
    BY <1>3, <1>4, InRegistry
  <2>2. ~IsPrimary(current)
    BY <1>4, <2>1, SensorsAssumption DEF IsPrimary
  <2>3. RowOf(device_table[current].primary) = sensors[i].row
    BY <1>4, <2>1, RowsOfTable
  <2>4. sensor_data_get_entry(bus, sensors[i].row)
    BY <2>1 DEF sensor_data_get_entry
  <2>5. bus < Buses
    BY <1>3, SensorsAssumption
  <2> QED  BY <2>2, <2>3, <2>4, <2>5 DEF Detected, i2c_sensor_registered
<1>5. sensors' = IF detected THEN Append(sensors, [bus |-> bus, row |-> current])
                 ELSE sensors
  BY <1>1 DEF Register
<1> HIDE DEF detected
<1>6. CASE detected
  BY <1>2, <1>5, <1>6 DEF Tried
<1>7. CASE ~detected
  <2>1. Tried(FALSE)
    BY <1>2, <1>4, <1>5, <1>7 DEF Tried
  <2> QED  BY <2>1
<1> QED  BY <1>6, <1>7

LEMMA FullRegistry ==
  ASSUME Swept, i2c_sensors_detect, Full
  PROVE  Swept'
<1>1. phase = "detect" /\ phase' = "init" /\ sensors' = sensors
  BY DEF i2c_sensors_detect
<1>2. Full'
  BY <1>1 DEF Full
<1>3. \A b, r : Passed(phase', bus', current', b, r)
  BY <1>1 DEF Passed
<1> QED  BY <1>1, <1>2, <1>3
         DEF Swept, SensorsTyped, Behind, NoneTwice, FamilySoFar

LEMMA SweptKept == Swept /\ [Next]_vars => Swept'
<1> SUFFICES ASSUME Swept, [Next]_vars PROVE Swept'
  OBVIOUS
<1>1. CASE i2c_sensors_detect
  <2>1. CASE ~Full
    <3>1. PICK detected \in BOOLEAN : Tried(detected)
      BY <1>1, <2>1, Detecting
    <3> QED  BY <3>1, TriedKeepsRegistry, TriedKeepsFamilies DEF Swept
  <2> QED  BY <1>1, <2>1, FullRegistry
<1>2. CASE i2c_sensors_init
  BY <1>2, AfterDetection DEF i2c_sensors_init, Swept, SensorsTyped
<1>3. CASE i2c_sensors_background
  BY <1>3, AfterDetection DEF i2c_sensors_background, Swept, SensorsTyped
<1>4. CASE Pass \/ i2c_sensor_read \/ UNCHANGED vars
  BY <1>4, Unregistered DEF Pass, i2c_sensor_read, vars
<1> QED  BY <1>1, <1>2, <1>3, <1>4 DEF Next, i2c_sensors_periodic

-----------------------------------------------------------------------------
LEMMA Lengths ==
  ASSUME TypeOK
  PROVE  /\ Len(sensors) \in Nat /\ Len(inited) = Len(sensors)
         /\ inited \in Seq(Outcomes) /\ DOMAIN inited = 1 .. Len(sensors)
<1>1. /\ sensors \in Seq([bus : 0 .. Buses - 1, row : Rows]) /\ inited \in Seq(Outcomes)
      /\ Len(inited) = Len(sensors)
  BY DEF TypeOK
<1>2. Len(sensors) \in Nat
  BY <1>1
<1>3. DOMAIN inited = 1 .. Len(inited)
  BY <1>1
<1> QED  BY <1>1, <1>2, <1>3

LEMMA TypedAtStart == Init => TypeOK
<1> SUFFICES ASSUME Init PROVE TypeOK
  OBVIOUS
<1>1. 0 \in 0 .. Buses - 1 /\ 1 \in Rows /\ 0 < Entries
  BY SensorsAssumption, RowsOfTable DEF Rows
<1>2. world \in Worlds /\ faults \in 0 .. world.faults
  BY SensorsAssumption DEF Init
<1>3. /\ phase = "detect" /\ current = 1 /\ bus = 0 /\ sensors = << >>
      /\ inited = << >> /\ pause = FALSE /\ answer = "none"
  BY DEF Init
<1>4. /\ sensors \in Seq([bus : 0 .. Buses - 1, row : Rows]) /\ Len(sensors) = 0
      /\ inited \in Seq(Outcomes) /\ Len(inited) = 0
  BY <1>3
<1> QED  BY <1>1, <1>2, <1>3, <1>4 DEF TypeOK

LEMMA Spending ==
  ASSUME TypeOK, NEW f, Spend(f), f # 0 => faults # 0
  PROVE  faults' \in 0 .. world.faults
<1>1. world.faults \in Nat /\ faults \in 0 .. world.faults
  BY SensorsAssumption DEF TypeOK
<1>2. CASE f = 0
  BY <1>1, <1>2 DEF Spend
<1>3. CASE f # 0
  BY <1>1, <1>3 DEF Spend
<1> QED  BY <1>2, <1>3

(* A fault can only be spent where there is one left.                      *)
LEMMA FaultsLeft ==
  ASSUME NEW script, NEW f \in Fault(script), f # 0
  PROVE  faults # 0
BY DEF Fault

LEMMA DetectKeepsType == TypeOK /\ i2c_sensors_detect => TypeOK'
<1> SUFFICES ASSUME TypeOK, i2c_sensors_detect PROVE TypeOK'
  OBVIOUS
<1>1. /\ phase = "detect" /\ answer' = "none" /\ world' = world /\ pause' = pause
      /\ current \in Rows /\ bus \in 0 .. Buses - 1
  BY DEF i2c_sensors_detect, TypeOK
<1>2. CASE Full /\ phase' = "init" /\ current' = 1 /\ bus' = 0
           /\ UNCHANGED <<faults, sensors, inited>>
  <2>1. 0 \in 0 .. Buses - 1 /\ current' \in 1 .. Len(sensors) + 1
    BY <1>2, Lengths, SensorsAssumption
  <2> QED  BY <1>1, <1>2, <2>1 DEF TypeOK
<1>3. CASE /\ ~Full
           /\ \E fault \in Fault(Script(current)) :
                /\ Spend(fault)
                /\ IF Detected(current, fault) THEN Register(current) ELSE UNCHANGED <<sensors, inited>>
           /\ NextRow
  <2>1. faults' \in 0 .. world.faults
    BY <1>3, Spending, FaultsLeft
  <2>2. /\ sensors' \in Seq([bus : 0 .. Buses - 1, row : Rows]) /\ Len(sensors') < Entries
        /\ inited' \in Seq(Outcomes) /\ Len(inited') = Len(sensors')
    <3>1. CASE UNCHANGED <<sensors, inited>>
      BY <3>1 DEF TypeOK
    <3>2. CASE Register(current)
      <4>1. /\ sensors \in Seq([bus : 0 .. Buses - 1, row : Rows]) /\ inited \in Seq(Outcomes)
            /\ [bus |-> bus, row |-> current] \in [bus : 0 .. Buses - 1, row : Rows]
            /\ Len(inited) = Len(sensors) /\ "no" \in Outcomes
        BY <1>1 DEF TypeOK, Outcomes
      <4>2. Len(sensors) + 1 < Entries
        BY <1>3, <4>1, SensorsAssumption DEF Full
      <4> QED  BY <3>2, <4>1, <4>2 DEF Register
    <3> QED  BY <1>3, <3>1, <3>2
  <2>3. /\ phase' \in {"detect", "init"} /\ bus' \in 0 .. Buses - 1
        /\ phase' = "detect" => current' \in Rows
        /\ phase' = "init" => current' = 1
    BY <1>1, <1>3, SensorsAssumption, RowsOfTable DEF NextRow, Rows
  <2>4. phase' # "detect" => current' \in 1 .. Len(sensors') + 1
    BY <2>2, <2>3
  <2> QED  BY <1>1, <2>1, <2>2, <2>3, <2>4 DEF TypeOK
<1> QED  BY <1>2, <1>3 DEF i2c_sensors_detect

LEMMA InitKeepsType == TypeOK /\ i2c_sensors_init => TypeOK'
<1> SUFFICES ASSUME TypeOK, i2c_sensors_init PROVE TypeOK'
  OBVIOUS
<1>1. /\ phase = "init" /\ answer' = "none" /\ UNCHANGED <<world, bus, sensors, pause>>
      /\ current \in 1 .. Len(sensors) + 1 /\ Len(sensors) \in Nat
  BY Lengths DEF i2c_sensors_init, TypeOK
<1>2. CASE current > Len(sensors) /\ phase' = "run" /\ current' = 1
           /\ UNCHANGED <<faults, inited>>
  <2>1. current' \in 1 .. Len(sensors) + 1
    BY <1>1, <1>2
  <2> QED  BY <1>1, <1>2, <2>1 DEF TypeOK
<1>3. CASE /\ current <= Len(sensors)
           /\ \E fault \in Fault(device_table[sensors[current].row].init) :
                /\ Spend(fault)
                /\ inited' = [inited EXCEPT ![current] = InitOutcome(sensors[current], fault)]
           /\ current' = current + 1 /\ UNCHANGED phase
  <2>1. faults' \in 0 .. world.faults
    BY <1>3, Spending, FaultsLeft
  <2>2. current' \in 1 .. Len(sensors) + 1
    BY <1>1, <1>3
  <2>3. PICK outcome \in Outcomes : inited' = [inited EXCEPT ![current] = outcome]
    <3>1. \A s, f : InitOutcome(s, f) \in Outcomes
      BY DEF InitOutcome, Outcomes
    <3> QED  BY <1>3, <3>1
  <2>4. inited' \in Seq(Outcomes) /\ Len(inited') = Len(inited)
    <3>1. inited \in Seq(Outcomes) /\ current \in 1 .. Len(inited)
      BY <1>1, <1>3, Lengths
    <3>2. inited \in [1 .. Len(inited) -> Outcomes] /\ Len(inited) \in Nat
      BY <3>1
    <3>3. inited' \in [1 .. Len(inited) -> Outcomes]
      BY <2>3, <3>2
    <3> QED  BY <3>2, <3>3
  <2> QED  BY <1>1, <1>3, <2>1, <2>2, <2>4 DEF TypeOK
<1> QED  BY <1>2, <1>3 DEF i2c_sensors_init

LEMMA OthersKeepType ==
  TypeOK /\ (i2c_sensors_background \/ Pass \/ i2c_sensor_read \/ UNCHANGED vars) => TypeOK'
<1> SUFFICES ASSUME TypeOK PROVE
      i2c_sensors_background \/ Pass \/ i2c_sensor_read \/ UNCHANGED vars => TypeOK'
  OBVIOUS
<1>1. CASE i2c_sensors_background
  <2>1. /\ phase = "run" /\ current \in 1 .. Len(sensors) + 1 /\ Len(sensors) \in Nat
    BY <1>1, Lengths DEF i2c_sensors_background, TypeOK
  <2>2. current' \in 1 .. Len(sensors) + 1
    <3>1. current' = 1 \/ (current < Len(sensors) /\ current' = current + 1)
      BY <1>1, <2>1 DEF i2c_sensors_background
    <3> QED  BY <2>1, <3>1
  <2>3. pause' \in BOOLEAN
    BY <1>1 DEF i2c_sensors_background, TypeOK
  <2> QED  BY <1>1, <2>1, <2>2, <2>3 DEF i2c_sensors_background, TypeOK
<1>2. CASE Pass
  BY <1>2 DEF Pass, TypeOK
<1>3. CASE i2c_sensor_read
  <2> PICK s \in Wanted : \E fault \in Fault(device_table[s.row].read) :
             Spend(fault) /\ answer' \in ReadOutcome(s.bus, s.row, fault)
    BY <1>3 DEF i2c_sensor_read
  <2>1. PICK fault \in Fault(device_table[s.row].read) :
           Spend(fault) /\ answer' \in ReadOutcome(s.bus, s.row, fault)
    OBVIOUS
  <2>2. faults' \in 0 .. world.faults
    BY <2>1, Spending, FaultsLeft
  <2>3. answer' \in {"unknown", "error", "not yet", "ok"}
    BY <2>1 DEF ReadOutcome
  <2> QED  BY <1>3, <2>2, <2>3 DEF i2c_sensor_read, TypeOK
<1>4. CASE UNCHANGED vars
  BY <1>4 DEF vars, TypeOK
<1> QED  BY <1>1, <1>2, <1>3, <1>4

(* The registry never holds more than there is room for, with one outcome  *)
(* of its init function for each sensor, and the task's index stays within *)
(* the table while it detects and within the registry, or one past it,     *)
(* from then on (i2c_sensor.c 7609-7793).                                  *)
THEOREM SensorsTypeCorrect == Spec => []TypeOK
<1>1. TypeOK /\ [Next]_vars => TypeOK'
  BY DetectKeepsType, InitKeepsType, OthersKeepType DEF Next, i2c_sensors_periodic
<1> QED  BY TypedAtStart, <1>1, PTL DEF Spec

(* Whatever goes wrong on the bus, nothing is registered twice, and a      *)
(* device that was found has all of its quantities on its bus once         *)
(* detection is over, unless the registry is full (i2c_sensor.c            *)
(* 7609-7713).                                                             *)
THEOREM FamiliesComplete == Spec => []FamilyComplete
<1>1. Init => Swept
  BY SweptAtStart
<1>2. Swept /\ [Next]_vars => Swept'
  BY SweptKept
<1>3. Swept => FamilyComplete
  BY SweptIsComplete
<1> QED  BY <1>1, <1>2, <1>3, PTL DEF Spec
-----------------------------------------------------------------------------
(* A bus without faults: what is registered is what is plugged in, as far  *)
(* as the sweep has come, with all of its quantities.                      *)
Plugged(b, q) == \E d \in world.plugged : d.bus = b /\ q \in FamilyRows(d.row)

FoundSoFar ==
  \/ phase # "detect" /\ Full
  \/ \A b \in 0 .. Buses - 1, q \in Rows :
       sensor_data_get_entry(b, q)
         <=> Plugged(b, q) /\ Passed(phase, bus, current, b, q)

(* No sensor is initialised before they are all found.                     *)
InitLater == phase = "detect" => \A i \in DOMAIN inited : inited[i] = "no"

LEMMA DeviceRows ==
  ASSUME TypeOK, NEW d \in world.plugged
  PROVE  /\ d.bus \in 0 .. Buses - 1 /\ d.row \in Rows /\ IsPrimary(d.row)
         /\ FamilyRows(d.row) \subseteq Rows
<1>1. d.bus \in 0 .. Buses - 1 /\ d.row \in Rows /\ IsPrimary(d.row)
  BY PluggedAssumption DEF TypeOK
<1> QED  BY <1>1, RowsOfTable DEF FamilyRows, Rows

(* A primary is no quantity of another, ...                                *)
LEMMA PrimaryOfItself ==
  ASSUME NEW p \in Rows, NEW r \in Rows, IsPrimary(r)
  PROVE  r \in FamilyRows(p) <=> r = p
<1>1. device_table[p].id # "none" /\ device_table[r].primary = "none"
  BY SensorsAssumption DEF IsPrimary
<1> QED  BY <1>1 DEF FamilyRows

(* ... and any other quantity is of its primary only.                      *)
LEMMA SecondaryOf ==
  ASSUME NEW r \in Rows, ~IsPrimary(r)
  PROVE  LET p == RowOf(device_table[r].primary)
         IN  /\ p \in Rows /\ p < r /\ IsPrimary(p)
             /\ \A s \in Rows : IsPrimary(s) => (r \in FamilyRows(s) <=> s = p)
<1>1. PICK p \in 1 .. r - 1 : /\ device_table[p].id = device_table[r].primary
                              /\ device_table[p].primary = "none"
  BY SensorsAssumption DEF IsPrimary
<1>2. p \in Rows /\ p < r /\ IsPrimary(p)
  BY <1>1, RowsOfTable DEF Rows, IsPrimary
<1>3. RowOf(device_table[r].primary) = p
  BY <1>1, <1>2, RowsOfTable
<1>4. ASSUME NEW s \in Rows, IsPrimary(s)
      PROVE  r \in FamilyRows(s) <=> s = p
  <2>1. r # s
    BY <1>4
  <2>2. s = p => r \in FamilyRows(s)
    BY <1>1, <1>2, RowsOfTable DEF FamilyRows, Rows
  <2>3. r \in FamilyRows(s) => device_table[s].id = device_table[p].id
    BY <1>1, <2>1 DEF FamilyRows
  <2>4. device_table[s].id = device_table[p].id => s = p
    BY <1>2, RowsOfTable
  <2> QED  BY <2>2, <2>3, <2>4
<1> QED  BY <1>2, <1>3, <1>4

LEMMA SweepIsOn ==
  ASSUME TypeOK, phase = "detect"
  PROVE  /\ bus \in 0 .. Buses - 1 /\ current \in Rows /\ Buses \in Nat /\ 0 \in 0 .. Buses - 1
         /\ bus < Buses /\ Rows \subseteq Nat /\ SensorsTyped
<1>1. bus \in 0 .. Buses - 1 /\ current \in Rows
  BY DEF TypeOK
<1>2. Buses \in 1 .. 9
  BY SensorsAssumption
<1>3. Buses \in Nat /\ 0 \in 0 .. Buses - 1 /\ bus < Buses
  BY <1>1, <1>2
<1>4. Rows \subseteq Nat
  BY RowsOfTable
<1>5. SensorsTyped
  BY <1>1 DEF TypeOK, SensorsTyped, Sensor
<1> QED  BY <1>1, <1>3, <1>4, <1>5

(* The rows that are not tried are the ones whose address is taken.        *)
LEMMA SkippedIsTaken ==
  ASSUME TypeOK, phase = "detect", FoundSoFar
  PROVE  Skipped(current) <=> Taken(world, bus, current)
<1> DEFINE at == device_table[current].address
<1>1. /\ bus \in 0 .. Buses - 1 /\ current \in Rows /\ Buses \in Nat /\ 0 \in 0 .. Buses - 1
      /\ bus < Buses /\ Rows \subseteq Nat /\ SensorsTyped
  BY SweepIsOn
<1>2. ASSUME NEW b \in {0, bus}
      PROVE  i2c_sensor_address_registered(b, device_table[current].address)
               <=> \E q \in Rows : sensor_data_get_entry(b, q) /\ device_table[q].address = at
  <2>1. \A i \in DOMAIN sensors : /\ sensors[i].row \in Rows
                                  /\ sensors[i] = [bus |-> sensors[i].bus, row |-> sensors[i].row]
    BY <1>1, InRegistry
  <2>2. ASSUME NEW i \in DOMAIN sensors, sensors[i].bus = b, device_table[sensors[i].row].address = at
        PROVE  \E q \in Rows : sensor_data_get_entry(b, q) /\ device_table[q].address = at
    BY <2>1, <2>2 DEF sensor_data_get_entry
  <2>3. ASSUME NEW q \in Rows, sensor_data_get_entry(b, q), device_table[q].address = at
        PROVE  i2c_sensor_address_registered(b, device_table[current].address)
    BY <2>3 DEF i2c_sensor_address_registered, sensor_data_get_entry
  <2> QED  BY <2>2, <2>3 DEF i2c_sensor_address_registered
<1>3. ASSUME NEW b \in {0, bus}, NEW q \in Rows
      PROVE  sensor_data_get_entry(b, q) <=> Plugged(b, q) /\ (b < bus \/ q < current)
  BY <1>1 DEF FoundSoFar, Passed
<1>4. ASSUME NEW b \in {0, bus}
      PROVE  i2c_sensor_address_registered(b, device_table[current].address)
               <=> \E q \in Rows : /\ device_table[q].address = at
                                   /\ Plugged(b, q) /\ (b < bus \/ q < current)
  BY <1>2, <1>3
<1>5. Skipped(current)
        <=> \E b \in {0, bus} : \E q \in Rows : /\ device_table[q].address = at
                                                /\ Plugged(b, q) /\ (b < bus \/ q < current)
  BY <1>4 DEF Skipped
<1>6. Taken(world, bus, current)
        <=> \E d \in world.plugged : d.bus \in {0, bus} /\ \E q \in FamilyRows(d.row) :
              device_table[q].address = at /\ (d.bus < bus \/ q < current)
  BY DEF Taken
<1>7. \A d \in world.plugged : FamilyRows(d.row) \subseteq Rows
  BY DeviceRows
<1> QED  BY <1>5, <1>6, <1>7 DEF Plugged

(* A step of the sweep finds just what is plugged in there.                *)
LEMMA DetectedIsPlugged ==
  ASSUME TypeOK, phase = "detect", FoundSoFar, world.faults = 0
  PROVE  Detected(current, 0) <=> Plugged(bus, current)
<1>1. /\ bus \in 0 .. Buses - 1 /\ current \in Rows /\ Buses \in Nat /\ bus < Buses
      /\ Rows \subseteq Nat
  BY SweepIsOn
<1>2. CASE IsPrimary(current)
  <2> DEFINE family == device_table[current].family
             present == {n \in Relatives(current) : i2c_sensor_registered(bus, family[n])}
  <2>1. present \in SUBSET {1, 2}
    BY DEF Relatives
  <2>2. ToldApart(world)
    BY PluggedAssumption DEF TypeOK
  <2>3. ~Taken(world, bus, current) /\ Responds(world, bus, current, Script(current), present, 0)
          <=> \E d \in world.plugged : d.bus = bus /\ d.row = current
    BY <1>1, <1>2, <2>1, <2>2 DEF ToldApart
  <2>4. Succeeds(bus, current, Script(current), 0)
          <=> Responds(world, bus, current, Script(current), present, 0)
    BY DEF Succeeds
  <2>5. Detected(current, 0) <=> ~Skipped(current) /\ Succeeds(bus, current, Script(current), 0)
    BY <1>2 DEF Detected, Selected
  <2>6. \A d \in world.plugged : current \in FamilyRows(d.row) <=> d.row = current
    BY <1>1, <1>2, DeviceRows, PrimaryOfItself
  <2> HIDE DEF present, family
  <2> QED  BY <2>3, <2>4, <2>5, <2>6, SkippedIsTaken DEF Plugged
<1>3. CASE ~IsPrimary(current)
  <2> DEFINE p == RowOf(device_table[current].primary)
  <2>1. /\ p \in Rows /\ p < current /\ IsPrimary(p)
        /\ \A s \in Rows : IsPrimary(s) => (current \in FamilyRows(s) <=> s = p)
    BY <1>1, <1>3, SecondaryOf
  <2>2. Detected(current, 0) <=> sensor_data_get_entry(bus, p)
    BY <1>1, <1>3 DEF Detected, i2c_sensor_registered
  <2> HIDE DEF p
  <2>3. sensor_data_get_entry(bus, p) <=> Plugged(bus, p)
    BY <1>1, <2>1 DEF FoundSoFar, Passed
  <2>4. ASSUME NEW d \in world.plugged
        PROVE  p \in FamilyRows(d.row) <=> current \in FamilyRows(d.row)
    BY <2>1, DeviceRows, PrimaryOfItself
  <2> QED  BY <2>2, <2>3, <2>4 DEF Plugged
<1> QED  BY <1>2, <1>3

LEMMA NoneLeft == ASSUME TypeOK, world.faults = 0 PROVE faults = 0
<1>1. faults \in 0 .. world.faults
  BY DEF TypeOK
<1> QED  BY <1>1

(* ... so that what is found goes on being what is plugged in.             *)
LEMMA FoundStep ==
  ASSUME TypeOK, FoundSoFar, world.faults = 0, i2c_sensors_detect
  PROVE  FoundSoFar'
<1>1. phase = "detect" /\ world' = world
  BY DEF i2c_sensors_detect
<1>2. CASE Full
  BY <1>2 DEF i2c_sensors_detect, FoundSoFar, Full
<1>3. CASE ~Full
  <2>1. faults = 0
    BY NoneLeft
  <2>2. /\ IF Detected(current, 0) THEN Register(current) ELSE UNCHANGED <<sensors, inited>>
        /\ NextRow
    BY <1>3, <2>1 DEF i2c_sensors_detect, Fault
  <2>3. /\ bus \in 0 .. Buses - 1 /\ current \in Rows /\ Buses \in Nat /\ Rows \subseteq Nat
        /\ SensorsTyped
    BY <1>1, SweepIsOn
  <2>4. /\ sensors' = IF Detected(current, 0) THEN Append(sensors, [bus |-> bus, row |-> current])
                      ELSE sensors
    BY <2>2 DEF Register
  <2>5. ASSUME NEW b \in 0 .. Buses - 1, NEW q \in Rows
        PROVE  sensor_data_get_entry(b, q)'
                 <=> sensor_data_get_entry(b, q) \/ (Detected(current, 0) /\ b = bus /\ q = current)
    <3>1. CASE ~Detected(current, 0)
      BY <2>4, <3>1 DEF sensor_data_get_entry
    <3>2. CASE Detected(current, 0)
      <4>1. /\ DOMAIN sensors' = DOMAIN sensors \cup {Len(sensors) + 1}
            /\ \A i \in DOMAIN sensors : sensors'[i] = sensors[i]
            /\ sensors'[Len(sensors) + 1] = [bus |-> bus, row |-> current]
        BY <1>1, <2>3, <2>4, <3>2, Registering
      <4>2. Len(sensors) + 1 \notin DOMAIN sensors
        BY <2>3 DEF SensorsTyped
      <4> QED  BY <3>2, <4>1, <4>2 DEF sensor_data_get_entry
    <3> QED  BY <3>1, <3>2
  <2>6. \A b \in 0 .. Buses - 1, q \in Rows :
          Passed(phase', bus', current', b, q)
            <=> Passed(phase, bus, current, b, q) \/ (b = bus /\ q = current)
    BY <1>1, <2>2, <2>3, NextPassed
  <2>7. \A b, q : Plugged(b, q)' <=> Plugged(b, q)
    BY <1>1 DEF Plugged
  <2>8. Detected(current, 0) <=> Plugged(bus, current)
    BY <1>1, DetectedIsPlugged
  <2>9. ASSUME NEW b \in 0 .. Buses - 1, NEW q \in Rows
        PROVE  sensor_data_get_entry(b, q)' <=> Plugged(b, q)' /\ Passed(phase', bus', current', b, q)
    <3>1. sensor_data_get_entry(b, q) <=> Plugged(b, q) /\ Passed(phase, bus, current, b, q)
      BY <1>1 DEF FoundSoFar
    <3> QED  BY <2>5, <2>6, <2>7, <2>8, <3>1
  <2> QED  BY <2>9 DEF FoundSoFar
<1> QED  BY <1>2, <1>3

LEMMA FoundKept ==
  ASSUME TypeOK, FoundSoFar, world.faults = 0, [Next]_vars
  PROVE  FoundSoFar'
<1>1. CASE i2c_sensors_detect
  BY <1>1, FoundStep
<1>2. CASE /\ phase \in {"init", "run"} /\ phase' \in {"init", "run"}
           /\ UNCHANGED <<sensors, world>>
  <2>1. \A b, q : Passed(phase, bus, current, b, q) /\ Passed(phase', bus', current', b, q)
    BY <1>2 DEF Passed
  <2> QED  BY <1>2, <2>1 DEF FoundSoFar, Full, Plugged, sensor_data_get_entry
<1>3. CASE UNCHANGED <<sensors, world, phase, bus, current>>
  BY <1>3 DEF FoundSoFar, Full, Plugged, sensor_data_get_entry
<1>4. CASE i2c_sensors_init
  BY <1>2, <1>4 DEF i2c_sensors_init
<1>5. CASE i2c_sensors_background
  BY <1>2, <1>5 DEF i2c_sensors_background
<1>6. CASE Pass \/ i2c_sensor_read \/ UNCHANGED vars
  BY <1>3, <1>6 DEF Pass, i2c_sensor_read, vars
<1> QED  BY <1>1, <1>4, <1>5, <1>6 DEF Next, i2c_sensors_periodic

(* With everything found, a driver finds its quantities, and is answered.  *)
AllFound == phase # "detect" /\ ~Full /\ FoundSoFar

LEMMA FoundIsPlugged ==
  ASSUME TypeOK, AllFound, NEW b \in 0 .. Buses - 1, NEW q \in Rows
  PROVE  sensor_data_get_entry(b, q) <=> Plugged(b, q)
BY DEF AllFound, FoundSoFar, Passed

LEMMA AllRelatives ==
  ASSUME TypeOK, AllFound, NEW d \in world.plugged, NEW q \in FamilyRows(d.row),
         NEW n \in Relatives(q)
  PROVE  i2c_sensor_registered(d.bus, device_table[q].family[n])
<1>1. /\ d.bus \in 0 .. Buses - 1 /\ d.row \in Rows /\ IsPrimary(d.row)
      /\ q \in Rows
  BY DeviceRows
<1>2. n \in DOMAIN device_table[q].family
  BY DEF Relatives
<1>3. q = d.row
  <2>1. CASE IsPrimary(q)
    BY <1>1, <2>1, PrimaryOfItself
  <2>2. CASE ~IsPrimary(q)
    <3>1. device_table[q].family = <<>>
      BY <1>1, <2>2, SensorsAssumption DEF IsPrimary
    <3>2. DOMAIN <<>> = {}
      OBVIOUS
    <3> QED  BY <1>2, <3>1, <3>2
  <2> QED  BY <2>1, <2>2
<1>4. PICK s \in Rows : /\ s > q /\ RowOf(device_table[q].family[n]) = s
                        /\ device_table[s].primary = device_table[q].id
  BY <1>1, <1>2, Families
<1>5. s \in FamilyRows(d.row)
  BY <1>1, <1>3, <1>4, RowsOfTable DEF FamilyRows, Rows
<1>6. sensor_data_get_entry(d.bus, s)
  BY <1>1, <1>4, <1>5, FoundIsPlugged DEF Plugged
<1> QED  BY <1>1, <1>4, <1>6, SensorsAssumption DEF i2c_sensor_registered

LEMMA PluggedAnswer ==
  ASSUME TypeOK, AllFound, world.faults = 0, NEW s, NEW i \in DOMAIN sensors, s = sensors[i]
  PROVE  /\ device_table[s.row].hasInit => Succeeds(s.bus, s.row, device_table[s.row].init, 0)
         /\ \/ Succeeds(s.bus, s.row, device_table[s.row].read, 0)
            \/ \E j \in DOMAIN device_table[s.row].read : device_table[s.row].read[j] = Valid
<1>1. s.bus \in 0 .. Buses - 1 /\ s.row \in Rows /\ s = [bus |-> s.bus, row |-> s.row]
  BY InRegistry DEF TypeOK, SensorsTyped, Sensor, AllFound
<1>2. sensor_data_get_entry(s.bus, s.row)
  BY <1>1 DEF sensor_data_get_entry
<1>3. PICK d \in world.plugged : d.bus = s.bus /\ s.row \in FamilyRows(d.row)
  BY <1>1, <1>2, FoundIsPlugged DEF Plugged
<1>4. {n \in Relatives(s.row) : i2c_sensor_registered(s.bus, device_table[s.row].family[n])}
        = Relatives(s.row)
  BY <1>3, AllRelatives
<1>5. ASSUME NEW script
      PROVE  Succeeds(s.bus, s.row, script, 0)
               <=> Responds(world, s.bus, s.row, script, Relatives(s.row), 0)
  BY <1>4 DEF Succeeds
<1>6. Answered(world)
  BY PluggedAssumption DEF TypeOK
<1>7. /\ device_table[s.row].hasInit
           => Responds(world, s.bus, s.row, device_table[s.row].init, Relatives(s.row), 0)
      /\ \/ Responds(world, s.bus, s.row, device_table[s.row].read, Relatives(s.row), 0)
         \/ \E j \in DOMAIN device_table[s.row].read : device_table[s.row].read[j] = Valid
  BY <1>3, <1>6 DEF Answered
<1> QED  BY <1>5, <1>7

Working == FoundSoFar /\ InitLater /\ HealthySensorsWork

LEMMA WorkingStarts == Init => (world.faults = 0 => Working)
<1> SUFFICES ASSUME Init PROVE Working
  OBVIOUS
<1>1. sensors = << >> /\ inited = << >> /\ phase = "detect" /\ bus = 0 /\ current = 1
  BY DEF Init
<1>2. DOMAIN << >> = {}
  OBVIOUS
<1>3. \A b \in 0 .. Buses - 1, r \in Rows : ~Passed(phase, bus, current, b, r)
  BY <1>1, RowsOfTable, SensorsAssumption DEF Passed
<1>4. FoundSoFar
  BY <1>1, <1>2, <1>3 DEF FoundSoFar, sensor_data_get_entry
<1> QED  BY <1>1, <1>2, <1>4 DEF Working, InitLater, HealthySensorsWork

\* Once all are found, before the first is used.
LEMMA NothingFailed ==
  ASSUME TypeOK, InitLater', phase' = "detect"
  PROVE  HealthySensorsWork'
BY DEF InitLater, HealthySensorsWork

LEMMA WorkingDetect ==
  ASSUME TypeOK, world.faults = 0, Working, i2c_sensors_detect
  PROVE  InitLater' /\ HealthySensorsWork'
<1>1. phase = "detect" /\ phase' \in {"detect", "init"}
  BY DEF i2c_sensors_detect, NextRow
<1>2. \A i \in DOMAIN inited' : inited'[i] = "no"
  <2>1. \A i \in DOMAIN inited : inited[i] = "no"
    BY <1>1 DEF Working, InitLater
  <2>2. inited \in Seq(Outcomes)
    BY DEF TypeOK
  <2>3. inited' = inited \/ inited' = Append(inited, "no")
    BY DEF i2c_sensors_detect, Register
  <2>4. CASE inited' = Append(inited, "no")
    BY <2>1, <2>2, <2>4
  <2> QED  BY <2>1, <2>3, <2>4
<1> QED  BY <1>1, <1>2 DEF InitLater, HealthySensorsWork

LEMMA WorkingInit ==
  ASSUME TypeOK, world.faults = 0, Working, i2c_sensors_init
  PROVE  InitLater' /\ HealthySensorsWork'
<1>1. phase = "init" /\ phase' \in {"init", "run"} /\ sensors' = sensors /\ answer' = "none"
  BY DEF i2c_sensors_init
<1>2. InitLater'
  BY <1>1 DEF InitLater
<1>3. CASE Full
  BY <1>1, <1>2, <1>3 DEF HealthySensorsWork, Full
<1>4. CASE ~Full
  <2>1. AllFound
    BY <1>1, <1>4 DEF AllFound, Working
  <2>2. \A i \in DOMAIN inited : inited[i] # "failed"
    BY <1>4 DEF Working, HealthySensorsWork, Healthy
  <2>3. CASE inited' = inited
    BY <1>1, <1>2, <2>2, <2>3 DEF HealthySensorsWork
  <2>4. CASE inited' # inited
    <3>1. /\ current <= Len(sensors)
          /\ \E fault \in Fault(device_table[sensors[current].row].init) :
               inited' = [inited EXCEPT ![current] = InitOutcome(sensors[current], fault)]
      BY <2>4 DEF i2c_sensors_init
    <3>2. faults = 0
      BY NoneLeft
    <3>3. inited' = [inited EXCEPT ![current] = InitOutcome(sensors[current], 0)]
      BY <3>1, <3>2 DEF Fault
    <3>4. current \in DOMAIN sensors
      <4>1. sensors \in Seq([bus : 0 .. Buses - 1, row : Rows]) /\ current \in 1 .. Len(sensors) + 1
        BY <1>1 DEF TypeOK
      <4> QED  BY <3>1, <4>1
    <3>5. InitOutcome(sensors[current], 0) # "failed"
      BY <2>1, <3>4, PluggedAnswer DEF InitOutcome, Selected
    <3>6. \A i \in DOMAIN inited' : inited'[i] # "failed"
      BY <2>2, <3>3, <3>5
    <3> QED  BY <1>1, <1>2, <3>6 DEF HealthySensorsWork
  <2> QED  BY <2>3, <2>4
<1> QED  BY <1>3, <1>4

LEMMA WorkingRead ==
  ASSUME TypeOK, world.faults = 0, Working, i2c_sensor_read
  PROVE  InitLater' /\ HealthySensorsWork'
<1>1. /\ phase' = phase /\ sensors' = sensors /\ inited' = inited
      /\ \E s \in Wanted : \E fault \in Fault(device_table[s.row].read) :
           answer' \in ReadOutcome(s.bus, s.row, fault)
  BY DEF i2c_sensor_read
<1>2. InitLater'
  BY <1>1 DEF InitLater, Working
<1>3. CASE Full \/ phase # "run"
  BY <1>1, <1>2, <1>3 DEF Working, HealthySensorsWork, Full, Healthy
<1>4. CASE ~Full /\ phase = "run"
  <2>1. AllFound
    BY <1>4 DEF AllFound, Working
  <2>2. PICK s \in Wanted : answer' \in ReadOutcome(s.bus, s.row, 0)
    <3>1. \A script : Fault(script) = {0}
      BY NoneLeft DEF Fault
    <3> QED  BY <1>1, <3>1
  <2>3. ASSUME ~sensor_data_get_entry(s.bus, s.row) PROVE answer' # "error"
    BY <2>2, <2>3 DEF ReadOutcome
  <2>4. ASSUME sensor_data_get_entry(s.bus, s.row) PROVE answer' # "error"
    <3>1. PICK i \in DOMAIN sensors : sensors[i] = [bus |-> s.bus, row |-> s.row]
      BY <2>4 DEF sensor_data_get_entry
    <3>2. sensors[i].bus = s.bus /\ sensors[i].row = s.row
      BY <3>1
    <3>3. \/ Succeeds(sensors[i].bus, sensors[i].row, device_table[sensors[i].row].read, 0)
          \/ \E j \in DOMAIN device_table[sensors[i].row].read :
                device_table[sensors[i].row].read[j] = Valid
      BY <2>1, PluggedAnswer
    <3>4. \/ Succeeds(s.bus, s.row, device_table[s.row].read, 0)
          \/ \E j \in DOMAIN device_table[s.row].read : device_table[s.row].read[j] = Valid
      BY <3>2, <3>3, Zenon
    <3>5. Selected(0)
      BY DEF Selected
    <3>6. ReadOutcome(s.bus, s.row, 0) \in {{"ok", "not yet"}, {"ok"}}
      BY <2>4, <3>4, <3>5, Zenon DEF ReadOutcome
    <3> QED  BY <2>2, <3>6
  <2>5. answer' # "error"
    BY <2>3, <2>4
  <2>6. \A i \in DOMAIN inited : inited[i] # "failed"
    BY <1>4 DEF Working, HealthySensorsWork, Healthy
  <2> QED  BY <1>1, <1>2, <2>5, <2>6 DEF HealthySensorsWork
<1> QED  BY <1>3, <1>4

LEMMA WorkingKept == TypeOK /\ (world.faults = 0 => Working) /\ [Next]_vars => (world.faults = 0 => Working)'
<1> SUFFICES ASSUME TypeOK, world.faults = 0 => Working, [Next]_vars, world'.faults = 0
             PROVE  Working'
  OBVIOUS
<1>1. world' = world
  BY DEF Next, i2c_sensors_periodic, i2c_sensors_detect, i2c_sensors_init,
         i2c_sensors_background, Pass, i2c_sensor_read, vars
<1>2. world.faults = 0 /\ Working
  BY <1>1
<1>3. FoundSoFar'
  BY <1>2, FoundKept DEF Working
<1>4. CASE i2c_sensors_detect
  BY <1>2, <1>3, <1>4, WorkingDetect DEF Working
<1>5. CASE i2c_sensors_init
  BY <1>2, <1>3, <1>5, WorkingInit DEF Working
<1>6. CASE i2c_sensor_read
  BY <1>2, <1>3, <1>6, WorkingRead DEF Working
<1>7. CASE /\ phase' = phase /\ sensors' = sensors /\ inited' = inited
           /\ answer' = "none" \/ answer' = answer
  BY <1>1, <1>2, <1>3, <1>7 DEF Working, InitLater, HealthySensorsWork, Full, Healthy
<1>8. CASE i2c_sensors_background \/ Pass \/ UNCHANGED vars
  BY <1>7, <1>8 DEF i2c_sensors_background, Pass, vars
<1> QED  BY <1>4, <1>5, <1>6, <1>8 DEF Next, i2c_sensors_periodic

(* What was found is what is plugged in, once the sweep is over.           *)
LEMMA FoundThere == TypeOK /\ (world.faults = 0 => Working) => FindsWhatIsThere
<1> SUFFICES ASSUME TypeOK, AllFound
             PROVE  Found = {[bus |-> d.bus, row |-> d.row] : d \in world.plugged}
  BY DEF FindsWhatIsThere, Healthy, AllFound, Working
<1>1. ASSUME NEW s \in Found
      PROVE  \E d \in world.plugged : s = [bus |-> d.bus, row |-> d.row]
  <2>1. PICK i \in DOMAIN sensors : /\ IsPrimary(sensors[i].row)
                                    /\ s = [bus |-> sensors[i].bus, row |-> sensors[i].row]
    BY DEF Found
  <2>2. /\ sensors[i].bus \in 0 .. Buses - 1 /\ sensors[i].row \in Rows
        /\ sensors[i] = [bus |-> sensors[i].bus, row |-> sensors[i].row]
    BY InRegistry DEF TypeOK, SensorsTyped, Sensor, AllFound
  <2>3. sensor_data_get_entry(sensors[i].bus, sensors[i].row)
    BY <2>2 DEF sensor_data_get_entry
  <2>4. PICK d \in world.plugged : d.bus = sensors[i].bus /\ sensors[i].row \in FamilyRows(d.row)
    BY <2>2, <2>3, FoundIsPlugged DEF Plugged
  <2>5. sensors[i].row = d.row
    BY <2>1, <2>2, <2>4, DeviceRows, PrimaryOfItself
  <2> QED  BY <2>1, <2>4, <2>5
<1>2. ASSUME NEW d \in world.plugged
      PROVE  [bus |-> d.bus, row |-> d.row] \in Found
  <2>1. d.bus \in 0 .. Buses - 1 /\ d.row \in Rows /\ IsPrimary(d.row) /\ d.row \in FamilyRows(d.row)
    BY DeviceRows DEF FamilyRows
  <2>2. PICK i \in DOMAIN sensors : sensors[i] = [bus |-> d.bus, row |-> d.row]
    BY <2>1, FoundIsPlugged DEF Plugged, sensor_data_get_entry
  <2> QED  BY <2>1, <2>2 DEF Found
<1> QED  BY <1>1, <1>2

(* On a bus without faults, whose devices the drivers can tell apart,      *)
(* detection finds every device by its own driver, on its own bus and      *)
(* nothing else, every sensor found initialises and no read of one ends in *)
(* an error, unless the registry is full (i2c_sensor.c 7609-7793).         *)
THEOREM HealthyBusWorksCorrect == Spec => []HealthyBusWorks
<1> DEFINE W == world.faults = 0 => Working
<1>1. Init => W
  BY WorkingStarts
<1>2. TypeOK /\ W /\ [Next]_vars => W'
  BY WorkingKept
<1>3. TypeOK /\ W => HealthyBusWorks
  BY FoundThere DEF HealthyBusWorks, Working, HealthySensorsWork, Healthy
<1> HIDE DEF W
<1> QED  BY <1>1, <1>2, <1>3, SensorsTypeCorrect, PTL DEF Spec
-----------------------------------------------------------------------------
(* The tables of the light drivers, and what is counted with them.         *)
LightRow == [factor : Nat \ {0}, down : Nat, up : Nat, overflow : Nat]

LEMMA RangeIsRow ==
  ASSUME NEW factor \in Nat \ {0}, NEW down \in Nat, NEW up \in Nat, NEW overflow \in Nat
  PROVE  Range(factor, down, up, overflow) \in LightRow
BY DEF Range, LightRow

LEMMA Tables ==
  ASSUME NEW d \in LightDrivers
  PROVE  Table(d) \in Seq(LightRow) /\ Size(d) \in Nat \ {0}
<1>1. apds9930_rows \in Seq(LightRow) /\ Len(apds9930_rows) = 5
  BY RangeIsRow DEF apds9930_rows
<1>2. /\ SubSeq(apds9930_rows, 1, 4) \in Seq(LightRow)
      /\ Len(SubSeq(apds9930_rows, 1, 4)) = 4
  BY <1>1, SMTT(30)
<1>3. apds9960_rows \in Seq(LightRow) /\ Len(apds9960_rows) = 5
  BY RangeIsRow DEF apds9960_rows
<1>4. tsl2561_rows \in Seq(LightRow) /\ Len(tsl2561_rows) = 4
  BY RangeIsRow DEF tsl2561_rows
<1>5. tsl2591_rows \in Seq(LightRow) /\ Len(tsl2591_rows) = 5
  BY RangeIsRow DEF tsl2591_rows
<1>6. bh1750_rows \in Seq(LightRow) /\ Len(bh1750_rows) = 4
  BY RangeIsRow DEF bh1750_rows
<1>7. veml6040_rows \in Seq(LightRow) /\ Len(veml6040_rows) = 6
  BY RangeIsRow DEF veml6040_rows
<1>8. veml7700_rows \in Seq(LightRow) /\ Len(veml7700_rows) = 6
  BY RangeIsRow DEF veml7700_rows
<1> DEFINE Good(t) == t \in Seq(LightRow) /\ Len(t) \in Nat \ {0}
<1>9. /\ Good(apds9930_rows) /\ Good(SubSeq(apds9930_rows, 1, 4))
      /\ Good(apds9960_rows) /\ Good(tsl2561_rows) /\ Good(tsl2591_rows)
      /\ Good(bh1750_rows) /\ Good(veml6040_rows) /\ Good(veml7700_rows)
  BY <1>1, <1>2, <1>3, <1>4, <1>5, <1>6, <1>7, <1>8
<1> HIDE DEF Good
<1>10. d \in {"apds9930", "tmd2771", "apds9960", "tsl2561",
             "tsl2591", "bh1750", "veml6040", "veml7700"}
  BY LightAssumption
<1>11. Good(Table(d))
  BY <1>9, <1>10 DEF Table
<1> QED  BY <1>11 DEF Good, Size

LEMMA CountsAreNat == MaxCount \in Nat
BY DEF MaxCount

LEMMA FactorsArePositive ==
  ASSUME NEW d \in LightDrivers, NEW i \in 1 .. Size(d)
  PROVE  Table(d)[i].factor \in Nat \ {0}
<1>1. Table(d) \in Seq(LightRow) /\ i \in 1 .. Len(Table(d))
  BY Tables DEF Size
<1>2. Table(d)[i] \in LightRow
  BY <1>1
<1> QED  BY <1>2 DEF LightRow

LEMMA LightChannels ==
  ASSUME NEW d \in LightDrivers, NEW l \in Lights(d)
  PROVE  l.ch0 \in Nat /\ l.ch1 \in Nat
<1>1. PICK b \in Brightness(d) : \E i \in Infrared(d, b) : l = [ch0 |-> b, ch1 |-> i]
  BY DEF Lights
<1>2. PICK i \in Infrared(d, b) : l = [ch0 |-> b, ch1 |-> i]
  BY <1>1
<1>3. PICK c \in {0, 90, 3000, 40000, 60000}, k \in 1 .. Size(d) : b = c * Table(d)[k].factor
  BY DEF Brightness
<1> DEFINE f == Table(d)[k].factor
<1>4. f \in Nat /\ b = c * f
  BY <1>3, FactorsArePositive
<1> HIDE DEF f
<1>5. b \in Nat
  BY <1>3, <1>4
<1>6. i \in {b, b \div 32, 0}
  BY <1>2 DEF Infrared
<1>7. i \in Nat
  BY <1>5, <1>6
<1> QED  BY <1>2, <1>5, <1>7

LEMMA LightCounts ==
  ASSUME NEW d \in LightDrivers, NEW i \in 1 .. Size(d), NEW l \in Nat
  PROVE  Count(d, i, l) \in 0 .. MaxCount
<1> DEFINE g == Table(d)[i].factor
           n == l \div g
<1>1. g \in Nat \ {0}
  BY FactorsArePositive
<1>2. Count(d, i, l) = IF n > MaxCount THEN MaxCount ELSE n
  BY DEF Count
<1> HIDE DEF g
<1>3. n \in Nat
  BY <1>1
<1> HIDE DEF n
<1> QED  BY <1>2, <1>3, CountsAreNat

\* Ranges are opened and closed for any bound: the provers would enumerate
\* one whose bounds they know.
LEMMA InRange == \A m \in Int : \A n : n \in 0 .. m <=> n \in Int /\ 0 <= n /\ n <= m
OBVIOUS

LEMMA MaxCountIsInt == MaxCount \in Int
BY DEF MaxCount

Byte(b) == b \in Int /\ 0 <= b /\ b <= 255

LEMMA HighByte ==
  ASSUME NEW c, c \in Int, 0 <= c, c <= MaxCount
  PROVE  Byte(c \div 256)
<1> DEFINE q == c \div 256
<1>1. q \in Int /\ 256 * q <= c /\ c < 256 * q + 256
  OBVIOUS
<1> HIDE DEF q
<1>2. 0 <= q /\ q <= 255
  BY <1>1 DEF MaxCount
<1> QED  BY <1>1, <1>2 DEF q, Byte

LEMMA TwoBytes ==
  ASSUME NEW high, NEW low, Byte(high), Byte(low)
  PROVE  256 * high + low \in 0 .. MaxCount
<1> DEFINE n == 256 * high + low
<1>1. n \in Int /\ 0 <= n /\ n <= MaxCount
  BY DEF Byte, MaxCount
<1> HIDE DEF n
<1>2. n \in 0 .. MaxCount
  BY <1>1, InRange, MaxCountIsInt
<1> QED  BY <1>2 DEF n

LEMMA SecondReadRange ==
  ASSUME NEW d, NEW c0 \in 0 .. MaxCount, NEW c1 \in 0 .. MaxCount
  PROVE  SecondRead(d, c0, c1) \in 0 .. MaxCount
<1>1. Byte(c0 \div 256) /\ Byte(c1 \div 256)
  BY HighByte, InRange, MaxCountIsInt, Zenon
<1>2. 256 * (c1 \div 256) + c0 \div 256 \in 0 .. MaxCount
  BY <1>1, TwoBytes, Zenon
<1> QED  BY <1>2 DEF SecondRead

(* Of the drivers that invalidate: a device that is switched off holds     *)
(* nothing, and what it holds when a turn may come it has measured in the  *)
(* row it is in.                                                           *)
Fresh ==
  driver \in Invalidating =>
    /\ ~device.late
    /\ ~device.on => device.sample = NoSample
    /\ measured => device.sample = NoSample \/ device.sample.row = device.row

(* The device is a record, which a change to one of its fields needs.      *)
Configured ==
  /\ driver \in LightDrivers
  /\ {"row", "on", "late", "sample"} \subseteq DOMAIN device

Matching == Configured /\ Fresh /\ ValueMatchesRange

LEMMA StartingConfigured ==
  ASSUME Configured, NEW row, NEW fault, Start(row, fault)
  PROVE  {"row", "on", "late", "sample"} \subseteq DOMAIN device'
<1>1. DOMAIN Started(row) = DOMAIN device
  BY DEF Started
<1>2. ASSUME NEW d \in HalfStarted(row) PROVE DOMAIN d = DOMAIN device
  BY <1>2 DEF HalfStarted, Invalidating, OneShot
<1> QED  BY <1>1, <1>2 DEF Start, Configured

LEMMA StartingFresh ==
  ASSUME Matching, driver \in Invalidating, NEW row, NEW fault, Start(row, fault)
  PROVE  /\ ~device'.late
         /\ ~device'.on => device'.sample = NoSample
<1>1. driver # "veml7700" /\ driver \notin OneShot
  BY DEF Invalidating, OneShot
<1>2. CASE device' = Started(row)
  BY <1>1, <1>2 DEF Started, Matching, Configured
<1>3. CASE device' = device
  BY <1>3 DEF Matching, Configured, Fresh
<1>4. CASE device' = [device EXCEPT !.on = FALSE, !.sample = NoSample]
  BY <1>4 DEF Matching, Configured, Fresh
<1>5. HalfStarted(row) = {device, [device EXCEPT !.on = FALSE, !.sample = NoSample]}
  BY <1>1 DEF HalfStarted
<1> QED  BY <1>2, <1>3, <1>4, <1>5 DEF Start

(* What a turn does to the device: nothing, or it starts it.               *)
LEMMA TurnStarts ==
  ASSUME LightTurn, driver \in LightDrivers
  PROVE  device' = device \/ \E row, fault : Start(row, fault)
<1> PICK fault \in {"none", "read", "start"} :
      CASE driver \in Invalidating -> InvalidatingTurn(fault)
        [] driver \in OneShot      -> OneShotTurn(fault)
        [] driver = "veml7700"     -> SkippingTurn(fault)
        [] OTHER                   -> StoringTurn(fault)
  BY DEF LightTurn
<1> DEFINE Either == device' = device \/ \E row, f : Start(row, f)
<1>1. InvalidatingTurn(fault) => Either
  BY DEF InvalidatingTurn, Invalidate, Stay
<1>2. OneShotTurn(fault) => Either
  BY DEF OneShotTurn
<1>3. SkippingTurn(fault) => Either
  BY DEF SkippingTurn
<1>4. StoringTurn(fault) => Either
  BY DEF StoringTurn, Stay
<1> HIDE DEF Either
<1>5. Either
  BY <1>1, <1>2, <1>3, <1>4
<1> QED  BY <1>5 DEF Either

LEMMA MatchingTurn ==
  ASSUME Matching, LightTurn
  PROVE  Matching'
<1>1. measured /\ ~measured' /\ driver' = driver /\ driver \in LightDrivers
  BY DEF LightTurn, Matching, Configured
<1>2. Configured'
  BY <1>1, TurnStarts, StartingConfigured DEF Matching, Configured
<1>3. CASE driver \in Invalidating
  <2>1. PICK fault \in {"none", "read", "start"} : InvalidatingTurn(fault)
    BY <1>3 DEF LightTurn, Invalidating, OneShot
  <2>2. CASE Stay
    BY <1>1, <1>2, <2>2 DEF Stay, Matching, Fresh, ValueMatchesRange
  <2>3. ASSUME NEW row, Invalidate(row, fault) PROVE Matching'
    <3>1. Start(row, fault) /\ ~valid'
      BY <2>3 DEF Invalidate
    <3>2. /\ ~device'.late
          /\ ~device'.on => device'.sample = NoSample
      BY <1>3, <3>1, StartingFresh
    <3> QED  BY <1>1, <1>2, <3>1, <3>2 DEF Matching, Fresh, ValueMatchesRange
  <2>4. CASE /\ device.sample # NoSample
             /\ raw' = device.sample /\ UNCHANGED <<scaling, device>>
    <3>1. raw'.row = device.row
      BY <1>1, <1>3, <2>4 DEF Matching, Fresh
    <3> QED  BY <1>1, <1>2, <2>4, <3>1 DEF Matching, Fresh, ValueMatchesRange
  <2> QED  BY <2>1, <2>2, <2>3, <2>4 DEF InvalidatingTurn
<1>4. CASE driver \notin Invalidating
  BY <1>1, <1>2, <1>4 DEF Matching, Fresh, ValueMatchesRange
<1> QED  BY <1>3, <1>4

LEMMA MatchingIntegrate ==
  ASSUME Matching, Integrate
  PROVE  Matching'
<1>1. /\ driver' = driver /\ UNCHANGED <<raw, valid, scaling>>
      /\ {"row", "on", "late", "sample"} \subseteq DOMAIN device
  BY DEF Integrate, Matching, Configured
<1>2. CASE /\ device.on
           /\ device' = [device EXCEPT !.sample = Sample(driver, device.row, light),
                                      !.late = FALSE, !.on = driver \notin OneShot]
  <2>1. /\ device'.row = device.row /\ ~device'.late
        /\ device'.on = (driver \notin OneShot)
        /\ device'.sample.row = device.row
        /\ DOMAIN device' = DOMAIN device
    BY <1>1, <1>2 DEF Sample
  <2>2. driver \in Invalidating => driver \notin OneShot
    BY DEF Invalidating, OneShot
  <2> QED  BY <1>1, <2>1, <2>2 DEF Matching, Configured, Fresh, ValueMatchesRange
<1>3. CASE device.late /\ device' = [device EXCEPT !.late = FALSE]
  <2>1. driver \notin Invalidating /\ DOMAIN device' = DOMAIN device
    BY <1>3 DEF Matching, Fresh
  <2> QED  BY <1>1, <2>1 DEF Matching, Configured, Fresh, ValueMatchesRange
<1>4. CASE ~device.on /\ UNCHANGED device
  BY <1>1, <1>4 DEF Matching, Configured, Fresh, ValueMatchesRange
<1> QED  BY <1>2, <1>3, <1>4 DEF Integrate

LEMMA MatchingKept == Matching /\ [RoundsNext]_roundvars => Matching'
<1> SUFFICES ASSUME Matching, [RoundsNext]_roundvars PROVE Matching'
  OBVIOUS
<1>1. CASE LightTurn
  BY <1>1, MatchingTurn
<1>2. CASE Integrate
  BY <1>2, MatchingIntegrate
<1>3. CASE UNCHANGED <<driver, device, measured, valid, raw, scaling>>
  BY <1>3 DEF Matching, Configured, Fresh, ValueMatchesRange
<1>4. LightChanges \/ UNCHANGED lightvars
        => UNCHANGED <<driver, device, measured, valid, raw, scaling>>
  BY DEF LightChanges, lightvars
<1> QED  BY <1>1, <1>2, <1>3, <1>4
         DEF RoundsNext, Light, Air, LightNext, roundvars

(* A valid value of a light sensor was counted in the row whose factor a   *)
(* read applies to it, unless the device never heard that the row had      *)
(* changed (i2c_sensor.c 467-1239).                                        *)
THEOREM ValuesMatch == RoundsSpec => []ValueMatchesRange
<1>1. RoundsInit => Matching
  <2> SUFFICES ASSUME RoundsInit PROVE Matching
    OBVIOUS
  <2>1. /\ driver \in LightDrivers /\ ~valid /\ ~measured
        /\ device = [row |-> IF scaling > Size(driver) THEN Size(driver) ELSE scaling,
                     on |-> lightfaults = 0, late |-> FALSE, sample |-> NoSample]
    BY DEF RoundsInit, LightInit
  <2> QED  BY <2>1 DEF Matching, Configured, Fresh, ValueMatchesRange
<1>2. Matching => ValueMatchesRange
  BY DEF Matching
<1> QED  BY <1>1, <1>2, MatchingKept, PTL DEF RoundsSpec

-----------------------------------------------------------------------------
Gauge == [busy : SUBSET Quantities, ready : SUBSET Quantities,
          mode : {"none", "t", "h"}, up : BOOLEAN, calibrating : BOOLEAN]

(* What a turn of an air sensor may change, and how.                       *)
TurnOK == /\ state' \in {"calibrating", "start_measure", "measuring"}
          /\ gauge' \in Gauge /\ fresh' \subseteq Quantities

LEMMA AirParts ==
  ASSUME AirTypeOK
  PROVE  /\ state \in {"calibrating", "start_measure", "measuring"}
         /\ gauge \in Gauge /\ fresh \subseteq Quantities
         /\ gauge.busy \subseteq Quantities /\ gauge.ready \subseteq Quantities
         /\ gauge.up \in BOOLEAN
BY DEF AirTypeOK, Gauge

LEMMA NothingTurn == AirTypeOK /\ Nothing => TurnOK
BY AirParts DEF Nothing, TurnOK

LEMMA CollectTurn ==
  ASSUME AirTypeOK,
         NEW what \in SUBSET Quantities, NEW next \in SUBSET Quantities,
         NEW started, NEW left \in SUBSET Quantities,
         Collect(what, next, started, left)
  PROVE  TurnOK
<1>1. state' = state /\ fresh' = what
  BY DEF Collect
<1>3. gauge' \in Gauge
  <2>1. CASE started
    BY <2>1, AirParts DEF Collect, Gauge
  <2>2. CASE ~started
    BY <2>2, AirParts DEF Collect, Gauge
  <2> QED  BY <2>1, <2>2
<1> QED  BY <1>1, <1>3, AirParts DEF TurnOK

LEMMA AirTurns ==
  ASSUME AirTypeOK, NEW failed, Turn(failed)
  PROVE  TurnOK
<1>1. /\ {} \in SUBSET Quantities /\ Quantities \in SUBSET Quantities
      /\ {"t"} \in SUBSET Quantities /\ {"h"} \in SUBSET Quantities
      /\ gauge.ready \in SUBSET Quantities /\ Quantities \ gauge.ready \in SUBSET Quantities
  BY AirParts DEF Quantities
<1>2. CASE Sht30Turn(failed)
  <2> DEFINE collected == IF gauge.busy # {} \/ failed = 1 THEN {} ELSE gauge.ready
  <2>1. collected \in SUBSET Quantities /\ gauge.ready \ collected \in SUBSET Quantities
    BY <1>1
  <2>2. Collect(collected, Quantities, failed # 2, gauge.ready \ collected)
    BY <1>2 DEF Sht30Turn
  <2> HIDE DEF collected
  <2> QED  BY <1>1, <2>1, <2>2, CollectTurn
<1>3. CASE Hdc1080Turn(failed)
  <2>1. CASE Nothing
    BY <2>1, NothingTurn
  <2>2. CASE Collect(gauge.ready, Quantities, failed # 2, {})
    BY <1>1, <2>2, CollectTurn
  <2> QED  BY <1>3, <2>1, <2>2 DEF Hdc1080Turn
<1>4. CASE Htu21Turn(failed)
  <2>1. CASE Nothing
    BY <2>1, NothingTurn
  <2>2. CASE Collect({}, {"t"}, TRUE, {})
    BY <1>1, <2>2, CollectTurn
  <2>3. CASE Collect(gauge.ready, Quantities \ gauge.ready, failed # 3, {})
    BY <1>1, <2>3, CollectTurn
  <2> QED  BY <1>4, <2>1, <2>2, <2>3 DEF Htu21Turn
<1>5. CASE Mpl3115a2Turn(failed)
  <2>1. CASE Nothing
    BY <2>1, NothingTurn
  <2>2. CASE Collect(gauge.ready, Quantities, failed # 3, {})
    BY <1>1, <2>2, CollectTurn
  <2> QED  BY <1>5, <2>1, <2>2 DEF Mpl3115a2Turn
<1>6. CASE DirectTurn(failed)
  <2>1. CASE Nothing
    BY <2>1, NothingTurn
  <2>2. CASE Collect({}, Quantities, TRUE, {})
    BY <1>1, <2>2, CollectTurn
  <2> QED  BY <1>6, <2>1, <2>2 DEF DirectTurn
<1>7. CASE Bmp085Turn(failed)
  <2>1. CASE Nothing
    BY <2>1, NothingTurn
  <2>2. CASE Collect(gauge.ready, {"h"}, failed # 3, {})
    BY <1>1, <2>2, CollectTurn
  <2>3. CASE Collect(gauge.ready, {"t"}, failed # 3, {})
    BY <1>1, <2>3, CollectTurn
  <2> QED  BY <1>7, <2>1, <2>2, <2>3 DEF Bmp085Turn
<1>8. CASE Am2320Turn(failed)
  <2>1. CASE Nothing
    BY <2>1, NothingTurn
  <2>2. CASE /\ fresh' = IF gauge.up THEN Quantities ELSE {}
             /\ gauge' = [gauge EXCEPT !.up = TRUE]
             /\ UNCHANGED state
    BY <1>1, <2>2, AirParts DEF TurnOK, Gauge
  <2> QED  BY <1>8, <2>1, <2>2 DEF Am2320Turn
<1>9. CASE Aht10Turn(failed)
  <2>1. CASE Nothing
    BY <2>1, NothingTurn
  <2>2. CASE state' = "start_measure" /\ fresh' = {} /\ UNCHANGED gauge
    BY <1>1, <2>2, AirParts DEF TurnOK
  <2>3. CASE /\ gauge' = [gauge EXCEPT !.busy = Quantities, !.ready = {}]
             /\ state' = IF failed = 3 THEN state ELSE "measuring"
             /\ fresh' = {}
    BY <1>1, <2>3, AirParts DEF TurnOK, Gauge
  <2>4. CASE /\ fresh' = gauge.ready
             /\ gauge' = [gauge EXCEPT !.ready = {}]
             /\ state' = "start_measure"
    BY <1>1, <2>4, AirParts DEF TurnOK, Gauge
  <2>5. CASE state = "calibrating"
    BY <1>9, <2>1, <2>2, <2>5 DEF Aht10Turn
  <2>6. CASE state = "start_measure"
    BY <1>9, <2>1, <2>3, <2>6 DEF Aht10Turn
  <2>7. CASE state = "measuring"
    BY <1>9, <2>1, <2>4, <2>7 DEF Aht10Turn
  <2> QED  BY <2>5, <2>6, <2>7, AirParts
<1>10. air \in {"sht30", "hdc1080", "htu21", "mpl3115a2", "bmp085", "am2320",
               "aht10", "bme680", "bmx280"}
  BY AirAssumption DEF AirTypeOK, Reading, Direct
<1> HIDE DEF TurnOK
<1> QED  BY <1>2, <1>3, <1>4, <1>5, <1>6, <1>7, <1>8, <1>9, <1>10
         DEF Turn, Direct

LEMMA AirKept == AirTypeOK /\ [AirNext]_airvars => AirTypeOK'
<1> SUFFICES ASSUME AirTypeOK, [AirNext]_airvars PROVE AirTypeOK'
  OBVIOUS
<1>1. CASE AirTurn
  <2>1. PICK failed \in 0 .. 3 :
          /\ failed # 0 => airfaults < MaxAirFaults
          /\ airfaults' = IF failed = 0 THEN airfaults ELSE airfaults + 1
          /\ Turn(failed)
    BY <1>1 DEF AirTurn
  <2>2. TurnOK
    BY <2>1, AirTurns
  <2>3. airfaults' \in 0 .. MaxAirFaults
    BY <2>1, AirAssumption DEF AirTypeOK
  <2>4. air' = air
    BY <1>1 DEF AirTurn
  <2> QED  BY <2>2, <2>3, <2>4 DEF TurnOK, Gauge, AirTypeOK
<1>2. CASE Convert
  <2>1. fresh' \subseteq Quantities /\ UNCHANGED <<air, state, airfaults>>
    BY <1>2, AirParts DEF Convert
  <2>2. gauge' \in Gauge
    BY <1>2, AirParts DEF Convert, Gauge
  <2> QED  BY <2>1, <2>2 DEF Gauge, AirTypeOK
<1>3. CASE Calibrate \/ FallAsleep
  <2>1. gauge' \in Gauge
    BY <1>3, AirParts DEF Calibrate, FallAsleep, Gauge
  <2>2. UNCHANGED <<air, state, fresh, airfaults>>
    BY <1>3 DEF Calibrate, FallAsleep
  <2> QED  BY <2>1, <2>2 DEF Gauge, AirTypeOK
<1>4. CASE UNCHANGED airvars
  BY <1>4 DEF airvars, AirTypeOK
<1> QED  BY <1>1, <1>2, <1>3, <1>4 DEF AirNext

LEMMA AirAlways == RoundsSpec => []AirTypeOK
<1>1. RoundsInit => AirTypeOK
  <2> SUFFICES ASSUME RoundsInit PROVE AirTypeOK
    OBVIOUS
  <2>1. /\ air \in AirDrivers /\ airfaults \in 0 .. MaxAirFaults /\ state = "calibrating"
        /\ fresh = {}
    BY AirAssumption DEF RoundsInit, AirInit
  <2>2. FirstMeasured(air) \subseteq Quantities
    BY DEF FirstMeasured, Quantities
  <2>3. gauge \in Gauge
    BY <2>2 DEF RoundsInit, AirInit, Gauge
  <2> QED  BY <2>1, <2>3 DEF AirTypeOK, Gauge
<1>2. [RoundsNext]_roundvars => [AirNext]_airvars
  BY DEF RoundsNext, Light, Air, roundvars, airvars
<1> QED  BY <1>1, <1>2, AirKept, PTL DEF RoundsSpec

-----------------------------------------------------------------------------
(* The type of the light drivers, the device and what it holds included.   *)
TableRows(d) == 1 .. Size(d) + (IF d = "veml6040" THEN 1 ELSE 0)

SampleOK(d, s) == s.row \in 0 .. Size(d) /\ {s.ch0, s.ch1} \subseteq 0 .. MaxCount

DeviceOK(d, v) ==
  /\ {"row", "on", "late", "sample"} \subseteq DOMAIN v
  /\ v.row \in 1 .. Size(d) /\ v.on \in BOOLEAN /\ v.late \in BOOLEAN
  /\ SampleOK(d, v.sample)

LightOK == LightTypeOK /\ DeviceOK(driver, device)

LEMMA LightParts ==
  ASSUME LightOK
  PROVE  /\ driver \in LightDrivers /\ Size(driver) \in Nat \ {0}
         /\ scaling \in TableRows(driver) /\ scaling \in Int
         /\ driver # "veml6040" => scaling \in 1 .. Size(driver)
         /\ SampleOK(driver, raw) /\ SampleOK(driver, device.sample)
         /\ DeviceOK(driver, device)
<1>1. driver \in LightDrivers /\ scaling \in TableRows(driver)
  BY DEF LightOK, LightTypeOK, TableRows
<1>2. Size(driver) \in Nat \ {0}
  BY <1>1, Tables
<1>3. scaling \in Int /\ (driver # "veml6040" => scaling \in 1 .. Size(driver))
  BY <1>1, <1>2 DEF TableRows
<1>4. SampleOK(driver, raw) /\ SampleOK(driver, device.sample)
  BY DEF LightOK, LightTypeOK, SampleOK, DeviceOK
<1> QED  BY <1>1, <1>2, <1>3, <1>4 DEF LightOK

LEMMA NoSampleOK == ASSUME LightOK PROVE SampleOK(driver, NoSample)
BY LightParts, CountsAreNat DEF SampleOK, NoSample

LEMMA StartOK ==
  ASSUME LightOK, NEW row \in 1 .. Size(driver), NEW fault, Start(row, fault)
  PROVE  DeviceOK(driver, device')
<1>1. DeviceOK(driver, device)
  BY DEF LightOK
<1>2. DeviceOK(driver, Started(row))
  <2>1. (driver = "veml7700") \in BOOLEAN
    OBVIOUS
  <2> QED  BY <1>1, <2>1 DEF DeviceOK, Started
<1>3. ASSUME NEW v \in HalfStarted(row) PROVE DeviceOK(driver, v)
  <2>1. CASE v = device
    BY <1>1, <2>1
  <2>2. CASE v = [device EXCEPT !.on = FALSE]
    BY <1>1, <2>2 DEF DeviceOK
  <2>3. CASE v = [device EXCEPT !.on = FALSE, !.sample = NoSample]
    BY <1>1, <2>3, NoSampleOK DEF DeviceOK
  <2> QED  BY <1>3, <2>1, <2>2, <2>3 DEF HalfStarted, Invalidating, OneShot
<1> QED  BY <1>2, <1>3 DEF Start

(* The row a turn moves to is one of the table.                            *)
LEMMA MovedOK ==
  ASSUME LightOK, InTable, NEW s
  PROVE  /\ scaling \in 1 .. Size(driver)
         /\ Moved(driver, scaling, s) \in 1 .. Size(driver)
         /\ UpAfterDown(driver, scaling, s) => scaling - 1 \in 1 .. Size(driver)
<1>1. Size(driver) \in Nat \ {0} /\ scaling \in 1 .. Size(driver)
  BY LightParts DEF TableRows, InTable
<1>2. Down(driver, scaling, s) => scaling - 1 \in 1 .. Size(driver)
  BY <1>1 DEF Down
<1>3. Up(driver, scaling, s) => scaling + 1 \in 1 .. Size(driver)
  BY <1>1 DEF Up
<1>4. UpAfterDown(driver, scaling, s) => Down(driver, scaling, s)
  BY DEF UpAfterDown
<1> QED  BY <1>1, <1>2, <1>3, <1>4 DEF Moved

\* Only the veml6040 is ever past its table.
LEMMA MostlyInTable == ASSUME LightOK, driver # "veml6040" PROVE InTable
BY LightParts DEF InTable

LEMMA RowsOfTable2 == ASSUME LightOK, NEW row \in 1 .. Size(driver) PROVE row \in TableRows(driver)
BY LightParts DEF TableRows

(* What a turn may change, and how.                                        *)
LightTurnOK ==
  /\ scaling' \in TableRows(driver)
  /\ raw' \in {raw, NoSample, device.sample}
  /\ valid' \in BOOLEAN /\ skip_next' \in BOOLEAN
  /\ DeviceOK(driver, device')

LEMMA Flags == ASSUME LightOK PROVE valid \in BOOLEAN /\ skip_next \in BOOLEAN
BY DEF LightOK, LightTypeOK

LEMMA StayOK == ASSUME LightOK, Stay PROVE LightTurnOK
BY LightParts, Flags DEF Stay, LightTurnOK

LEMMA InvalidatingOK ==
  ASSUME LightOK, driver \in Invalidating, NEW fault, InvalidatingTurn(fault)
  PROVE  LightTurnOK
<1>1. InTable
  BY MostlyInTable DEF Invalidating
<1>2. ASSUME NEW row \in 1 .. Size(driver), Invalidate(row, fault) PROVE LightTurnOK
  BY <1>2, RowsOfTable2, StartOK, Flags DEF Invalidate, LightTurnOK
<1>3. ASSUME raw' = device.sample, valid' = TRUE, UNCHANGED <<scaling, skip_next, device>>
      PROVE  LightTurnOK
  BY <1>3, LightParts, Flags DEF LightTurnOK
<1>4. /\ scaling \in 1 .. Size(driver)
      /\ Moved(driver, scaling, device.sample) \in 1 .. Size(driver)
  BY <1>1, MovedOK
<1> HIDE DEF LightTurnOK
<1> QED  BY <1>2, <1>3, <1>4, StayOK DEF InvalidatingTurn

LEMMA Stores ==
  ASSUME NEW s, Store(s)
  PROVE  raw' \in {raw, s}
BY DEF Store

LEMMA StoringOK ==
  ASSUME LightOK, driver # "veml6040", NEW fault, StoringTurn(fault)
  PROVE  LightTurnOK
<1>1. CASE Stay
  BY <1>1, StayOK
<1>2. CASE ~Stay
  <2> DEFINE s == device.sample
  <2>1. /\ scaling' = Moved(driver, scaling, s) /\ Store(s)
        /\ UNCHANGED <<valid, skip_next>>
        /\ \/ /\ UpAfterDown(driver, scaling, s)
              /\ \E row \in {scaling - 1, scaling} : Start(row, "none")
           \/ Start(scaling', fault)
           \/ UNCHANGED device
    BY <1>2 DEF StoringTurn
  <2>2. raw' \in {raw, device.sample}
    BY <2>1, Stores
  <2>3. /\ scaling \in 1 .. Size(driver) /\ scaling' \in 1 .. Size(driver)
        /\ UpAfterDown(driver, scaling, s) => scaling - 1 \in 1 .. Size(driver)
    BY <2>1, MovedOK, MostlyInTable
  <2>4. DeviceOK(driver, device')
    <3>1. ASSUME UpAfterDown(driver, scaling, s), NEW row \in {scaling - 1, scaling}, Start(row, "none")
          PROVE  DeviceOK(driver, device')
      BY <3>1, <2>3, StartOK
    <3>2. CASE Start(scaling', fault)
      BY <3>2, <2>3, StartOK
    <3>3. CASE UNCHANGED device
      BY <3>3, LightParts
    <3> QED  BY <2>1, <3>1, <3>2, <3>3
  <2> QED  BY <2>1, <2>2, <2>3, <2>4, RowsOfTable2, Flags DEF LightTurnOK
<1> QED  BY <1>1, <1>2

LEMMA OneShotOK ==
  ASSUME LightOK, NEW fault, OneShotTurn(fault)
  PROVE  LightTurnOK
<1>1. CASE fault = "read"
  <2>1. Stay
    BY <1>1 DEF OneShotTurn, Stay
  <2> QED  BY <2>1, StayOK
<1>2. CASE fault # "read"
  <2> DEFINE s == device.sample
  <2>1. /\ UNCHANGED <<valid, skip_next>> /\ Store(s)
        /\ IF scaling' <= Size(driver) THEN Start(scaling', fault)
           ELSE Start(Size(driver), fault)
        /\ scaling' \in CASE ~InTable -> {scaling, scaling - 1}
                          [] InTable /\ driver = "bh1750" /\ s.ch0 = 0 -> {scaling}
                          [] OTHER -> {Moved(driver, scaling, s)}
    BY <1>2 DEF OneShotTurn
  <2>2. raw' \in {raw, s}
    BY <2>1, Stores
  <2>3. /\ Size(driver) \in Nat \ {0} /\ scaling \in TableRows(driver)
        /\ scaling \in Int
    BY LightParts
  <2>4. scaling' \in TableRows(driver)
    <3>1. CASE ~InTable
      <4>1. scaling' \in {scaling, scaling - 1}
        BY <2>1, <3>1
      <4> QED  BY <2>3, <3>1, <4>1 DEF InTable, TableRows
    <3>2. CASE InTable
      <4>1. scaling' \in {scaling, Moved(driver, scaling, s)}
        BY <2>1, <3>2
      <4> QED  BY <3>2, <4>1, MovedOK, RowsOfTable2
    <3> QED  BY <3>1, <3>2
  <2>5. DeviceOK(driver, device')
    <3>1. CASE scaling' <= Size(driver)
      <4>1. scaling' \in 1 .. Size(driver)
        BY <2>3, <2>4, <3>1 DEF TableRows
      <4> QED  BY <2>1, <3>1, <4>1, StartOK
    <3>2. CASE ~(scaling' <= Size(driver))
      <4>1. Size(driver) \in 1 .. Size(driver)
        BY <2>3
      <4> QED  BY <2>1, <3>2, <4>1, StartOK
    <3> QED  BY <3>1, <3>2
  <2> QED  BY <2>1, <2>2, <2>4, <2>5, Flags DEF LightTurnOK
<1> QED  BY <1>1, <1>2

LEMMA SkippingOK ==
  ASSUME LightOK, driver # "veml6040", NEW fault, SkippingTurn(fault)
  PROVE  LightTurnOK
<1> DEFINE s == device.sample
<1>1. ASSUME UNCHANGED <<valid, scaling, raw, device>>, skip_next' \in {FALSE, skip_next}
      PROVE  LightTurnOK
  BY <1>1, LightParts, Flags DEF LightTurnOK
<1>2. ASSUME scaling' = Moved(driver, scaling, s), skip_next' = TRUE,
             Start(scaling', fault), UNCHANGED <<raw, valid>>
      PROVE  LightTurnOK
  <2>1. scaling' \in 1 .. Size(driver)
    BY <1>2, MovedOK, MostlyInTable
  <2> QED  BY <1>2, <2>1, RowsOfTable2, StartOK, Flags DEF LightTurnOK
<1>3. ASSUME raw' = s, UNCHANGED <<valid, scaling, skip_next, device>>
      PROVE  LightTurnOK
  BY <1>3, LightParts, Flags DEF LightTurnOK
<1> HIDE DEF LightTurnOK
<1> QED  BY <1>1, <1>2, <1>3 DEF SkippingTurn

LEMMA LightTurns ==
  ASSUME LightOK, LightTurn
  PROVE  LightTurnOK /\ lightfaults' \in 0 .. MaxLightFaults
<1> PICK fault \in {"none", "read", "start"} :
      /\ fault # "none" => lightfaults < MaxLightFaults
      /\ lightfaults' = IF fault = "none" THEN lightfaults ELSE lightfaults + 1
      /\ CASE driver \in Invalidating -> InvalidatingTurn(fault)
           [] driver \in OneShot      -> OneShotTurn(fault)
           [] driver = "veml7700"     -> SkippingTurn(fault)
           [] OTHER                   -> StoringTurn(fault)
  BY DEF LightTurn
<1>1. lightfaults' \in 0 .. MaxLightFaults
  BY LightAssumption DEF LightOK, LightTypeOK
<1>2. \/ driver \in Invalidating /\ InvalidatingTurn(fault)
      \/ OneShotTurn(fault)
      \/ driver # "veml6040" /\ (SkippingTurn(fault) \/ StoringTurn(fault))
  BY DEF Invalidating, OneShot
<1> QED  BY <1>1, <1>2, InvalidatingOK, OneShotOK, SkippingOK, StoringOK

LEMMA LightKept == LightOK /\ [LightNext]_lightvars => LightOK'
<1> SUFFICES ASSUME LightOK, [LightNext]_lightvars PROVE LightOK'
  OBVIOUS
<1>1. CASE LightTurn
  <2>1. LightTurnOK /\ lightfaults' \in 0 .. MaxLightFaults
    BY <1>1, LightTurns
  <2>2. measured' = FALSE /\ UNCHANGED <<driver, light, changes>>
    BY <1>1 DEF LightTurn
  <2>3. SampleOK(driver, raw')
    BY <2>1, LightParts, NoSampleOK DEF LightTurnOK
  <2> QED  BY <2>1, <2>2, <2>3
           DEF LightOK, LightTypeOK, LightTurnOK, TableRows, SampleOK, DeviceOK
<1>2. CASE Integrate
  <2>1. measured' = TRUE
    BY <1>2 DEF Integrate
  <2>2. UNCHANGED <<driver, light, scaling, raw, valid, skip_next, changes, lightfaults>>
    BY <1>2 DEF Integrate
  <2>3. DeviceOK(driver, device')
    <3>1. DeviceOK(driver, device) /\ driver \in LightDrivers
      BY LightParts
    <3>2. CASE /\ device.on
               /\ device' = [device EXCEPT !.sample = Sample(driver, device.row, light),
                                          !.late = FALSE, !.on = driver \notin OneShot]
      <4>1. device.row \in 1 .. Size(driver) /\ light \in Lights(driver)
        BY <3>1 DEF DeviceOK, LightOK, LightTypeOK
      <4>2. /\ Count(driver, device.row, light.ch0) \in 0 .. MaxCount
            /\ Count(driver, device.row, light.ch1) \in 0 .. MaxCount
        BY <3>1, <4>1, LightChannels, LightCounts
      <4>3. SampleOK(driver, Sample(driver, device.row, light))
        BY <4>1, <4>2, SecondReadRange, LightParts DEF SampleOK, Sample
      <4>4. (driver \notin OneShot) \in BOOLEAN
        OBVIOUS
      <4> QED  BY <3>1, <3>2, <4>3, <4>4 DEF DeviceOK
    <3>3. CASE device' = [device EXCEPT !.late = FALSE]
      BY <3>1, <3>3 DEF DeviceOK
    <3> QED  BY <1>2, <3>1, <3>2, <3>3 DEF Integrate
  <2> QED  BY <2>1, <2>2, <2>3 DEF LightOK, LightTypeOK, DeviceOK
<1>3. CASE LightChanges
  <2>1. changes' \in 0 .. MaxChanges
    BY <1>3, LightAssumption DEF LightChanges, LightOK, LightTypeOK
  <2> QED  BY <1>3, <2>1 DEF LightChanges, LightOK, LightTypeOK
<1>4. CASE UNCHANGED lightvars
  BY <1>4 DEF lightvars, LightOK, LightTypeOK
<1> QED  BY <1>1, <1>2, <1>3, <1>4 DEF LightNext

(* The drivers keep to the rows of their tables, but for the veml6040,     *)
(* which starts one past them (i2c_sensor.c 467-2737, 6293-6652), and both *)
(* sorts of sensors to their types.                                        *)
THEOREM RoundsTypeCorrect == RoundsSpec => []RoundsTypeOK
<1>1. RoundsInit => LightOK
  <2> SUFFICES ASSUME RoundsInit PROVE LightOK
    OBVIOUS
  <2>1. /\ driver \in LightDrivers /\ light \in Lights(driver) /\ scaling = FirstScaling(driver)
        /\ raw = NoSample /\ valid = FALSE /\ skip_next = FALSE
        /\ device = [row |-> IF scaling > Size(driver) THEN Size(driver) ELSE scaling,
                     on |-> lightfaults = 0, late |-> FALSE, sample |-> NoSample]
        /\ measured = FALSE /\ changes = 0
    BY DEF RoundsInit, LightInit
  <2>2. Size(driver) \in Nat \ {0}
    BY <2>1, Tables
  <2>3. scaling \in TableRows(driver)
    BY <2>1, <2>2 DEF FirstScaling, TableRows
  <2>4. SampleOK(driver, NoSample)
    BY <2>2, CountsAreNat DEF SampleOK, NoSample
  <2>5. DeviceOK(driver, device)
    <3>1. (lightfaults = 0) \in BOOLEAN
      OBVIOUS
    <3> QED  BY <2>1, <2>2, <2>3, <2>4, <3>1 DEF DeviceOK, TableRows
  <2>6. 0 \in 0 .. MaxChanges /\ lightfaults \in 0 .. MaxLightFaults
    BY LightAssumption DEF RoundsInit, LightInit
  <2> QED  BY <2>1, <2>3, <2>4, <2>5, <2>6
           DEF LightOK, LightTypeOK, TableRows, SampleOK, DeviceOK
<1>2. [RoundsNext]_roundvars => [LightNext]_lightvars
  BY DEF RoundsNext, Light, Air, roundvars, lightvars
<1>3. RoundsInit => sort \in {"light", "air"}
  BY DEF RoundsInit
<1>4. sort \in {"light", "air"} /\ [RoundsNext]_roundvars => (sort \in {"light", "air"})'
  BY DEF RoundsNext, Light, Air, roundvars
<1>5. sort \in {"light", "air"} /\ LightOK /\ AirTypeOK => RoundsTypeOK
  BY DEF LightOK, RoundsTypeOK
<1> QED  BY <1>1, <1>2, <1>3, <1>4, <1>5, LightKept, AirAlways, PTL DEF RoundsSpec
=============================================================================
