----------------------------- MODULE Autorange -----------------------------
(* The light sensors of i2c_sensor.c that choose their own range.  Each has  *)
(* a table of configurations, the most sensitive one first; in its turn in   *)
(* the background it reads what the device counted, moves one row when a     *)
(* count is out of that row's bounds, and writes the new configuration to    *)
(* the device.  A read multiplies the stored counts with the factor of the   *)
(* CURRENT row, whichever row they were counted in.                          *)
(*                                                                           *)
(* Eight devices, seven drivers, each with its own order of these things.    *)
(* The device and the light are the environment: between two turns the       *)
(* device completes a measurement, the light may change, and a transaction   *)
(* may fail.                                                                 *)
(*                                                                           *)
(* Four of the devices have two channels, one for all light and one for      *)
(* infrared, and their drivers hold every threshold against both.            *)
EXTENDS Integers, Sequences

CONSTANTS LightDrivers,  \* the drivers to look at
          MaxChanges     \* how often the light changes
CONSTANT MaxLightFaults  \* how many turns a transaction fails in

ASSUME LightAssumption ==
    /\ LightDrivers \subseteq {"apds9930", "tmd2771", "apds9960", "tsl2561",
                               "tsl2591", "bh1750", "veml6040", "veml7700"}
    /\ MaxChanges \in Nat /\ MaxLightFaults \in Nat

VARIABLES driver,   \* which driver this is
          light,    \* in each channel, in the units in which the first row counts one
          scaling,  \* current_scaling, counted from 1
          raw,      \* the stored counts, and the row they were counted in
          valid,    \* data_valid, where the driver has it
          skip_next,\* veml7700: the next count is not to be trusted
          device,   \* its configuration, whether it measures, its last measurement
          measured, \* the second between two turns has passed
          changes, lightfaults

lightvars == <<driver, light, scaling, raw, valid, skip_next, device, measured, changes, lightfaults>>

(* A row: light per count, thresholds, overflow.  The factors are the ones   *)
(* of the source, which are inverse to integration time and gain for the     *)
(* apds drivers, divided by the first row's.                                 *)
Range(factor, down, up, overflow) == [factor |-> factor, down |-> down, up |-> up, overflow |-> overflow]

apds9930_rows == <<Range(1, 0, 32768, 65535), Range(8, 100, 32768, 65535), Range(30, 100, 32768, 65535),
                   Range(479, 100, 32768, 65535), Range(1997, 100, 65536, 65535)>>
apds9960_rows == <<Range(1, 0, 32768, 65536), Range(4, 100, 32768, 65536), Range(65, 100, 32768, 65536),
                   Range(260, 100, 32768, 65536), Range(16391, 100, 65536, 65536)>>
tsl2561_rows == <<Range(1, 0, 50000, 65535), Range(15, 256, 50000, 65535), Range(58, 256, 50000, 31711),
                  Range(417, 256, 50000, 5047)>>
tsl2591_rows == <<Range(1, 0, 50000, 56095), Range(60, 100, 50000, 56095), Range(510, 100, 50000, 65536),
                  Range(5104, 100, 50000, 65536), Range(20416, 100, 50000, 65536)>>
bh1750_rows == <<Range(1, 0, 50000, 65535), Range(4, 1000, 50000, 65535), Range(8, 1000, 50000, 65535),
                 Range(18, 1000, 65536, 65535)>>
veml6040_rows == <<Range(1, 0, 50000, 65535), Range(2, 100, 50000, 65535), Range(4, 100, 50000, 65535),
                   Range(8, 100, 50000, 65535), Range(16, 100, 50000, 65535), Range(32, 100, 65536, 65535)>>
veml7700_rows == <<Range(1, 0, 32768, 65536), Range(16, 100, 32768, 65536), Range(4, 100, 32768, 65536),
                   Range(64, 100, 32768, 65536), Range(32, 100, 32768, 65536), Range(512, 100, 65536, 65536)>>

(* The tmd2771 shares the driver of the apds9930 but has no use for the last *)
(* row, the one with the attenuator.                                         *)
Table(d) == CASE d = "apds9930" -> apds9930_rows
              [] d = "tmd2771"  -> SubSeq(apds9930_rows, 1, 4)
              [] d = "apds9960" -> apds9960_rows
              [] d = "tsl2561"  -> tsl2561_rows
              [] d = "tsl2591"  -> tsl2591_rows
              [] d = "bh1750"   -> bh1750_rows
              [] d = "veml6040" -> veml6040_rows
              [] d = "veml7700" -> veml7700_rows

Size(d) == Len(Table(d))

TwoChannels == {"apds9930", "tmd2771", "tsl2561", "tsl2591"}

(* Light that puts a count on each side of every threshold, in every row, as *)
(* infrared as it can be, hardly, or not at all.  A driver that looks at one *)
(* channel only is given the same light in both.                             *)
Brightness(d) == {count * Table(d)[i].factor : count \in {0, 90, 3000, 40000, 60000}, i \in 1 .. Size(d)}
Infrared(d, b) == IF d \in TwoChannels THEN {b, b \div 32, 0} ELSE {b}
Lights(d) == UNION {{[ch0 |-> b, ch1 |-> i] : i \in Infrared(d, b)} : b \in Brightness(d)}

MaxCount == 65535 \* the counts are 16 bits wide

Count(d, i, l) == LET n == l \div Table(d)[i].factor IN IF n > MaxCount THEN MaxCount ELSE n

(* What a driver reads of the second channel.  Those of the tsl2561 and      *)
(* tsl2591 take the high byte of the first for the low byte of the second.   *)
SecondRead(d, c0, c1) == IF d \in {"tsl2561", "tsl2591"} THEN 256 * (c1 \div 256) + c0 \div 256 ELSE c1

Sample(d, i, l) == LET c0 == Count(d, i, l.ch0)
                       c1 == Count(d, i, l.ch1)
                   IN  [row |-> i, ch0 |-> c0, ch1 |-> SecondRead(d, c0, c1)]
NoSample == [row |-> 0, ch0 |-> 0, ch1 |-> 0]

Invalidating == {"apds9930", "tmd2771", "apds9960"} \* data_valid; a device that is switched off to be changed
OneShot == {"bh1750", "veml6040"}                   \* every measurement is started, in every turn

(***************************************************************************)
(* Starting: power off, configure, power on; or one write that changes the   *)
(* device while it runs; or the start of one measurement.  If it fails the   *)
(* device may have been left switched off half way, or never told at all.    *)
(***************************************************************************)
Started(row) == [device EXCEPT !.row = row, !.on = TRUE, !.late = (driver = "veml7700")]
HalfStarted(row) ==
    CASE driver \in Invalidating -> {device, [device EXCEPT !.on = FALSE, !.sample = NoSample]}
      [] driver \in OneShot -> {[device EXCEPT !.on = FALSE]}
      [] OTHER -> {device}

Start(row, fault) == device' \in IF fault = "start" THEN HalfStarted(row) ELSE {Started(row)}

(***************************************************************************)
(* Init functions.  The veml6040 starts one row PAST its table, whatever     *)
(* lies there; the device is configured from that.  Those of the veml6040    *)
(* and veml7700 do not look whether their device, which is shut down until   *)
(* it is started, has been.                                                  *)
(***************************************************************************)
FirstScaling(d) == CASE d \in {"apds9930", "tmd2771", "veml7700"} -> Size(d)
                     [] d = "veml6040" -> Size(d) + 1
                     [] OTHER -> 1

LightInit ==
    /\ driver \in LightDrivers
    /\ light \in Lights(driver)
    /\ scaling = FirstScaling(driver)
    /\ raw = NoSample /\ valid = FALSE /\ skip_next = FALSE
    /\ lightfaults \in {n \in 0 .. 1 : n <= MaxLightFaults /\ (n = 1 => driver \in {"veml6040", "veml7700"})}
    /\ device = [row |-> IF scaling > Size(driver) THEN Size(driver) ELSE scaling,
                 on |-> lightfaults = 0, late |-> FALSE, sample |-> NoSample]
    /\ measured = FALSE /\ changes = 0

(***************************************************************************)
(* The background turn.                                                    *)
(***************************************************************************)
InTable == scaling <= Size(driver)

Below(d, i, s) == s.ch0 < Table(d)[i].down \/ s.ch1 < Table(d)[i].down
Above(d, i, s) == s.ch0 >= Table(d)[i].up \/ s.ch1 >= Table(d)[i].up

Down(d, i, s) == i > 1 /\ Below(d, i, s)
Up(d, i, s)   == i < Size(d) /\ Above(d, i, s)

(* The row a turn moves to.  A driver that goes down is done; those of the   *)
(* tsl2561 and tsl2591 still look whether to go up, by the bounds of the row *)
(* they came from.                                                           *)
UpAfterDown(d, i, s) == d \in {"tsl2561", "tsl2591"} /\ Down(d, i, s) /\ Above(d, i, s)

Moved(d, i, s) == CASE UpAfterDown(d, i, s) -> i
                    [] Down(d, i, s) /\ ~UpAfterDown(d, i, s) -> i - 1
                    [] ~Down(d, i, s) /\ Up(d, i, s) -> i + 1
                    [] OTHER -> i

Storable(d, i, s) ==
    LET in(n) == n > 0 /\ n < Table(d)[i].overflow
    IN  CASE d \in {"apds9930", "tmd2771", "tsl2591"} -> in(s.ch0) /\ in(s.ch1)
          [] d = "tsl2561" -> /\ s.ch0 < Table(d)[i].overflow /\ s.ch1 < Table(d)[i].overflow
                              /\ s.ch0 > 0 \/ s.ch1 > 0
          [] d \in {"bh1750", "veml6040"} -> in(s.ch0)
          [] d \in {"apds9960", "veml7700"} -> TRUE

Stay == UNCHANGED <<scaling, raw, valid, skip_next, device>>

(* apds9930, tmd2771, apds9960: a value is valid only while its row is the   *)
(* current one.  The apds9960 does not start again when it finds no data.    *)
\* The value is left valid when the row changes.
KeepInvalidate(row, fault) == /\ scaling' = row /\ UNCHANGED <<raw, valid>>
                              /\ Start(row, fault) /\ UNCHANGED skip_next

Invalidate(row, fault) == /\ scaling' = row /\ raw' = NoSample /\ valid' = FALSE
                          /\ Start(row, fault) /\ UNCHANGED skip_next

InvalidatingTurn(fault) ==
    LET s == device.sample
        row == Moved(driver, scaling, s)
    IN  CASE fault = "read" -> Stay
          [] fault # "read" /\ s = NoSample ->
               IF driver = "apds9960" THEN Stay ELSE Invalidate(scaling, fault)
          [] OTHER ->
               IF row = scaling /\ Storable(driver, scaling, s)
               THEN raw' = s /\ valid' = TRUE /\ UNCHANGED <<scaling, skip_next, device>>
               ELSE Invalidate(row, fault)

Store(s) == IF Storable(driver, IF InTable THEN scaling ELSE Size(driver), s)
            THEN raw' = s ELSE UNCHANGED raw

(* tsl2561, tsl2591: the device is told when the row changes, twice when it  *)
(* goes down and up; either may be lost.  The counts are stored all the same,*)
(* by the bounds of the row before.                                          *)
StoringTurn(fault) ==
    LET s == device.sample
    IN  IF fault = "read" \/ s = NoSample THEN Stay
        ELSE /\ scaling' = Moved(driver, scaling, s) /\ Store(s)
             /\ CASE UpAfterDown(driver, scaling, s) /\ fault = "start" ->
                       \E row \in {scaling - 1, scaling} : Start(row, "none")
                  [] scaling' # scaling \/ (UpAfterDown(driver, scaling, s) /\ fault # "start") ->
                       Start(scaling', fault)
                  [] OTHER -> UNCHANGED device
             /\ UNCHANGED <<valid, skip_next>>

(* bh1750, veml6040: a new measurement is started in every turn, in the row  *)
(* just chosen.  The bh1750 takes a count of nothing for a measurement that  *)
(* is not complete, and stays in its row.  Past the end of its table the     *)
(* veml6040 may go down at any count, or never.                              *)
OneShotTurn(fault) ==
    LET s == device.sample
    IN  /\ UNCHANGED <<valid, skip_next>>
        /\ IF fault = "read" THEN UNCHANGED <<scaling, raw, device>>
           ELSE /\ scaling' \in CASE ~InTable -> {scaling, scaling - 1}
                                 [] InTable /\ driver = "bh1750" /\ s.ch0 = 0 -> {scaling}
                                 [] OTHER -> {Moved(driver, scaling, s)}
                /\ Store(s)
                /\ IF scaling' <= Size(driver) THEN Start(scaling', fault)
                   ELSE Start(Size(driver), fault)


(* veml7700: the count after a change is left out.                           *)
SkippingTurn(fault) ==
    LET s == device.sample
    IN  /\ UNCHANGED valid
        /\ IF fault = "read" THEN UNCHANGED <<scaling, raw, skip_next, device>>
           ELSE IF skip_next THEN skip_next' = FALSE /\ UNCHANGED <<scaling, raw, device>>
           ELSE IF Moved(driver, scaling, s) # scaling
           THEN /\ scaling' = Moved(driver, scaling, s) /\ skip_next' = TRUE
                /\ Start(scaling', fault) /\ UNCHANGED raw
           ELSE raw' = s /\ UNCHANGED <<scaling, skip_next, device>>

LightTurn ==
    /\ measured /\ measured' = FALSE
    /\ \E fault \in {"none", "read", "start"} :
         /\ fault # "none" => lightfaults < MaxLightFaults
         /\ lightfaults' = IF fault = "none" THEN lightfaults ELSE lightfaults + 1
         /\ CASE driver \in Invalidating -> InvalidatingTurn(fault)
              [] driver \in OneShot      -> OneShotTurn(fault)
              [] driver = "veml7700"     -> SkippingTurn(fault)
              [] OTHER                   -> StoringTurn(fault)
    /\ UNCHANGED <<driver, light, changes>>

(***************************************************************************)
(* The device and the light.                                               *)
(***************************************************************************)
Integrate ==
    /\ ~measured /\ measured' = TRUE
    /\ \/ /\ device.on
          /\ device' = [device EXCEPT !.sample = Sample(driver, device.row, light),
                                      !.late = FALSE, !.on = driver \notin OneShot]
       \/ device.late /\ device' = [device EXCEPT !.late = FALSE]
       \/ ~device.on /\ UNCHANGED device
    /\ UNCHANGED <<driver, light, scaling, raw, valid, skip_next, changes, lightfaults>>

LightChanges ==
    /\ changes < MaxChanges /\ changes' = changes + 1
    /\ light' \in Lights(driver)
    /\ UNCHANGED <<driver, scaling, raw, valid, skip_next, device, measured, lightfaults>>

LightNext == LightTurn \/ Integrate \/ LightChanges

(***************************************************************************)
(* Properties.                                                             *)
(***************************************************************************)
LightTypeOK ==
    /\ driver \in LightDrivers /\ light \in Lights(driver)
    /\ scaling \in 1 .. Size(driver) + (IF driver = "veml6040" THEN 1 ELSE 0)
    /\ raw.row \in 0 .. Size(driver) /\ {raw.ch0, raw.ch1} \subseteq 0 .. MaxCount
    /\ valid \in BOOLEAN /\ skip_next \in BOOLEAN /\ measured \in BOOLEAN
    /\ device.row \in 1 .. Size(driver) /\ device.on \in BOOLEAN /\ device.late \in BOOLEAN
    /\ changes \in 0 .. MaxChanges /\ lightfaults \in 0 .. MaxLightFaults

(* Of the drivers that keep a valid flag, a valid value was counted in the   *)
(* row whose factor the read applies to it: the flag is cleared whenever the *)
(* row changes, and what the device measured in the old row is dropped when  *)
(* it is switched off.  Only a device that never heard the first word of the *)
(* change, and so is still in another row, is read wrong.                    *)
ValueMatchesRange == driver \in Invalidating /\ valid => raw.row = scaling \/ device.row # scaling

(* Light that no row holds: whichever row it is in, the driver leaves it.    *)
Restless(d, l) == \A i \in 1 .. Size(d) : Moved(d, i, Sample(d, i, l)) # i

(* ... because of its two channels, each of which a row would hold: where    *)
(* one is too strong the next row finds the other too weak, and the driver   *)
(* goes up and down for ever.                                                *)
Torn(d, l) ==
    /\ Restless(d, l)
    /\ \A n \in {l.ch0, l.ch1} : ~Restless(d, [ch0 |-> n, ch1 |-> n])

(* Light that no row both holds and stores: too dark or too bright for the   *)
(* device, or without the infrared that the driver insists on.               *)
OutOfRange(d, l) ==
    /\ ~Restless(d, l)
    /\ \A i \in 1 .. Size(d) : Moved(d, i, Sample(d, i, l)) = i => ~Storable(d, i, Sample(d, i, l))

(* The tsl2561 leaves its third row at 50000 counts but stores none above    *)
(* 31711: light in between is never stored, though the last row takes it.    *)
(* The bh1750 stays in its row when light falls to less than one count of it.*)
DeadZone == \/ driver = "tsl2561" /\ Count(driver, 3, light.ch0) >= 31711
            \/ driver = "bh1750" /\ Count(driver, scaling, light.ch0) = 0

Settled == /\ InTable /\ raw = Sample(driver, scaling, light)
           /\ driver \in Invalidating => valid

(* What a failed transaction can spoil for good, and no turn repairs: the    *)
(* device left behind in another row, which is written to only when the row  *)
(* changes again; and the apds9960 left switched off.  The veml6040 may      *)
(* never come back from past its table.                                      *)
Spoiled == \/ driver \notin OneShot /\ device.row # scaling
           \/ driver = "apds9960" /\ ~device.on
           \/ ~InTable

(* In light that no longer changes every driver comes to show that light,    *)
(* counted in the row it is multiplied with, and keeps showing it.           *)
SettlesOnTheLight ==
    <>[](Settled \/ Spoiled \/ Torn(driver, light) \/ OutOfRange(driver, light) \/ DeadZone)
=============================================================================
