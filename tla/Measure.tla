------------------------------ MODULE Measure ------------------------------
(* The air sensors of i2c_sensor.c that have to be told to measure.  In its  *)
(* turn in the background a driver collects what its device has measured     *)
(* since the last turn and starts the next measurement; most have a second   *)
(* quantity ("h": humidity or pressure) beside the temperature ("t").  What  *)
(* is collected stays until the next one is, so that a driver that no longer *)
(* collects goes on showing its last value: the question here is whether a   *)
(* failed transaction can leave it like that for good.                       *)
(*                                                                           *)
(* The device is the environment: it completes a measurement some time after *)
(* it was told to, and refuses to be read while it measures.                 *)
EXTENDS Integers, FiniteSets

CONSTANTS AirDrivers,    \* the drivers to look at
          MaxAirFaults   \* how many transactions fail, init function included

Reading == {"sht30", "hdc1080", "htu21", "mpl3115a2", "bmp085", "am2320", "aht10"}
Direct  == {"bme680", "bmx280"}   \* a user's read goes to the device itself

ASSUME AirAssumption == AirDrivers \subseteq Reading \cup Direct /\ MaxAirFaults \in Nat

Quantities == {"t", "h"}

VARIABLES air,        \* which driver this is
          state,      \* of the aht10's own state machine
          gauge,      \* the device
          fresh,      \* the quantities this turn has brought new values of
          airfaults

airvars == <<air, state, gauge, fresh, airfaults>>

(* busy: the quantities being measured; ready: measured and not collected;   *)
(* mode: what was measured last (bmp085); up: calibrated (aht10), or awake   *)
(* (am2320).                                                                 *)
AirTypeOK ==
    /\ air \in AirDrivers
    /\ state \in {"calibrating", "start_measure", "measuring"}
    /\ gauge \in [busy : SUBSET Quantities, ready : SUBSET Quantities,
                  mode : {"none", "t", "h"}, up : BOOLEAN, calibrating : BOOLEAN]
    /\ fresh \subseteq Quantities
    /\ airfaults \in 0 .. MaxAirFaults

(* The init functions of the sht30, hdc1080 and htu21 start a measurement,   *)
(* the one of the aht10 its calibration, each in its last transaction.       *)
FirstMeasured(d) == CASE d \in {"sht30", "hdc1080"} -> Quantities [] d = "htu21" -> {"t"} [] OTHER -> {}

AirInit ==
    /\ air \in AirDrivers
    /\ airfaults \in {n \in 0 .. 1 : n <= MaxAirFaults}
    /\ state = "calibrating"
    /\ gauge = [busy |-> IF airfaults = 0 THEN FirstMeasured(air) ELSE {}, ready |-> {}, mode |-> "none",
                up |-> FALSE, calibrating |-> airfaults = 0]
    /\ fresh = {}

(***************************************************************************)
(* Turns.  failed is the transaction of the turn that fails, 0 for none.     *)
(***************************************************************************)
Nothing == fresh' = {} /\ UNCHANGED <<gauge, state>>

(* The end of a turn: what it collected, and the next measurement started    *)
(* unless the transaction that starts it fails.                              *)
Collect(what, next, started, left) ==
    /\ fresh' = what
    /\ gauge' = IF started THEN [gauge EXCEPT !.busy = next, !.ready = left] ELSE [gauge EXCEPT !.ready = left]
    /\ UNCHANGED state

\* It goes home when there is nothing to collect.
TimidSht30Turn(failed) ==
    IF gauge.busy # {} \/ gauge.ready = {} \/ failed = 1 THEN Nothing
    ELSE Collect(gauge.ready, Quantities, failed # 2, {})

(* Starts the next measurement whatever became of the last one.  A device    *)
(* that still measures has nothing to give; whether it starts over then or   *)
(* takes no notice, it goes on measuring.                                    *)
Sht30Turn(failed) ==
    LET collected == IF gauge.busy # {} \/ failed = 1 THEN {} ELSE gauge.ready
    IN  Collect(collected, Quantities, failed # 2, gauge.ready \ collected)

(* Goes home when it can not collect.  Its data can be read more than once.  *)
Hdc1080Turn(failed) ==
    IF gauge.busy # {} \/ failed = 1 THEN Nothing
    ELSE Collect(gauge.ready, Quantities, failed # 2, {})

(* Takes the two quantities in turn, by what the status bits say was         *)
(* measured; starts anew after a wrong checksum (2), but goes home when it   *)
(* can not collect.                                                          *)
Htu21Turn(failed) ==
    IF gauge.busy # {} \/ gauge.ready = {} \/ failed = 1 THEN Nothing
    ELSE IF failed = 2 THEN Collect({}, {"t"}, TRUE, {})
    ELSE Collect(gauge.ready, Quantities \ gauge.ready, failed # 3, {})

(* Look whether the device is busy, collect, start.                          *)
Mpl3115a2Turn(failed) ==
    IF gauge.busy # {} \/ failed \in {1, 2} THEN Nothing
    ELSE Collect(gauge.ready, Quantities, failed # 3, {})

(* Bme680, bmx280: the start comes after one or two other writes.            *)
DirectTurn(failed) ==
    IF gauge.busy # {} \/ failed # 0 THEN Nothing
    ELSE Collect({}, Quantities, TRUE, {})

(* Which quantity the result registers hold is told by the mode register:    *)
(* anything but a temperature is taken for a pressure.                       *)
Bmp085Turn(failed) ==
    IF gauge.busy # {} \/ failed \in {1, 2} THEN Nothing
    ELSE Collect(gauge.ready, IF gauge.mode = "t" THEN {"h"} ELSE {"t"}, failed # 3, {})

(* The first transaction only wakes it; the round after it answers with what *)
(* it measured on waking.                                                    *)
Am2320Turn(failed) ==
    IF failed # 0 THEN Nothing
    ELSE /\ fresh' = IF gauge.up THEN Quantities ELSE {}
         /\ gauge' = [gauge EXCEPT !.up = TRUE]
         /\ UNCHANGED state

(* A state machine of its own.  It looks at the status (1) first; measuring  *)
(* is only entered when the device answered after the command (3).           *)
Aht10Turn(failed) ==
    IF failed = 1 THEN Nothing
    ELSE CASE state = "calibrating" ->
                IF ~gauge.up THEN Nothing
                ELSE state' = "start_measure" /\ fresh' = {} /\ UNCHANGED gauge
           [] state = "start_measure" ->
                IF gauge.busy # {} \/ failed = 2 THEN Nothing
                ELSE /\ gauge' = [gauge EXCEPT !.busy = Quantities, !.ready = {}]
                     /\ state' = IF failed = 3 THEN state ELSE "measuring"
                     /\ fresh' = {}
           [] state = "measuring" ->
                IF gauge.busy # {} \/ failed = 2 THEN Nothing
                ELSE /\ fresh' = gauge.ready
                     /\ gauge' = [gauge EXCEPT !.ready = {}]
                     /\ state' = "start_measure"

Turn(failed) ==
    CASE air = "sht30"     -> Sht30Turn(failed)
      [] air = "hdc1080"   -> Hdc1080Turn(failed)
      [] air = "htu21"     -> Htu21Turn(failed)
      [] air = "mpl3115a2" -> Mpl3115a2Turn(failed)
      [] air \in Direct    -> DirectTurn(failed)
      [] air = "bmp085"    -> Bmp085Turn(failed)
      [] air = "am2320"    -> Am2320Turn(failed)
      [] air = "aht10"     -> Aht10Turn(failed)

AirTurn ==
    /\ \E failed \in 0 .. 3 : /\ failed # 0 => airfaults < MaxAirFaults
                              /\ airfaults' = IF failed = 0 THEN airfaults ELSE airfaults + 1
                              /\ Turn(failed)
    /\ UNCHANGED air

(***************************************************************************)
(* The device.                                                             *)
(***************************************************************************)
Convert ==
    /\ gauge.busy # {}
    /\ gauge' = [gauge EXCEPT !.busy = {}, !.ready = gauge.busy,
                              !.mode = IF gauge.busy = {"t"} THEN "t" ELSE "h"]
    /\ fresh' = IF air \in Direct THEN gauge.busy ELSE fresh
    /\ UNCHANGED <<air, state, airfaults>>

Calibrate == /\ air = "aht10" /\ gauge.calibrating /\ ~gauge.up
             /\ gauge' = [gauge EXCEPT !.up = TRUE]
             /\ UNCHANGED <<air, state, fresh, airfaults>>

(* The am2320 falls asleep when it has been left alone after an answer.      *)
FallAsleep == /\ air = "am2320" /\ fresh # {} /\ gauge.up
              /\ gauge' = [gauge EXCEPT !.up = FALSE]
              /\ UNCHANGED <<air, state, fresh, airfaults>>

AirNext == AirTurn \/ Convert \/ Calibrate \/ FallAsleep

(***************************************************************************)
(* Properties.                                                             *)
(***************************************************************************)

(* The two that do not get over a failed transaction: the htu21, which goes  *)
(* home from a device that has nothing for it without telling it to measure; *)
(* and the aht10, which waits for a calibration its init function failed to  *)
(* ask for.                                                                  *)
Stranded == \/ air = "htu21" /\ gauge.busy = {} /\ gauge.ready = {}
            \/ air = "aht10" /\ ~gauge.calibrating

(* Every other driver comes back from any failures, and both quantities get  *)
(* new values again and again.                                               *)
MeasuresForEver == <>[]Stranded \/ \A q \in Quantities : []<>(q \in fresh)
=============================================================================
