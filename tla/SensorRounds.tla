---------------------------- MODULE SensorRounds ----------------------------
(* The background of the i2c sensors, which EverySensorHasItsTurn of         *)
(* I2cSensors promises each of them: one sensor of either sort, a light      *)
(* sensor that chooses its range or an air sensor that is told to measure,   *)
(* through its turns and failures.  The sensors share nothing but the order. *)
EXTENDS Autorange, Measure

VARIABLE sort

roundvars == <<sort, lightvars, airvars>>

Light == sort = "light" /\ LightNext /\ UNCHANGED <<sort, airvars>>
Air   == sort = "air" /\ AirNext /\ UNCHANGED <<sort, lightvars>>

ALight == CHOOSE d \in LightDrivers : TRUE
AnAir  == CHOOSE d \in AirDrivers : TRUE

RoundsInit ==
    /\ sort \in {"light", "air"}
    /\ LightInit /\ AirInit
    /\ sort = "air" => driver = ALight /\ light = CHOOSE l \in Lights(ALight) : TRUE
    /\ sort = "light" => air = AnAir /\ airfaults = 0

RoundsNext == Light \/ Air

RoundsSpec == RoundsInit /\ [][RoundsNext]_roundvars

(* A turn comes round every second.                                          *)
FairRounds ==
    /\ RoundsSpec
    /\ WF_roundvars(sort = "light" /\ LightTurn /\ UNCHANGED <<sort, airvars>>)
    /\ WF_roundvars(sort = "light" /\ Integrate /\ UNCHANGED <<sort, airvars>>)
    /\ WF_roundvars(sort = "air" /\ AirTurn /\ UNCHANGED <<sort, lightvars>>)
    /\ WF_roundvars(sort = "air" /\ Convert /\ UNCHANGED <<sort, lightvars>>)
    /\ WF_roundvars(sort = "air" /\ Calibrate /\ UNCHANGED <<sort, lightvars>>)

RoundsTypeOK == sort \in {"light", "air"} /\ LightTypeOK /\ AirTypeOK


(* The air sensor measures for ever, see MeasuresForEver of Measure (the     *)
(* drivers that are told to measure, i2c_sensor.c 3468-6291).                *)
AirMeasures == sort = "air" => MeasuresForEver
=============================================================================
