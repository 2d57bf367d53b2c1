--------------------------- MODULE MCI2cSensors ---------------------------
(* The worlds for I2cSensors: each device of the table on its own, in front  *)
(* of and behind the multiplexer, with each of the contents its driver       *)
(* accepts; the same device on two buses; all thermometers of one address on *)
(* different buses; more devices than the registry has room for; and faults. *)
EXTENDS I2cSensors, SensorTable

Named(b, id, variant) == Device(b, RowOf(id), variant)
World(plugged, n) == [plugged |-> plugged, faults |-> n]

Primaries == {r \in Rows : IsPrimary(r)}
Variants(r) == 1 .. LET lens == {Len(Script(r)[i].want) : i \in DOMAIN Script(r)} \cup {1}
                    IN CHOOSE n \in lens : \A m \in lens : m <= n

Single == {World({Device(b, r, v)}, 0) : b \in {0, 1}, r \in Primaries, v \in 1 .. 3}
AllowedSingle == {w \in Single : \A d \in w.plugged : d.variant \in Variants(d.row)}

Double == {World({Named(1, id, 1), Named(2, id, 1)}, 0) :
             id \in {"bme280_temperature", "lm75_48", "veml7700", "sht30_temperature"}}

Thermometers == {World({Named(0, "tmp75_49", 1), Named(1, a, 1), Named(2, b, 1)}, 0) :
                   a \in {"tmp75_48", "ds7505_48", "ds1631_48"}, b \in {"ds1621_48", "tmp102_48", "lm75_48"}}

Crowd == {Named(0, id, 1) : id \in
            {"opt3001", "veml6040", "apds9930", "si114x_ultraviolet", "max44009", "tsl2561_29", "bh1750",
             "tmp75_48", "ccs811", "sht30_temperature", "mcp9808_temperature", "hdc1080_temperature",
             "bme680_temperature", "bmp085_temperature", "am2320_temperature", "hih6130_humidity",
             "digipicco_temperature", "aht10_temperature"}}

Crowds == {World(Crowd, 0), World(Crowd \cup {Named(1, "lm75_4f", 1)}, 0)}

Faulty == {World({Named(b, id, 1)}, 1) : b \in {1},
             id \in {"lm75_48", "apds9930", "bme280_temperature", "sht30_temperature", "veml6070_38"}}

MCWorlds == AllowedSingle \cup Double \cup Thermometers \cup Crowds \cup Faulty \cup {World({}, 1)}
=============================================================================
