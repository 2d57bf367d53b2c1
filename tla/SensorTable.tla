---------------------------- MODULE SensorTable ----------------------------
(* The device table of i2c_sensor.c: 68 rows, in the order in which they are *)
(* tried.  A row is a quantity some device measures at some address.  The    *)
(* first quantity of a device is its primary, and has the function that      *)
(* detects the device; the others follow as secondaries of that row.         *)
EXTENDS SensorScripts

Row(id, address, primary, family, detect, driver, init, background) ==
    [id |-> id, address |-> address, primary |-> primary, family |-> family,
     detect |-> detect, init |-> IF init THEN driver.init ELSE <<>>, hasInit |-> init,
     read |-> driver.read, background |-> background]

Primary(id, address, family, driver, init, background) ==
    Row(id, address, "none", family, driver.detect, driver, init, background)

(* A secondary with an init function has one that only clears its value, and *)
(* none has a background function.                                           *)
Secondary(id, address, primary, read, init) ==
    Row(id, address, primary, <<>>, <<>>, Driver(<<>>, <<>>, read), init, FALSE)

LightTable == <<
    Primary("opt3001", "45", <<>>, Opt3001, TRUE, FALSE),
    Primary("veml6075_uvindex", "10", <<>>, Veml6075, TRUE, FALSE),
    Primary("tmd2771", "39", <<>>, Tmd2771, TRUE, TRUE),
    Primary("apds9930", "39", <<>>, Apds9930, TRUE, TRUE),
    Primary("apds9960", "39", <<>>, Apds9960, TRUE, TRUE),
    Primary("si114x_ultraviolet", "60", <<"si114x_visible_light">>, Si114x, TRUE, FALSE),
    Secondary("si114x_visible_light", "60", "si114x_ultraviolet", Si114xVisibleRead, FALSE),
    Primary("max44009", "4a", <<>>, Max44009, TRUE, FALSE),
    Primary("veml6070_38", "38", <<"veml6070_39">>, Veml6070, TRUE, FALSE),
    Secondary("veml6070_39", "39", "veml6070_38", Veml6070.read, FALSE)>>

LightTable2 == <<
    Primary("tsl2561_39", "39", <<>>, Tsl2561, TRUE, TRUE),
    Primary("tsl2561_29", "29", <<>>, Tsl2561, TRUE, TRUE),
    Primary("tsl2550", "39", <<>>, Tsl2550, FALSE, FALSE),
    Primary("bh1750", "23", <<>>, Bh1750, TRUE, TRUE)>>

ThermometerTable == <<
    Primary("tmp75_48", "48", <<>>, Tmp75, TRUE, FALSE),
    Primary("tmp75_49", "49", <<>>, Tmp75, TRUE, FALSE),
    Primary("tmp75_4a", "4a", <<>>, Tmp75, TRUE, FALSE),
    Primary("tmp75_4f", "4f", <<>>, Tmp75, TRUE, FALSE),
    Primary("ds7505_48", "48", <<>>, Ds7505, TRUE, FALSE),
    Primary("ds7505_49", "49", <<>>, Ds7505, TRUE, FALSE),
    Primary("ds7505_4a", "4a", <<>>, Ds7505, TRUE, FALSE),
    Primary("ds7505_4f", "4f", <<>>, Ds7505, TRUE, FALSE)>>

ThermometerTable2 == <<
    Primary("ds1631_48", "48", <<>>, Ds1631, TRUE, FALSE),
    Primary("ds1631_49", "49", <<>>, Ds1631, TRUE, FALSE),
    Primary("ds1631_4a", "4a", <<>>, Ds1631, TRUE, FALSE),
    Primary("ds1631_4f", "4f", <<>>, Ds1631, TRUE, FALSE),
    Primary("ds1621_48", "48", <<>>, Ds1621, TRUE, FALSE),
    Primary("ds1621_49", "49", <<>>, Ds1621, TRUE, FALSE),
    Primary("ds1621_4a", "4a", <<>>, Ds1621, TRUE, FALSE),
    Primary("ds1621_4f", "4f", <<>>, Ds1621, TRUE, FALSE),
    Primary("tmp102_48", "48", <<>>, Tmp102, TRUE, FALSE),
    Primary("tmp102_49", "49", <<>>, Tmp102, TRUE, FALSE)>>

ThermometerTable3 == <<
    Primary("lm75_48", "48", <<>>, Lm75, TRUE, FALSE),
    Primary("lm75_49", "49", <<>>, Lm75, TRUE, FALSE),
    Primary("lm75_4a", "4a", <<>>, Lm75, TRUE, FALSE),
    Primary("lm75_4f", "4f", <<>>, Lm75, TRUE, FALSE)>>

AirTable == <<
    Primary("mpl3115a2_temperature", "60", <<"mpl3115a2_airpressure">>, Mpl3115a2, TRUE, TRUE),
    Secondary("mpl3115a2_airpressure", "60", "mpl3115a2_temperature", Mpl3115a2.read, FALSE),
    Primary("ccs811", "5a", <<>>, Ccs811, TRUE, FALSE),
    Primary("sht30_temperature", "44", <<"sht30_humidity">>, Sht30, TRUE, TRUE),
    Secondary("sht30_humidity", "44", "sht30_temperature", Sht30.read, TRUE),
    Primary("mcp9808_temperature", "18", <<>>, Mcp9808, TRUE, FALSE),
    Primary("hdc1080_temperature", "40", <<"hdc1080_humidity">>, Hdc1080, TRUE, TRUE),
    Secondary("hdc1080_humidity", "40", "hdc1080_temperature", Hdc1080.read, TRUE),
    Primary("htu21_temperature", "40", <<"htu21_humidity">>, Htu21, TRUE, TRUE),
    Secondary("htu21_humidity", "40", "htu21_temperature", Htu21.read, TRUE)>>

AirTable2 == <<
    Primary("bme680_temperature", "76", <<"bme680_airpressure", "bme680_humidity">>, Bme680, TRUE, TRUE),
    Secondary("bme680_airpressure", "76", "bme680_temperature", Bme680PressureRead, FALSE),
    Secondary("bme680_humidity", "76", "bme680_temperature", Bme680HumidityRead, FALSE),
    Primary("bme280_temperature", "76", <<"bme280_airpressure", "bme280_humidity">>, Bme280, TRUE, TRUE),
    Secondary("bme280_airpressure", "76", "bme280_temperature", Bme280.read, FALSE),
    Secondary("bme280_humidity", "76", "bme280_temperature", Bme280.read, FALSE),
    Primary("bmp280_temperature", "76", <<"bmp280_airpressure">>, Bmp280, TRUE, TRUE),
    Secondary("bmp280_airpressure", "76", "bmp280_temperature", Bmp280.read, FALSE),
    Primary("bmp085_temperature", "77", <<"bmp085_airpressure">>, Bmp085, TRUE, TRUE),
    Secondary("bmp085_airpressure", "77", "bmp085_temperature", Bmp085.read, FALSE)>>

AirTable3 == <<
    Primary("am2320_temperature", "5c", <<"am2320_humidity">>, Am2320, TRUE, TRUE),
    Secondary("am2320_humidity", "5c", "am2320_temperature", Am2320.read, TRUE),
    Primary("hih6130_humidity", "27", <<"hih6130_temperature">>, Hih6130, FALSE, FALSE),
    Secondary("hih6130_temperature", "27", "hih6130_humidity", Hih6130.read, FALSE),
    Primary("digipicco_temperature", "78", <<"digipicco_humidity">>, Digipicco, FALSE, FALSE),
    Secondary("digipicco_humidity", "78", "digipicco_temperature", Digipicco.read, FALSE),
    Primary("tsl2591_29", "29", <<"tsl2591_28">>, Tsl2591, TRUE, TRUE),
    Secondary("tsl2591_28", "28", "tsl2591_29", Tsl2591.read, FALSE),
    Primary("aht10_temperature", "38", <<"aht10_humidity">>, Aht10, TRUE, TRUE),
    Secondary("aht10_humidity", "38", "aht10_temperature", Aht10.read, TRUE)>>

LightTable3 == <<
    Primary("veml6040", "10", <<>>, Veml6040, TRUE, TRUE),
    Primary("veml7700", "10", <<>>, Veml7700, TRUE, TRUE)>>

SensorRows == LightTable \o LightTable2 \o ThermometerTable \o ThermometerTable2
                \o ThermometerTable3 \o AirTable \o AirTable2 \o AirTable3 \o LightTable3
=============================================================================
