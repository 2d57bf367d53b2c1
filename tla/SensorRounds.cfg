\* All autoranging and all triggered drivers, one at a time: light that changes
\* once between any two levels, one or two failed transactions at any place.
CONSTANTS
    LightDrivers = {"apds9930", "tmd2771", "apds9960", "tsl2561", "tsl2591", "bh1750", "veml6040", "veml7700"}
    MaxChanges = 1
    MaxLightFaults = 1
    AirDrivers = {"sht30", "hdc1080", "htu21", "mpl3115a2", "bme680", "bmx280", "bmp085", "am2320", "aht10"}
    MaxAirFaults = 2
SPECIFICATION FairRounds
INVARIANTS ValueMatchesRange
PROPERTIES  AirMeasures
