\* One run for the detection, initialisation and background of the real table:
\* three of the nine buses, the registry at its real size.
CONSTANTS
    device_table <- SensorRows
    Worlds <- MCWorlds
    Buses = 3
    Entries = 28
SPECIFICATION FairSpec
INVARIANTS FamilyComplete HealthyBusWorks
PROPERTY EverySensorHasItsTurn
