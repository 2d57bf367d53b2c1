\* Five pins (one more than there are channels), duties off, one, in between and
\* full; a wide and the narrowest period; two writes, the second of which may
\* find the first not shown yet. Deadlock: after the last write everything may
\* be off.
SPECIFICATION FairSpec
CONSTANTS
  Pins <- MCPins
  Duties = {0, 1, 20, 511}
  Periods = {64, 512}
  Starts <- MCStarts
  MaxWrites = 2
INVARIANTS
  WholeSets
  CycleExact
PROPERTIES
  DutiesReachPins
CHECK_DEADLOCK FALSE
