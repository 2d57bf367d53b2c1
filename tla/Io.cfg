\* Six bridges: one being configured (with saves that are lost), a knob, two
\* inputs, lamps that fade, one that blinks, the sequencer; queues of two tasks;
\* the program's own bounds and periods, the fast timer at 100 ms.
SPECIFICATION FairSpec
CONSTANTS
  Worlds <- MCWorlds
  Rate = 100
  TaskQueueLength = 2
  MaxTriggers = 4
INVARIANTS
  RestoredAgrees
  SuspendedStill
  EntriesLast
  CountsFalls
  DriftBounded
PROPERTIES
  FadesTurn
  TimersRest
