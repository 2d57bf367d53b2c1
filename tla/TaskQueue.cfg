\* Three priorities of which interrupt handlers post with two, as in the
\* code; two events per queue, so that queues are full while counts are
\* being updated.
SPECIFICATION Spec
CONSTANTS
  Prio = {0, 1, 2}
  IsrPrio = {1, 2}
  TaskQueueLength = 2
INVARIANTS
  NeverOvercounts
  ExactWithoutInterrupts
