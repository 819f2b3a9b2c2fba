SPECIFICATION Spec
CONSTANTS
  Task = {t1, t2}
  Priorities = {1, 2}
  Length = 2
  FirstTick = 2
  NumberOfTasks = 2
  TickMod = 4
  Waits = {1, 2, 3}
  MaxTicks = 3
  MaxPosts = 3
SYMMETRY Symmetry
CHECK_DEADLOCK FALSE
INVARIANTS NoLostWakeup WokenOnTime DelayedAreAhead HighestRuns
PROPERTIES IsFifo NoEarlyTimeout WokenInOrder
