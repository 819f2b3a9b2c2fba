SPECIFICATION FairSpec
CONSTANTS
  Task = {t1, t2}
  Priorities = {1, 2}
  Length = 1
  FirstTick = 0
  NumberOfTasks = 2
  TickMod = 4
  Waits = {3}
  MaxTicks = 0
  MaxPosts = 2
CHECK_DEADLOCK FALSE
PROPERTIES ReaderServed
