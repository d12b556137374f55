CONSTANTS
  Timers = {t1}
  Dividers = {0, 120}
  Ticks = {1, 2}
  Delays = {1, 3}
  Overshoot = TRUE
  Resets = TRUE
  Liberties = {}
  MaxTime = 3
  MaxDepth = 2
  MaxUser = 2
  MaxHandle = 9
SPECIFICATION FairSpec
INVARIANTS OneAlarm AlarmOnTime
PROPERTIES OthersUntouched AdvanceTerminates
