CONSTANTS
  Millisecond = 2
  Timeouts = {0, 2}
  Holds = {1}
  Callbacks = {cb}
  NoCallback = none
  Delays = {1, 2}
  SketchDelays = {1}
  Overshoot = FALSE
  MaxTime = 6
  MaxHandle = 2
  MaxDepth = 2
  MaxEvents = 4
SPECIFICATION SimFairSpec
INVARIANTS OneLoopPerMillisecond EventsInTimeOrder
PROPERTIES PulseExact RunReturns
