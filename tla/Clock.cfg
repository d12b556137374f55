CONSTANTS
  Callbacks = {cb}
  NoCallback = none
  Delays = {0, 1, 2, 3}
  Overshoot = FALSE
  MaxTime = 4
  MaxHandle = 4
  MaxDepth = 3
SPECIFICATION HFairSpec
INVARIANTS HTypeOK NothingOverdue HandlesAccounted FiringOrder
PROPERTIES ReturnsWithNothingDue ClockMonotone BookSpec AdvanceTerminates
