\* A callback may advance past the time its caller waits for.
CONSTANTS
  Callbacks = {cb}
  NoCallback = none
  Delays = {1, 2}
  Overshoot = TRUE
  MaxTime = 3
  MaxHandle = 3
  MaxDepth = 2
SPECIFICATION HSpec
INVARIANT FiringOrder
