\* Tests that create tasks, with a reset between them.
CONSTANTS
  TaskNames = {t1, t2}
  NoTask = none
  MaxTasks = 2
  Items = {x}
  Lengths = {1}
  MaxCounts = {1}
  MaxCreated = 3
  MaxQueues = 0
  MaxSemaphores = 0
  MaxStray = 0
  MaxSent = 1
SPECIFICATION Spec
INVARIANT RefusedOnlyWhenFull
