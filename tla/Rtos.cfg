CONSTANTS
  TaskNames = {t1, t2}
  NoTask = none
  MaxTasks = 2
  Items = {x, y}
  Lengths = {1, 2}
  MaxCounts = {1, 2}
  MaxCreated = 3
  MaxQueues = 1
  MaxSemaphores = 1
  MaxStray = 2
  MaxSent = 3
SPECIFICATION Spec
INVARIANTS QueuesAreFifo HoldersBounded LiveTasksRun
