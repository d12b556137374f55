CONSTANTS
  o1 = o1
  o2 = o2
  MaxViolations = 2
  Ports = {0, 1}
  Indices = {0, 1, 3}
  Lengths = {1, 2}
  PrintfLimit = 1
  Objects = {o1, o2}
  Namespaces = {n1, n2}
  LongNames = {n2}
  Keys = {k}
  Kinds = {"STRING", "UINT"}
  Values = {v1}
  None = none
  Durations = {1}
  Causes = {"UNDEFINED", "TIMER"}
  Liberties = {}
  Rooms <- MCRooms
SPECIFICATION Spec
INVARIANTS ReadsLastPut SerialExact SleepExact
PROPERTY ReportsJustified
