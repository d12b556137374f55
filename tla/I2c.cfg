CONSTANTS
  Addresses = {1, 2}
  Places = {1}
  Settings <- MCSettings
  Registers = 2
  Latches <- MCLatches
  Bytes = 3
  Capacity = 3
  Programs <- MCPrograms
  MaxTransfers = 2
SPECIFICATION WireSpec
INVARIANTS CorruptionReported NoFalseReport
PROPERTIES TransfersExact
