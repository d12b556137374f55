CONSTANTS
  Pins = {3, 4, 19, 26}
  Strays = {64}
  PinModes = {"INPUT_PULLUP", "OUTPUT"}
  Liberties = {}
  MaxListeners = 2
  MaxDepth = 2
  MaxViolations = 2
  Rooms <- MCRooms
SPECIFICATION AFairSpec
INVARIANTS ListenersUpToDate ListenersKnow OneRunPerEdge BareWritesReported
PROPERTIES RunsOnlyAttached SetLevelTerminates
