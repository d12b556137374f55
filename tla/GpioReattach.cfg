\* The sketch attaches a second ISR to a pin without detaching the first.
CONSTANTS
  Pins = {a}
  PinModes = {"INPUT"}
  Liberties = {"reattach"}
  MaxListeners = 2
  MaxDepth = 2
SPECIFICATION Spec
INVARIANT OneRunPerEdge
