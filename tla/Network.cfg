CONSTANTS
  c1 = c1
  c2 = c2
  Clients = {c1, c2}
  WifiStates = {"IDLE", "CONNECTED", "DISCONNECTED"}
  MaxViolations = 2
  Https = {h1, h2}
  Urls = {u, empty}
  Empty = empty
  Rooms <- MCRooms
SPECIFICATION FairSpec
INVARIANTS EachMessageOnce RequestsAnswered CallsSeen
PROPERTY LoopsDrain
