SPECIFICATION MCSpec
CONSTANTS
  c1 = c1
  c2 = c2
  Clients = {c1, c2}
  NumPlayers = 2
  Owner <- OneEach
  MaxBuffer = 4
  MaxFrames = 2
  Behaviours = {"end"}
  MaxTicks = 2
  MaxPress = 1
  MaxInputs = 1
  MaxBacklog = 0
INVARIANTS
  SameTicks
PROPERTIES
  SteadyCatchesUp
  LateLeaves
  SessionGoesOn
CHECK_DEADLOCK FALSE
