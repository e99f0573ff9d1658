SPECIFICATION Spec
CONSTANTS
  Clients = {"a", "b"}
  Slots = {1, 2}
  Has <- MCHas
  MaxJoins = 4
  MaxQueue = 2
INVARIANT LevelIsThere
CHECK_DEADLOCK FALSE
