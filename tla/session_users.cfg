SPECIFICATION MCSpec
CONSTANTS
  Clients = {c1, c2}
  NumPlayers = 2
  Controllers = {k1, k2}
  Free = Free
  Behaviours = {"back"}
  MoreBehaviours = {"init_fails"}
  MaxRequests = 1
  MaxBacklog = 1
  MaxPlaying = 2
SYMMETRY Symmetry
INVARIANTS
  SettledAgreement
  CountIsRoster
CHECK_DEADLOCK FALSE
