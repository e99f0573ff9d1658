SPECIFICATION MCSpec
CONSTANTS
  Clients = {c1, c2}
  NumPlayers = 2
  Controllers = {k1}
  Free = Free
  Behaviours = {"drop", "server_drop", "back", "wrong_version"}
  MoreBehaviours = {"leave", "init_fails", "back"}
  MaxRequests = 1
  MaxBacklog = 0
  MaxPlaying = 2
SYMMETRY Symmetry
INVARIANTS
  SeatsAccounted
  RosterConverges
  BufferWhenNeeded
PROPERTIES
  LobbySpec
CHECK_DEADLOCK FALSE
