SPECIFICATION FairSpec
CONSTANTS
  NumPlayers = 3
  Options <- MCOptions
  FadeTime = 2
  FlashTime = 2
  ObjectRoom = 3
  Leavers = {2}
  MaxFrags = 3
  MaxCoins = 4
INVARIANTS
  OneFragPerLife
  NobodyStranded
  CoinsEnough
PROPERTIES
  WinnerLeads
  ResultStands
  DeadReturn
CHECK_DEADLOCK FALSE
