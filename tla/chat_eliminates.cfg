SPECIFICATION Spec
CONSTANTS
  NumPlayers = 3
  Games <- MCGames
  FadeTime = 2
  CloakTime = 2
  Steps = 1
  MaxEvents = 2
PROPERTY OutByHits
CHECK_DEADLOCK FALSE
