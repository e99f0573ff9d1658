SPECIFICATION MCSpec
CONSTANTS
  Frames = {zero, f1, f2}
  Blank = zero
  Max = 3
  Nobody = Nobody
  MaxPending = 5
  Bitmaps = {"logo", "preview", "wall", "floor"}
  Tiles = {"wall", "floor"}
  MaxEntries = 3
  Room = 1
  MaxAtlases = 3
  MaxQueue = 2
  Tracks = {"menu", "game", "gone"}
  Missing = {"gone"}
  MaxPlays = 4
  Paths = {"p", "q"}
  Contents = {"a", "b", "c", "x"}
  Sum <- MCSum
  Unreadable = {"x"}
  MaxVersion = 2
  MaxChanges = 2
  NumPlayers = 3
  Games <- MCGames
  FadeTime = 2
  CloakTime = 2
  Steps = 1
  MaxEvents = 3
INVARIANTS
  OutOfWalls
  AllLive
  ReplayIsGame
  PreviewIsOfLevel
  HeardAsAsked
  EveryoneSees
PROPERTIES
  QueueSpec
CHECK_DEADLOCK FALSE
