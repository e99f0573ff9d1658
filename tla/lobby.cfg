SPECIFICATION MCSpec
CONSTANTS
  Platform = "unix"
  Devices = {"A", "B"}
  Pads = {0}
  Keys <- MCKeys
  Elements = {"LEFT_TRIGGER", "X"}
  Weapons = {"normal"}
  Powers = {"jump", "turbo"}
  MaxChanges = 1
  Menu <- MCMenu
  Spots = {1, 3}
  MaxStack = 3
  MaxPads = 2
  Clients = {"a", "b"}
  Slots = {1, 2}
  Has <- MCHas
  MaxJoins = 4
  MaxQueue = 1
  Master = "b"
  LeftAt = {"PROFILED", "FOUND"}
  Rules = {"r1", "r2"}
  SetupKeys = 2
  SetupJoins = 2
INVARIANTS
  ScreensRight
  SharedOffer
  SetupRight
PROPERTIES
  SentAsPressed
  QuickGameIsItself
CHECK_DEADLOCK FALSE
