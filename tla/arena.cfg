SPECIFICATION MCSpec
CONSTANTS
  NumWeapons = 3
  Powers = {cloak, turbo}
  Turbo = turbo
  Reload = 3
  PowerTime = 2
  MaxAmmo = 1
  AmmoWorth = 1
  StartAmmo <- MCStart
  Kinds = {"ammo", "power"}
  Players = {0, 1}
  Owner = 0
  NumCells = 2
  Fragments = 2
  Bounces = 2
  ShotLeaves = 3
  PieceLeaves = 2
  Deflected = 2
  BallWeapons = {"splitter", "seeker", "reflector", "pmine"}
INVARIANTS
  WeaponsSound
  PostureSound
  OwnerSafe
PROPERTIES
  FireRate
  ItemsReturn
