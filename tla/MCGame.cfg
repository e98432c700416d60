SPECIFICATION FairSpec
CONSTANTS
  Rows = 2
  Cols = 3
  WinTile = 3
  Cuts = {3, 4}
  kMaxMessageLen = 8
  KnownTypes = {"CSAI2048Tile", "SCAI2048Move", "unregistered"}
  MaxSearches = 2
INVARIANTS
  TypeOK
  MoveIsSlide
  SearchIsMiniMax
  ServerMirrorsClient
  GameOverIsReal
  OddFrameGetsNoGame
PROPERTY GameEnds
CHECK_DEADLOCK FALSE
