SPECIFICATION FairSpec
CONSTANTS
  Own = 1
  Ids = {1, 2}
  Loot = {5}
  TypeCounts = {0, 2}
  MaxVersion = 3
  MaxPolls = 2
  MaxLost = 1
INVARIANTS
  FramesFindTheirPlayers
  SceneMatchesBooks
PROPERTIES
  ViewSettles
  RetiredPlayerLeaves
  GameStarts
