SPECIFICATION FairSpec
CONSTANTS
  RoadLists <- AllOrders
  HalfWidth = 4
  Unit = 10
  LootRadius = 3
  Deltas <- Distances
  RestoredSpeeds <- AnyHeading
INVARIANTS
  DogOnRoad
PROPERTIES
  StaysOnTheRoads
  NeverOvershoots
  WalksEnd
  GathersWhatItPasses
  WalksOnDrawnRoads
