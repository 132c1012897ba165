SPECIFICATION Spec
CONSTANTS
  RoadLists <- AllOrders
  HalfWidth = 4
  Unit = 10
  LootRadius = 3
  Deltas <- Distances
  RestoredSpeeds <- JustJoined
PROPERTIES
  NowhereLeftToGo
