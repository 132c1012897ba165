SPECIFICATION Spec
CONSTANTS
  Sessions = 2
  MaxDogs = 2
  MaxTime = 4
  Chance <- Half
  Deltas = {1, 2}
PROPERTIES
  DeltaIsSinceLastCall
