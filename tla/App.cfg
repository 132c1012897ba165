SPECIFICATION FairSpec
CONSTANTS
  town = town
  field = field
  moor = moor
  Maps = {town, field, moor}
  RoadlessMaps = {moor}
  Retirement = 2
  Deltas = {0, 1, 2}
  EndRead = {0}
  NameFits = {TRUE, FALSE}
  DbMayFail = TRUE
  TickMayThrow = TRUE
  MaxJoins = 3
INVARIANTS
  TypeOK
  RegistryMirrored
  TokenSteersOnlyItsDog
  EveryDogIsSteerable
  SavedOnceAndGone
PROPERTIES
  RunningDogsStay
  IdleDogsLeave
  CareersEndInTheHall
