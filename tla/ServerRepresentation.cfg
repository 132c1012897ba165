SPECIFICATION ServerSpec
CONSTANTS
  town = town
  field = field
  moor = moor
  Maps = {town, field, moor}
  RoadlessMaps = {moor}
  Configs <- FieldMayGo
  Inherited <- VisitedMaps
  Retirement = 2
  Deltas = {0, 1}
  EndRead = {0}
  NameFits = {TRUE, FALSE}
  DbMayFail = TRUE
  TickMayThrow = TRUE
  MaxJoins = 2
  Period = 2
  MaxCrashes = 1
  MaxStops = 1
PROPERTIES
  StopAndStartKeepTheDogs
