SPECIFICATION ServerSpec
CONSTANTS
  town = town
  field = field
  moor = moor
  Maps = {town, field}
  RoadlessMaps = {}
  Configs <- TownOrBoth
  Inherited <- VisitedMaps
  Retirement = 2
  Deltas = {1}
  EndRead = {0}
  NameFits = {TRUE}
  DbMayFail = TRUE
  TickMayThrow = TRUE
  MaxJoins = 2
  Period = 2
  MaxCrashes = 1
  MaxStops = 1
INVARIANTS
  ServerTypeOK
  PlayersStayInControl
  EstablishedDogsAreOnFile
  OrderlyStopsRepeatNoRow
  OrderlyStopsLoseNobody
PROPERTIES
  RunsAsApp
  StopAndStartKeepTheGame
