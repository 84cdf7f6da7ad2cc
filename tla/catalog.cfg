\* Two requests at once, three in all, one death; the search over every stock.
CONSTANTS
  Zones <- MCZones
  Adjacent <- MCAdjacent
  UsdRate = 2
  CandidateLimit = 4
  Ids <- MCIds
  Requests = {r1, r2}
  NewRows <- MCNewRows
  Changes <- MCChanges
  Galleries <- MCGalleries
  Files <- MCFiles
  Starts <- MCStarts
  Filters <- MCFilters
  MaxDeaths = 1
  MCRequests = 3
SPECIFICATION Spec
INVARIANTS VisitsKeepTheirProperty ImportConverges NothingBetterLeftOut
CHECK_DEADLOCK FALSE
