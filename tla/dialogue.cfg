\* One lead, a handful of turns, one change of stock and one death.
CONSTANTS
  Zones <- MCZones
  Adjacent <- MCAdjacent
  UsdRate = 1000
  CandidateLimit = 100
  Attr <- MCAttr
  Messages <- MCMessages
  Alias <- MCAlias
  Near <- MCNear
  MaxTurns = 5
  MaxStockChanges = 1
  MaxDeaths = 1
SPECIFICATION Spec
INVARIANTS ChoiceIsWhatWasSeen VisitIsForTheChosen OneLinkPerInterest ScoreIsCurrent
PROPERTIES NothingMadeUp HandlersFollowConversation
CHECK_DEADLOCK FALSE
