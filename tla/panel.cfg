SPECIFICATION FairSpec
CONSTANTS
  Tokens = {1, 2, 3}
  Slots = {1, 2, 3, 4}
  Cols = {"a", "b"}
  Drafts = {1, 2}
  Days = {1, 2}
  Hours = {1, 2}
  Plans <- MCPlans
INVARIANTS RefusedStaysOut OnceUnlessLost OfferedWasFree TellsWhatHappened
PROPERTIES NothingPutBack NothingWaitsForEver
CHECK_DEADLOCK FALSE
