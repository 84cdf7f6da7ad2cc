\* One replica, text messages, one manual message from the panel that ends
\* before a retry falls due; nothing fails.  The run stops when all is answered.
CONSTANTS
  Texts = {m1, m2, m3}
  Medias = {}
  Inbound = {i1}
  Media = {}
  Panel = {p1}
  Free = Free
  Stale = Stale
  None = None
  SlowHolders = FALSE
  HoldersBeatRetry = TRUE
  ProvidersFail = FALSE
  MaxCrashes = 0
  MaxManual = 1
  MaxPurges = 0
SPECIFICATION FairSpec
INVARIANTS NoStrandedEntry Conservation
PROPERTIES EveryMessageAnswered DeliversTurns
CHECK_DEADLOCK FALSE
