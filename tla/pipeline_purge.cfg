\* A lead suppressed while its texts and an audio are on their way, owners being slow.
CONSTANTS
  Texts = {m1, m2}
  Medias = {a1}
  Inbound = {i1}
  Media = {x1}
  Panel = {p1}
  Free = Free
  Stale = Stale
  None = None
  SlowHolders = TRUE
  HoldersBeatRetry = FALSE
  ProvidersFail = FALSE
  MaxCrashes = 0
  MaxManual = 1
  MaxPurges = 1
SPECIFICATION FairSpec
PROPERTIES QuietAfterSuppression
CHECK_DEADLOCK FALSE
