\* Two replicas, audio, a panel request, providers that fail and one death.
CONSTANTS
  Texts = {m1, m2}
  Medias = {a1}
  Inbound = {i1, i2}
  Media = {x1}
  Panel = {p1}
  Free = Free
  Stale = Stale
  None = None
  SlowHolders = FALSE
  HoldersBeatRetry = FALSE
  ProvidersFail = TRUE
  MaxCrashes = 1
  MaxManual = 1
  MaxPurges = 0
SPECIFICATION Spec
SYMMETRY Symmetry
INVARIANTS MutualExclusion AtMostOnce Accounted
CHECK_DEADLOCK FALSE
