\* Two requests of the panel and two public confirmations; a public one is not overlapped.
CONSTANTS
  VisitIds = {v1, v2}
  Times = {t1, t2}
  Admin = {a1, a2}
  Public = {p1, p2}
  Null = Null
  PublicOverlaps = FALSE
SPECIFICATION Spec
INVARIANTS ConfirmedIsDated
PROPERTIES OnlyRescheduleMoves FollowsVisitLifecycle
CHECK_DEADLOCK FALSE
