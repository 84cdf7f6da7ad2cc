CONSTANTS
  a1 = a1
  u1 = u1
  Texts = {}
  Audios = {a1}
  Unsupported = {u1}
  Payloads <- OnePayload
  Bot = {b1}
  Manual = {p1}
  Requests = {r1, r2}
  Senders = {s1}
  None = None
  Attempts = 2
  MaxDeliveries = 2
  MaxFaults = 1
  MaxSuppressions = 1
SPECIFICATION Spec
SYMMETRY RequestSymmetry
INVARIANTS EnqueuedOnce LostOnlyByItsOwnFault TimelineIsTrue OvertakenOnlyByFailure
PROPERTIES DeliversAnswers
CHECK_DEADLOCK FALSE
