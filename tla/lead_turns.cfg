\* Turns may throw anywhere, the inbox may wait for weeks, so that every guardrail
\* fires, and optOut and release overlap everything.
CONSTANTS
  Null = Null
  ServiceWindow = 1
  HandoffTimeout = 2
  SessionExpiration = 3
  Arriving = {"text", "unsupported"}
  MaxReplies = 2
SPECIFICATION Spec
PROPERTIES UndoneOnlyByLateTurn SpeaksUnlessOvertaken NoticeOnce FollowsLifecycle
