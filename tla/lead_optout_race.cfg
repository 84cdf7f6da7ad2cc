\* optOut overlaps turns.
CONSTANTS
  Null = Null
  ServiceWindow = 1
  HandoffTimeout = 2
  SessionExpiration = 3
  Arriving = {"text"}
  MaxReplies = 2
SPECIFICATION Spec
PROPERTY OptOutIsFinal
