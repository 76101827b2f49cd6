\* One version and one worker that never dies.
CONSTANTS
  None = None
  Versions = {v1}
  Workers = {w1}
  Callers = {r1}
  Mortal = {}
  Stallable = {}
  Requests = {"render", "cancel"}
  Limit = 1
  Attempts = 1
  MaxStalls = 0
  MaxRetries = 1
  MaxTokens = 2
SPECIFICATION Spec
\* The owner need not ask for anything more, so the instance comes to rest.
CHECK_DEADLOCK FALSE
PROPERTY
  CancelledIsFinal
