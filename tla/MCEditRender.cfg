\* One version, two workers of which one may stall, a retry and cancellations.
CONSTANTS
  None = None
  Versions = {v1}
  Workers = {w1, w2}
  Callers = {r1}
  Mortal = {}
  Stallable = {w2}
  Requests = {"render", "retry", "cancel"}
  Limit = 1
  Attempts = 1
  MaxStalls = 0
  MaxRetries = 1
  MaxTokens = 2
SPECIFICATION Spec
\* The owner need not ask for anything more, so the instance comes to rest.
CHECK_DEADLOCK FALSE
INVARIANTS
  TypeOK
  PublishedIsStored
PROPERTY
  CompletedIsFinal
