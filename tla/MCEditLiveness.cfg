\* One version with a retry, two executions of an entry and a worker that may
\* crash anywhere; with one slot, a leaked one refuses the retry.
CONSTANTS
  None = None
  Versions = {v1}
  Workers = {w1}
  Callers = {r1}
  Mortal = {w1}
  Stallable = {}
  Requests = {"render", "retry"}
  Limit = 1
  Attempts = 2
  MaxStalls = 0
  MaxRetries = 1
  MaxTokens = 2
SPECIFICATION Spec
\* The owner need not ask for anything more, so the instance comes to rest.
CHECK_DEADLOCK FALSE
PROPERTIES
  PreviewsEnd
  SlotsReturn
