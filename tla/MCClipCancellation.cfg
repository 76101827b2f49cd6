\* One clip rendered in Batch, a worker that may crash or stall, its retry and a cancellation.
CONSTANTS
  None = None
  Clips = {c1}
  Workers = {w1}
  Dispatchers = {d1}
  Settlers = {s1}
  Mortal = {w1}
  Stallable = {w1}
  Requests = {"cancel", "retry-clip"}
  MaxRetries = 1
  SourcePrice = 1
  Batch = TRUE
SPECIFICATION Spec
\* The requests are bounded, so the instance comes to rest.
CHECK_DEADLOCK FALSE
PROPERTIES
  CancellationIsFinal
  CancellationEnds
