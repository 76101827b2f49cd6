\* One clip, one retry of the job, no failure of any process.
CONSTANTS
  None = None
  Clips = {c1}
  Workers = {w1}
  Dispatchers = {d1}
  Settlers = {s1}
  Mortal = {}
  Stallable = {}
  Requests = {"retry-job"}
  MaxRetries = 1
  SourcePrice = 1
  Batch = FALSE
SPECIFICATION Spec
\* The requests are bounded, so the instance comes to rest.
CHECK_DEADLOCK FALSE
INVARIANT
  DeliveredIsCharged
