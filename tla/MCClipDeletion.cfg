\* One clip, two workers of which one may stall, with a cancellation and deletions.
CONSTANTS
  None = None
  Clips = {c1}
  Workers = {w1, w2}
  Dispatchers = {d1}
  Settlers = {s1}
  Mortal = {}
  Stallable = {w1}
  Requests = {"cancel", "delete-clip", "delete-job"}
  MaxRetries = 0
  SourcePrice = 1
  Batch = FALSE
SPECIFICATION Spec
\* The requests are bounded, so the instance comes to rest.
CHECK_DEADLOCK FALSE
INVARIANTS
  TypeOK
  StoppedIsQuiet
PROPERTY
  SettledWhenQuiet
