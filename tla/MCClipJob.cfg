\* Two clips, a worker, retries of the job and two concurrent dispatchers.
CONSTANTS
  None = None
  Clips = {c1, c2}
  Workers = {w1}
  Dispatchers = {d1, d2}
  Settlers = {}
  Mortal = {}
  Stallable = {}
  Requests = {"retry-job"}
  MaxRetries = 1
  SourcePrice = 1
  Batch = FALSE
SYMMETRY Symmetry
SPECIFICATION Spec
\* The job may rest with its outcome.
CHECK_DEADLOCK FALSE
PROPERTIES
  OutcomeIsTrue
  DurableStays
