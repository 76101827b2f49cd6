\* A clips job with a worker, a mortal request, a cron and a retry; two
\* jobs with one source.
CONSTANTS
  None = None
  Workers = {w1}
  Requests = {r1}
  Crons = {cron}
  MaxRedeliveries = 1
  MaxRetries = 1
  Creators = {j1, j2}
  MaxArtifacts = 2
SPECIFICATION PartsSpec
\* Requests and retries are bounded, so the instances come to rest.
CHECK_DEADLOCK FALSE
INVARIANTS
  PartsTypeOK
  WorkIsAuthorized
PROPERTIES
  PublishedWasTold
  AdmissionEnds
  ArtifactsStay
