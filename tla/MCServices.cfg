\* Two requests with one operation id, three retries, any number of crashes;
\* two deliveries of a render to AWS Batch; two proposals of the editor, with
\* two requests that apply or reject.
CONSTANTS
  None = None
  Callers = {c1, c2}
  Price = 1
  MaxGeneration = 3
  Deliveries = {d1, d2}
  AwsJobs = {b1, b2}
  Proposals = {p1, p2}
  Approvals = {a1, a2}
  Faulty = {}
  MaxRevision = 3
SPECIFICATION PartsSpec
\* A proposal that was applied or rejected, and a plan at its last revision,
\* come to rest.
CHECK_DEADLOCK FALSE
INVARIANTS
  PartsTypeOK
  ChargedForResult
  OneExecutionPerGeneration
  OneSubmission
  ProposalOutcomeIsTrue
PROPERTIES
  ImplementsPaidOperation
  OperationsEnd
  RemoteWorkEnds
