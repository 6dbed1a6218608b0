SPECIFICATION InferenceFairSpec
CONSTANTS
  Jobs = {j1, j2}
  Subjects = {classify, health}
  Undeduped = {health}
  Requests = {r1, r2}
  Processes = {p1, p2}
  NoJob = NoJob
  Ticks = {1}
  FaultKinds = {"db", "late", "crash"}
  MaxFaults = 2
  MaxToolIterations = 2
  MaxCalls = 2
INVARIANTS InferenceTypeOK OneRunner AnswersExist
PROPERTIES ImplementsJobQueue DuplicatesOnlyByOverlap ImplementsJobs WorkersReturn
\* The service is idle once every request has been served.
CHECK_DEADLOCK FALSE
