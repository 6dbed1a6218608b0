SPECIFICATION FairSpec
CONSTANTS
  Jobs = {j1}
  Subjects = {classify, health}
  Undeduped = {health}
  Requests = {r1}
  Processes = {p1}
  NoJob = NoJob
  Ticks = {1}
  FaultKinds = {"crash"}
  MaxFaults = 1
PROPERTIES EveryJobEnds
\* The service is idle once every request has been served.
CHECK_DEADLOCK FALSE
