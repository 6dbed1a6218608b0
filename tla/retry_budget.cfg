SPECIFICATION Spec
CONSTANTS
  Ids = {m1}
  Outputs = {good, bad}
  Invalid = {}
  BadOutputs = {bad}
  Undecodable = {}
  NoMessage = NoMessage
  Keys <- DefaultKeys
  Route <- DefaultRoute
  RetryKey = "send"
  Deployed <- NoWorker
  Booted <- NoWorker
  MaxRetries = 1
  BatchLimit = 1
  FaultKinds = {"db"}
  MaxFaults = 2
  MaxOps = 0
INVARIANTS RetryBudget
\* The environment stops once every POST has been served and the budgets are spent.
CHECK_DEADLOCK FALSE
