SPECIFICATION Spec
CONSTANTS
  Ids = {m1}
  Outputs = {good, bad}
  Invalid = {}
  BadOutputs = {bad}
  Undecodable = {}
  NoMessage = NoMessage
  Keys <- ComposeKeys
  Route <- ComposeRoute
  RetryKey = "send"
  Deployed <- AllServices
  Booted <- AllServices
  MaxRetries = 1
  BatchLimit = 1
  FaultKinds = {"db", "late", "crash"}
  MaxFaults = 2
  MaxOps = 0
INVARIANTS NoSilentLoss
\* The environment stops once every POST has been served and the budgets are spent.
CHECK_DEADLOCK FALSE
