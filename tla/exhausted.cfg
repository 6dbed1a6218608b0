SPECIFICATION Spec
CONSTANTS
  Ids = {m1, m2}
  Outputs = {good, bad}
  Invalid = {m2}
  BadOutputs = {bad}
  Undecodable = {}
  NoMessage = NoMessage
  Keys <- DefaultKeys
  Route <- DefaultRoute
  RetryKey = "send"
  Deployed <- AllServices
  Booted = {}
  MaxRetries = 0
  BatchLimit = 1
  FaultKinds = {"db", "late", "crash", "conn", "vanish", "broker"}
  MaxFaults = 1
  MaxOps = 1
INVARIANTS LifecycleOrder NeverFailed
PROPERTIES LossOnlyByKnownFault
CHECK_DEADLOCK FALSE
