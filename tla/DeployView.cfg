SPECIFICATION Spec
CONSTANTS
  Opening = "healthy"
  NoStatus = NoStatus
  None = None
  Sent = Sent
  Calls = {1, 2}
  Requests = {1, 2}
  MaxChanges = 3
  MaxLog = 1
  MaxFaults = 1
INVARIANT StreamHasReader
PROPERTIES SettlesOnTruth LogCatchesUp
CHECK_DEADLOCK FALSE
