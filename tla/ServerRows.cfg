SPECIFICATION Spec
CONSTANTS
  Instances = {i1}
  Nodes = {n1}
  Ports = {p1}
  Requests = {r1}
  Handlers = {w1}
  UserCommands = {"START_SERVER", "STOP_SERVER", "DELETE_SERVER", "ENABLE_SFTP", "DISABLE_SFTP", "REPAIR_NEXALINK"}
  MaxSlots = 1
  MaxCommands = 3
  MaxTries = 2
  MaxLosses = 1
  MaxTimeouts = 1
  MaxCrashes = 1
  MaxFailures = 0
  MaxDetections = 1
  None = None
INVARIANTS RowTellsContainer 
CHECK_DEADLOCK FALSE
