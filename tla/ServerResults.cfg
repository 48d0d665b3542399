SPECIFICATION Spec
CONSTANTS
  Instances = {i1}
  Nodes = {n1}
  Ports = {p1}
  Requests = {r1}
  Handlers = {w1, w2}
  UserCommands = {"START_SERVER", "DELETE_SERVER"}
  MaxSlots = 1
  MaxCommands = 3
  MaxTries = 2
  MaxLosses = 0
  MaxTimeouts = 1
  MaxCrashes = 0
  MaxFailures = 1
  MaxDetections = 1
  None = None
SYMMETRY Symmetry
INVARIANTS SlotlessOnlyAfterFailure OrphanNeedsRedelivery
PROPERTY ImplementsQueue
CHECK_DEADLOCK FALSE
