SPECIFICATION Spec
CONSTANTS
  Instances = {i1, i2, i3}
  Nodes = {n1}
  Ports = {p1}
  Requests = {r1, r2}
  Handlers = {w1}
  UserCommands = {"DELETE_SERVER"}
  MaxSlots = 1
  MaxCommands = 2
  MaxTries = 2
  MaxLosses = 1
  MaxTimeouts = 1
  MaxCrashes = 1
  MaxFailures = 1
  MaxDetections = 1
  None = None
SYMMETRY Symmetry
INVARIANTS TypeOK SlotQuota SlotsAccounted
CHECK_DEADLOCK FALSE
