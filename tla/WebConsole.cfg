SPECIFICATION Spec
CONSTANTS
  Users = {me, u1}
  Me = me
  Patches = {p1, p2}
  MaxChanges = 3
  MaxOthers = 1
  MaxFaults = 1
  Networks = {w1}
  Nodes = {n1}
  Licenses = {k1, k2}
  Usernames = {a, b}
  NodeNames = {x, y}
  DefaultName = x
  Flows = {f1, f2}
  MaxDeeds = 5
  MaxMisses = 1
  NoKey = NoKey
  Links = {l1, l2}
  MaxVisits = 3
  MaxSubmits = 3
  MaxDrops = 1
  NoLink = NoLink
INVARIANTS
  TypeOK
  RoleShown
  OfferedIsAccepted
  
  
  ButtonFollowsRequest
  
PROPERTY KeyStaysUntilClosed
CHECK_DEADLOCK FALSE
