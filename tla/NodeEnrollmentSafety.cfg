SPECIFICATION Spec
CONSTANTS
  h1 = h1
  h2 = h2
  x = x
  y = y
  Orgs = {o1}
  Names = {x, y}
  Agents = {h1, h2}
  HostName <- OwnNames
  Enrollments = {e1, e2}
  Nodes = {n1, n2}
  Tokens = {t1, t2}
  Beats = {b1}
  MaxNodes <- OneNodeEach
  None = None
SYMMETRY Symmetry
INVARIANTS TypeOK CredentialQuota DeliveredTokenStands OnlineNodesWereClaimed
PROPERTY ImplementsLedger
