SPECIFICATION FairSpec
CONSTANTS
  h1 = h1
  h2 = h2
  x = x
  y = y
  Orgs = {o1}
  Names = {x}
  Agents = {h1}
  HostName <- OneName
  Enrollments = {e1}
  Nodes = {n1}
  Tokens = {t1}
  Beats = {b1, b2}
  MaxNodes <- OneNodeEach
  None = None
PROPERTIES RevokedNodeGoesDark SilentNodeGoesOffline
