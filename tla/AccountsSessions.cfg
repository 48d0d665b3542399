SPECIFICATION Spec
CONSTANTS
  Users = {u1, u2}
  Founders = {u1}
  Passwords = {p1, p2}
  Sessions = {s1, s2}
  Links = {}
  Requests = {r1, r2}
  None = None
SYMMETRY Symmetry
INVARIANTS
  TypeOK
  ChosenPasswordStands
  OldPasswordSessions
PROPERTY OwnerRemains
CHECK_DEADLOCK FALSE
