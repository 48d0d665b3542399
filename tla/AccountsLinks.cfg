SPECIFICATION Spec
CONSTANTS
  Users = {u1}
  Founders = {}
  Passwords = {p1}
  Sessions = {s1}
  Links = {l1, l2, l3}
  Requests = {r1, r2, r3}
  None = None
SYMMETRY Symmetry
INVARIANTS OneLink
CHECK_DEADLOCK FALSE
