SPECIFICATION MCSpec
CONSTANTS
  a = a
  b = b
  root = root
  Proc = {p1, p2}
  Inum = {root, i1, i2, i3}
  Block = {1, 2, 3, 4}
  Name = {a, b}
  Path <- OneName
  Call = {"open", "create", "unlink"}
  NINODE = 4
  SMP = TRUE
  MaxCalls = 2
SYMMETRY Symmetry
INVARIANT HasType
CHECK_DEADLOCK FALSE
