SPECIFICATION MCSpec
CONSTANTS
  a = a
  b = b
  root = root
  Proc = {p1, p2}
  Inum = {root, i1, i2, i3}
  Block = {1, 2, 3, 4}
  Name = {a, b}
  Path <- Short
  Call = {"open", "create", "mkdir", "link", "unlink", "chdir", "write", "close", "getcwd"}
  NINODE = 4
  SMP = FALSE
  MaxCalls = 1
SYMMETRY Symmetry
INVARIANTS RefsCounted NoPanic NoDangling BlocksSafe NoCircle
CHECK_DEADLOCK FALSE
