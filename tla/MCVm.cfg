SPECIFICATION Spec
CONSTANTS
  NPROC = 3
  CPU = {c1, c2}
  PHYSPAGES = 16
  FANOUT = 3
  PGSIZE = 2
  KERNBASE = 10
  ImageEnd = {4, 10}
  Change <- MCChange
  Mark = {"mark"}
  Touched = {1}
  MaxCalls = 4
  None = None
SYMMETRY Symmetry
INVARIANTS PagesOwnedOnce LoadedTableLives OnlyOutOfMemory
PROPERTY PrivateMemory
