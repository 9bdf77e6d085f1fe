SPECIFICATION Spec
CONSTANTS
  n1 = n1
  n2 = n2
  n3 = n3
  n4 = n4
  Thread = {t1, t2}
  Block = {n1, n2, n3, n4}
  Val = {v1, v2}
  NBUF = 3
  Logged = {n2}
  Direct = {n1}
  Nests <- LogThenHome
SYMMETRY Symmetry
INVARIANT DriverQueue
PROPERTY KeepsBlocks
