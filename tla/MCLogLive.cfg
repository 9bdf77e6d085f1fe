SPECIFICATION LiveSpec
CONSTANTS
  Proc = {p1, p2}
  Block = {b1, b2, b3}
  Val = {v0, v1}
  MAXOPBLOCKS = 2
  LOGSIZE = 4
  NLOG = 4
  OpBlocks = 1
  MaxCalls = 3
INVARIANTS EvictionSafe QuiescentIsDurable NoPanic
PROPERTY CrashAtomic CallsReturn
