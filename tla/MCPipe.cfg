SPECIFICATION Spec
CONSTANTS
  x = x
  y = y
  Proc = {p1, p2}
  NFILE = 3
  NOFILE = 2
  PIPESIZE = 2
  UINT = 4
  Page = {g1}
  Byte = {x, y}
  Writes <- ShortAndLong
  Reads = {2}
SYMMETRY Symmetry
INVARIANTS RefsCounted PipeEnds
PROPERTIES SleepersWait Streams
CHECK_DEADLOCK FALSE
