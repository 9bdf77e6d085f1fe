SPECIFICATION Spec
CONSTANTS
  Words = {"cat", "wc", "echo", "f"}
  MAXARGS = 3
  MaxProc = 5
  NPIPE = 3
  PIPESIZE = 1
  MaxInput = 2
  HeapStart = 2
  HeapEnd = 13
  NALLOC = 5
  Request = {2, 3, 6}
  BUFSIZE = 5
  File = {f1, f2}
  BSIZE = 2
  NDIRECT = 1
  NINDIRECT = 2
  IPB = 8
  BPB = 32
  FSSIZE = 27
  NINODES = 9
  LOGSIZE = 1
  Zero = Zero
  MaxChunk = 2
  Written <- MCWritten
  Amount = {3}
  Offset <- MCOffset
  MaxWrites = 2
  NotOpen = NotOpen
INVARIANTS ParsesGrammar Foreground HeapTiled GrepFinds
PROPERTIES LineEnds FilesAreBytes
CHECK_DEADLOCK FALSE
