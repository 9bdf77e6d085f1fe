SPECIFICATION LiveSpec
CONSTANTS
  NPROC = 3
  CPU = {c1, c2}
  Chan = {ticks}
  KillPid = {2, 3}
  Memory = 8
  MaxPid = 3
INVARIANTS OneCPU ParentAlive NoMissedExit PagesConserved
PROPERTIES RunnableRuns KilledExits OrphansReaped
