SPECIFICATION Spec
CONSTANTS
  NPROC = 3
  CPU = {c1, c2}
  Chan = {ticks}
  KillPid = {2}
  Memory = 8
  MaxPid = 3
INVARIANT KillWakes
