SPECIFICATION Spec
CONSTANTS
  NPROC = 2
  CPU = {c1, c2}
SYMMETRY Symmetry
INVARIANTS NoPanic OneStack NoLostWakeup SyscallsUninterrupted HaltsInterruptible
