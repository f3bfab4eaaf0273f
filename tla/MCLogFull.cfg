\* mkfs gives the log LOGSIZE blocks with its header; every call keeps to MAXOPBLOCKS.
CONSTANTS
  Proc = {p1, p2, p3}
  Boot = boot
  Val = {v0}
  Zero = v0
  NoBlock = none
  MAXOPBLOCKS = 1
  LOGSIZE = 3
  NLOG = 3
  OPBLOCKS = 1
  FSSIZE = 8
SPECIFICATION Spec
INVARIANTS NoPanic
