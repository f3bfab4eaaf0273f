\* Two calls fit in the log at once; each may write two blocks.
CONSTANTS
  Proc = {p1, p2}
  Boot = boot
  Val = {v0, v1}
  Zero = v0
  NoBlock = none
  MAXOPBLOCKS = 3
  LOGSIZE = 6
  NLOG = 6
  OPBLOCKS = 2
  FSSIZE = 10
SPECIFICATION FairSpec
INVARIANTS CommitAlone
PROPERTIES WriteAhead CrashAtomic SleepersWake
