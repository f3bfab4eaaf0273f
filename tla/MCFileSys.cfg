CONSTANTS
  p1 = p1
  p2 = p2
  NoProc = NoProc
  Proc = {p1, p2}
  First = p1
  NINODES = 4
  Name <- SmallNames
  Calls <- SmallCalls
  NFILE = 1
  NOFILE = 2
SPECIFICATION Spec
INVARIANTS RefExact LinksCounted OrphanHeld CacheMatchesDisk NoLockCycle
