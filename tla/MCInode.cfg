CONSTANTS
  p1 = p1
  p2 = p2
  f1 = f1
  f2 = f2
  NoProc = NoProc
  Proc = {p1, p2}
  File = {f1, f2}
  FirstBlock = 11
  LastBlock = 14
  BSIZE = 2
  NDIRECT = 1
  LOGSIZE = 6
  Val = {v1, v2}
  Lengths = {3}
SPECIFICATION Spec
INVARIANTS BlocksExact ReadsContent
PROPERTIES IsFileStore
SYMMETRY Symmetry
