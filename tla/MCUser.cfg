SPECIFICATION Spec
CONSTANTS
  MAXARGS = 10
  NFD = 8
  DIRSIZ = 2
  WORDMOD = 32
  GREPBUF = 5
  HEAP = 10
  NALLOC = 4
  Units = {1, 2, 5}
  FSSIZE = 40
  LOGSIZE = 2
  NINODES = 7
  BSIZE = 2
  NDIRECT = 2
  NINDIRECT = 2
  IPB = 2
  BPB = 48
  FileSizes = {0, 1, 4, 7}
  KBDQ = 3
INVARIANTS   GrepFinds HeapCovered  ModifiersFollow
CHECK_DEADLOCK FALSE
