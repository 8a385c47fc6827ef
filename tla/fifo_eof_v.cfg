SPECIFICATION FairSpec
CONSTANTS
  NoProc = NoProc
  Procs = {r, w}
  Readers = {r}
  Writers = {w}
  Interruptible = {}
  Byte = {0}
  BUF_LEN = 1
  Lengths = {1}
  Faults = FALSE
  UINT = 16
  MaxLost = 0
PROPERTIES EofReported
CHECK_DEADLOCK FALSE
