SPECIFICATION Spec
CONSTANTS
  NoProc = NoProc
  Procs = {r, q, w}
  Readers = {r, q}
  Writers = {w}
  Interruptible = {}
  Byte = {0}
  BUF_LEN = 2
  Lengths = {1, 2}
  Faults = FALSE
  UINT = 16
  MaxLost = 0
INVARIANTS NoLostWakeup
CHECK_DEADLOCK FALSE
