SPECIFICATION Spec
CONSTANTS
  NoProc = NoProc
  Procs = {a, b}
  Readers = {a}
  Writers = {a, b}
  Interruptible = {a, b}
  Byte = {0, 1}
  BUF_LEN = 2
  Lengths = {0, 1, 2, 3}
  Faults = TRUE
  UINT = 16
  MaxLost = 1
INVARIANTS OpenAccounting WaitAccounting
PROPERTIES ImplementsPipe
CHECK_DEADLOCK FALSE
