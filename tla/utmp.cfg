SPECIFICATION UtmpSpec
CONSTANTS
  NoProc = NoProc
  Procs = {a, b, c}
  Readers = {a, b}
  Writers = {b, c}
  Interruptible = {a, b, c}
  Byte = {0, 1}
  BUF_LEN = 3
  Lengths = {2}
  Faults = FALSE
  UINT = 16
  MaxLost = 1
  utmp <- File
  utmp_size = 2
INVARIANTS RecordsWhole Delivery
CHECK_DEADLOCK FALSE
