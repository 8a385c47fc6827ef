SPECIFICATION Spec
CONSTANTS
  Procs = {a, b, c}
  NoProc = NoProc
  Interruptible = {a, b, c}
  Item = {0, 1}
  MAX_ITEMS_CBUF = 2
  MaxLost = 1
INVARIANTS MemoryAccounted Permits WaitersAccounted WakeUpForEachGap
PROPERTIES ImplementsQueue
CHECK_DEADLOCK FALSE
SYMMETRY Symmetry
