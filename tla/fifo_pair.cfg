SPECIFICATION FairSpec
CONSTANTS
  NoProc = NoProc
  Procs = {r, w}
  Readers = {r}
  Writers = {w}
  Interruptible = {}
  Byte = {0}
  BUF_LEN = 3
  Lengths = {1, 2}
  Faults = FALSE
  UINT = 16
  MaxLost = 0
INVARIANTS NoLostWakeup EmptyWhenUnused NumBloqIsWaiters
PROPERTIES WriteNeedsConsumer BrokenPipeReported OpenReturns
