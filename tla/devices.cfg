SPECIFICATION Spec
CONSTANTS
  Procs = {a, b, c}
  NoProc = NoProc
  Interruptible = {a, b, c}
  MaxStale = 1
  MaxUnpaired = 2
  Byte = {0, 1}
  NUL = 0
  max_size = 3
  Apis = {{"items"}, {"single"}}
  LENGTH = 2
  BUF_LEN = 4
  MaxCount = 2
  LockTasks = {x}
  Queues = {1, 2, 3}
  LockCpus = {c1, c2, c3}
  Nobody = Nobody
INVARIANTS RefsAccounted PinnedFileHasModule OpensExclusive CursorInside RightQueueLocked NoLockCycle
PROPERTIES ImplementsQueue
SYMMETRY Symmetry
CHECK_DEADLOCK FALSE
