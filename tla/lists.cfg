SPECIFICATION Spec
CONSTANTS
  Procs = {a, b, c}
  NoProc = NoProc
  Interruptible = {}
  n1 = n1
  n2 = n2
  n3 = n3
  Node = {n1, n2, n3}
  NoNode = NoNode
  Value = {1, 10}
  Lines <- Words
  cleanup <- Cleanup
  buffer_len = 4
  LockKinds = {"spin", "rw"}
  Callers = {a, b}
  MAX_KIFS_ENTRY = 2
  NoSlot = NoSlot
  Name = {"list", "clipboard", "x"}
  namelen <- NameLength
  NAME_SIZE = 2
  CLIP_SIZE = 3
  Maxchars = {2, 8}
INVARIANTS NodesAccounted SnapshotRead ReadOvershoot RegistryConsistent FoundEntryStands BuffersHold
SYMMETRY Symmetry
CHECK_DEADLOCK FALSE
