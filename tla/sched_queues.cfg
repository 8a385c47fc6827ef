SPECIFICATION RQSpec
CONSTANTS
  Tasks = {p, q}
  Cpus = {a, b}
  Idle = Idle
  Stop = Stop
  MaxMoves = 1
  MaxDrift = 1
INVARIANTS QueueAccounts AwakeRuns AffinityPending
SYMMETRY Symmetry
CHECK_DEADLOCK FALSE
