SPECIFICATION Spec
CONSTANTS
  Tasks = {s, t, u}
  UINT_MAX = 3
  Cpus = {a, b}
  FSHIFT = 2
  EXP = 3
  Counts = {0, 1}
  MaxIdle = 1
  MaxLate = 2
  Weights = {0, 5, 9, 16}
  MaxMissed = 9
INVARIANTS NoLostCompletion EntriesOnLiveStacks LoadAccounted CpuLoadMoves
PROPERTIES AvenrunTracks
SYMMETRY Symmetry
CHECK_DEADLOCK FALSE
