SPECIFICATION TPSpec
CONSTANTS
  Procs = {p, q}
  MAX_RT_PRIO = 2
  Nice0 = 5
  StaticPrios = {4, 5}
  NoPrio = 9
  MaxCalls = 1
PROPERTIES RevertsOnFork
CHECK_DEADLOCK FALSE
