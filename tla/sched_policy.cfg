SPECIFICATION Spec
CONSTANTS
  Procs = {p, q}
  MAX_RT_PRIO = 2
  Nice0 = 5
  StaticPrios = {4, 5}
  NoPrio = 9
  MaxCalls = 2
  Groups = {r, g, h}
  Root = r
  RtTasks = {t, u}
  RatioUnit = 4
  Periods = {2}
  Runtimes = {0, 1}
  RuntimeInf = RuntimeInf
  SysctlPeriods = {0, 2}
  SysctlRuntimes = {RuntimeInf, 2}
INVARIANTS ClassFollowsPolicy RtSchedulable
PROPERTIES SetparamKeepsPolicy
SYMMETRY Symmetry
CHECK_DEADLOCK FALSE
