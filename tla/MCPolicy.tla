----------------------------- MODULE MCPolicy -----------------------------
(* Priorities, the tree of groups, and the tasks in groups; a behaviour    *)
(* runs one of them, the others stay in one of their initial states.       *)
EXTENDS TaskPriority, RtGroups, TLC

VARIABLE part

Init ==
  /\ TPInit /\ RGInit /\ part \in {"priorities", "tree", "tasks"}
  /\ part = "priorities" => sysctl.runtime = RuntimeInf
  /\ part # "priorities" => Exists(CHOOSE p \in Procs : TRUE)

(* Bound: one call of sched_setscheduler and one of sched_setparam at a    *)
(* time, one of the two while a task forks or is normalized; and since     *)
(* tasks meet in nothing but forks, one of them at a time with calls,      *)
(* waiters or a normalization.                                             *)
Busy(p) == \/ boost[p] # NoPrio \/ setting[p] # NoPrio \/ p \in normalizing
           \/ \E c \in calls : c.task = p
FewCalls ==
  /\ \A keep \in BOOLEAN : Cardinality({c \in calls : c.keep = keep}) <= 1
  /\ (\E p \in Procs : Forking(p)) \/ normalizing # {} => Cardinality(calls) <= 1
  /\ Cardinality({p \in Procs : Busy(p)}) <= 1

(* The tree has groups side by side and below each other, and no tasks; a  *)
(* process of two threads has a group to go to and one to come from, and   *)
(* does not attach while the global limits, which that does not read,      *)
(* change.                                                                 *)
NoTasks == UNCHANGED <<rt_task, seen, attaching>>
TwoGroups ==
  /\ Cardinality(Live) <= 2 /\ sysctl.period # 0
  /\ handler = Idling \/ attaching = Idling

Next ==
  /\ \/ part = "priorities" /\ TPNext /\ FewCalls' /\ UNCHANGED rgVars
     \/ part = "tree" /\ NoTasks /\ RGNext /\ UNCHANGED tpVars
     \/ part = "tasks" /\ RGNext /\ TwoGroups' /\ UNCHANGED tpVars
  /\ UNCHANGED part

Spec == Init /\ [][Next]_<<part, tpVars, rgVars>>

Symmetry == Permutations(Procs) \cup Permutations(Groups \ {Root})
              \cup Permutations(RtTasks)
=============================================================================
