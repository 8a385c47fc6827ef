------------------------------ MODULE RtGroups ------------------------------
(***************************************************************************)
(* Real-time bandwidth of the task groups in                               *)
(* src/opcional2/kernel/sched.c: the tree of groups, their runtimes and    *)
(* periods, the global limits of sched_rt_handler, and the real-time tasks *)
(* that a group without runtime must not have.                             *)
(*                                                                         *)
(* What one caller reads before rt_constraints_mutex, decides under it and *)
(* stores are steps of their own, and so are the test and the change of    *)
(* __sched_setscheduler, which holds the run queue's lock, and the checks  *)
(* and the moves of an attach, which holds neither.  cgroup_mutex,         *)
(* external, lets one attach or removal run at a time.                     *)
(***************************************************************************)
EXTENDS Integers, FiniteSets, Functions

CONSTANTS Groups, Root, RtTasks,
          RatioUnit,                    \* stands for 1 << 20
          Periods, Runtimes,            \* what users write
          RuntimeInf,                   \* RUNTIME_INF, of sysctl's -1 too
          SysctlPeriods, SysctlRuntimes

Idling == [at |-> "idle"]   \* nothing under way; the parent of no group

ASSUME GroupsAssumption ==
  /\ IsFiniteSet(Groups) /\ Root \in Groups /\ Idling \notin Groups
  /\ RatioUnit \in Nat \ {0} /\ RuntimeInf \notin Nat
  /\ Periods \subseteq Nat \ {0} /\ SysctlPeriods \subseteq Nat
  /\ Runtimes \cup SysctlRuntimes \subseteq Nat \cup {RuntimeInf}

VARIABLES
  parent,      \* the parent of each group; of Root, Root; else Idling
  bandwidth,   \* of each group: rt_period and rt_runtime
  sysctl,      \* sysctl_sched_rt_period and _runtime
  def_period,  \* def_rt_bandwidth.rt_period
  call,        \* a call of sched_group_set_rt_* before the mutex, or Idling
  checked,     \* the call that has passed its check and holds the mutex
  handler,     \* sched_rt_handler: the old values and where it is
  task_group,  \* of each task
  rt_task,     \* the real-time tasks
  seen,        \* of each task, what the test of __sched_setscheduler saw of
               \* its group and has still to act on, or Idling
  attaching,   \* an attach under way, or Idling: the new group, the threads
               \* still to check, and those let through and still to move
  slipped      \* history: tasks that became real time untested where there
               \* was no time, or between a check and what it is for

rgVars == <<parent, bandwidth, sysctl, def_period, call, checked, handler,
            task_group, rt_task, seen, attaching, slipped>>

Live == {g \in Groups : parent[g] # Idling}
Children(g) == {h \in Live \ {Root} : parent[h] = g}
rt_bandwidth_enabled == sysctl.runtime # RuntimeInf

to_ratio(b) == IF b.runtime = RuntimeInf THEN RatioUnit
                                         ELSE (b.runtime * RatioUnit) \div b.period
Exceeds(b) == b.runtime # RuntimeInf /\ b.runtime > b.period
tg_has_rt_tasks(g) == \E t \in rt_task : task_group[t] = g
ChildrenSum(g, b) == SumFunction([h \in Children(g) |-> to_ratio(b[h])])

(* May g have its bandwidth in b?                                          *)
tg_schedulable(g, b) ==
  /\ ~ Exceeds(b[g])
  /\ ~ (rt_bandwidth_enabled /\ b[g].runtime = 0 /\ tg_has_rt_tasks(g))
  /\ to_ratio(b[g]) <= to_ratio(sysctl)
  /\ ChildrenSum(g, b) <= to_ratio(b[g])

(* The walk down the tree.                                                 *)
rt_schedulable(b) == \A g \in Live : tg_schedulable(g, b)

NoBandwidth == [period |-> 1, runtime |-> 0]

With(c) == [bandwidth EXCEPT ![c.tg] = [period |-> c.period,
                                        runtime |-> c.runtime]]

RGInit ==
  /\ sysctl \in [period : SysctlPeriods \ {0}, runtime : SysctlRuntimes]
  /\ ~ Exceeds(sysctl)
  /\ parent = [g \in Groups |-> IF g = Root THEN Root ELSE Idling]
  /\ bandwidth = [g \in Groups |-> IF g = Root THEN sysctl ELSE NoBandwidth]
  /\ def_period = sysctl.period
  /\ call = Idling /\ checked = {} /\ handler = Idling /\ attaching = Idling
  /\ task_group = [t \in RtTasks |-> Root]
  /\ seen = [t \in RtTasks |-> Idling]
  /\ rt_task = {} /\ slipped = {}

-----------------------------------------------------------------------------
(* Groups come, if memory allows, without runtime, and go when they have   *)
(* no tasks, no children and no open files (external: cgroup.c).           *)
sched_create_group(g, p) ==
  /\ g \notin Live /\ p \in Live
  /\ parent' = [parent EXCEPT ![g] = p]
  /\ bandwidth' = [bandwidth EXCEPT ![g] = [period |-> def_period, runtime |-> 0]]
  /\ UNCHANGED <<sysctl, def_period, call, checked, handler, task_group,
                 rt_task, seen, attaching, slipped>>

sched_destroy_group(g) ==
  /\ g \in Live \ {Root} /\ Children(g) = {} /\ attaching = Idling
  /\ \A t \in RtTasks : task_group[t] # g
  /\ \A c \in ({call} \ {Idling}) \cup checked : c.tg # g
  /\ parent' = [parent EXCEPT ![g] = Idling]
  /\ bandwidth' = [bandwidth EXCEPT ![g] = NoBandwidth]
  /\ UNCHANGED <<sysctl, def_period, call, checked, handler,
                 task_group, rt_task, seen, attaching, slipped>>

(* The value that stays is read before any lock is held.                   *)
sched_group_set_rt_runtime(g, runtime) ==
  /\ g \in Live /\ call = Idling
  /\ call' = [tg |-> g, period |-> bandwidth[g].period, runtime |-> runtime]
  /\ UNCHANGED <<parent, bandwidth, sysctl, def_period, checked, handler,
                 task_group, rt_task, seen, attaching, slipped>>

sched_group_set_rt_period(g, period) ==
  /\ g \in Live /\ call = Idling
  /\ call' = [tg |-> g, period |-> period, runtime |-> bandwidth[g].runtime]
  /\ UNCHANGED <<parent, bandwidth, sysctl, def_period, checked, handler,
                 task_group, rt_task, seen, attaching, slipped>>

(* Mutant: the constraints are checked before the mutex is held.           *)
MutexIgnored == TRUE

MutexFree == checked = {}

(* tg_set_bandwidth decides; with a global period of 0, which the handler  *)
(* writes before it refuses it, the division faults and nothing follows.   *)
tg_set_bandwidth_checks ==
  /\ call # Idling /\ MutexFree
  /\ rt_bandwidth_enabled => sysctl.period > 0
  /\ call' = Idling
  /\ checked' = checked \cup {c \in {call} : rt_schedulable(With(c))}
  /\ UNCHANGED <<parent, bandwidth, sysctl, def_period, handler, task_group,
                 rt_task, seen, attaching, slipped>>

(* ... and stores, and leaves the mutex.                                   *)
tg_set_bandwidth_stores(c) ==
  /\ bandwidth' = With(c) /\ checked' = checked \ {c}
  /\ slipped' = IF /\ attaching # Idling /\ c.runtime = 0
                   /\ attaching.tg = c.tg
                  THEN slipped \cup (attaching.move \cap rt_task) ELSE slipped
  /\ UNCHANGED <<parent, sysctl, def_period, call, handler, task_group,
                 rt_task, seen, attaching>>

-----------------------------------------------------------------------------
(* sched_rt_handler: proc_dointvec writes one of the two before the check, *)
(* and what it wrote is taken back, or made the default, after it.         *)
sched_rt_handler_writes(new) ==
  /\ handler = Idling
  /\ new.period = sysctl.period \/ new.runtime = sysctl.runtime
  /\ handler' = [old |-> sysctl, at |-> "written"]
  /\ sysctl' = new
  /\ UNCHANGED <<parent, bandwidth, def_period, call, checked, task_group,
                 rt_task, seen, attaching, slipped>>

sched_rt_global_constraints ==
  /\ handler # Idling /\ handler.at = "written"
  /\ LET sane == sysctl.period > 0 /\ ~ Exceeds(sysctl)
     IN /\ sane => MutexFree
        /\ handler' = [handler EXCEPT !.at = IF sane /\ rt_schedulable(bandwidth)
                                               THEN "passed" ELSE "refused"]
  /\ UNCHANGED <<parent, bandwidth, sysctl, def_period, call, checked,
                 task_group, rt_task, seen, attaching, slipped>>

sched_rt_handler_ends ==
  /\ handler # Idling /\ handler.at # "written"
  /\ handler' = Idling
  /\ IF handler.at = "refused"
       THEN sysctl' = handler.old /\ UNCHANGED def_period
       ELSE def_period' = sysctl.period /\ UNCHANGED sysctl
  /\ UNCHANGED <<parent, bandwidth, call, checked, task_group, rt_task,
                 seen, attaching, slipped>>

-----------------------------------------------------------------------------
(* Has a check passed that is about to take g's runtime?                   *)
LosingRuntime(g) == \E c \in checked : c.tg = g /\ c.runtime = 0

HasTime(g) == bandwidth[g].runtime # 0
Moving(t) == attaching # Idling /\ t \in attaching.move

(* What the test of t's group depends on.                                  *)
Seen(t) == [enabled |-> rt_bandwidth_enabled, has |-> HasTime(task_group[t])]

(* t turns real time, unnoticed by whoever has checked that it is not.     *)
TurnsRealTime(t, unnoticed) ==
  /\ t \notin rt_task /\ rt_task' = rt_task \cup {t}
  /\ slipped' = IF unnoticed \/ LosingRuntime(task_group[t]) \/ Moving(t)
                  THEN slipped \cup {t} ELSE slipped
  /\ UNCHANGED <<parent, bandwidth, sysctl, def_period, call, checked, handler,
                 task_group, attaching>>

(* __sched_setscheduler for a user, with the locks of the task and of its  *)
(* run queue, neither of which holds up who sets runtimes: the test, and   *)
(* the change, or a fresh start because another has set the policy.        *)
TestsRuntime(t) ==
  /\ t \notin rt_task /\ seen[t] = Idling
  /\ rt_bandwidth_enabled => HasTime(task_group[t])
  /\ seen' = [seen EXCEPT ![t] = Seen(t)]
  /\ UNCHANGED <<parent, bandwidth, sysctl, def_period, call, checked, handler,
                 task_group, rt_task, attaching, slipped>>

RunsRealTime(t) ==
  /\ seen[t] # Idling /\ seen' = [seen EXCEPT ![t] = Idling]
  /\ TurnsRealTime(t, seen[t] # Seen(t))

StartsAgain(t) ==
  /\ seen[t] # Idling /\ seen' = [seen EXCEPT ![t] = Idling]
  /\ UNCHANGED <<parent, bandwidth, sysctl, def_period, call, checked, handler,
                 task_group, rt_task, attaching, slipped>>

(* Real time without a test: for a caller in the kernel, in an autogroup   *)
(* (whose real-time tasks run in the root group), boosted by a waiter, or  *)
(* born that way.                                                          *)
RunsRealTimeUntested(t) ==
  /\ seen[t] = Idling /\ UNCHANGED seen
  /\ TurnsRealTime(t, rt_bandwidth_enabled /\ ~ HasTime(task_group[t]))

RunsFair(t) ==
  /\ rt_task' = rt_task \ {t} /\ slipped' = slipped \ {t} /\ t \in rt_task
  /\ UNCHANGED <<parent, bandwidth, sysctl, def_period, call, checked, handler,
                 task_group, seen, attaching>>

sched_rt_can_attach(t, g) == ~ (t \in rt_task /\ ~ HasTime(g))

(* Mutant: of the threads, only one is checked.                            *)
cpu_cgroup_can_attachOne(S, g) ==
  /\ attaching = Idling /\ g \in Live /\ \E t \in S : task_group[t] # g
  /\ \E t \in S : attaching' = [tg |-> g, check |-> {t}, move |-> S \ {t}]
  /\ UNCHANGED <<parent, bandwidth, sysctl, def_period, call, checked, handler,
                 task_group, rt_task, seen, slipped>>

(* An attach of a task, or of the threads of one, checks each of them, ... *)
cpu_cgroup_can_attach(S, g) ==
  /\ attaching = Idling /\ g \in Live /\ \E t \in S : task_group[t] # g
  /\ attaching' = [tg |-> g, check |-> S, move |-> {}]
  /\ UNCHANGED <<parent, bandwidth, sysctl, def_period, call, checked, handler,
                 task_group, rt_task, seen, slipped>>

cpu_cgroup_can_attach_task(t) ==
  /\ attaching # Idling /\ t \in attaching.check
  /\ attaching' = IF sched_rt_can_attach(t, attaching.tg)
                    THEN [attaching EXCEPT !.check = @ \ {t}, !.move = @ \cup {t}]
                    ELSE Idling
  /\ UNCHANGED <<parent, bandwidth, sysctl, def_period, call, checked, handler,
                 task_group, rt_task, seen, slipped>>

(* ... then moves each of them (cgroup.c and sched_move_task).             *)
cpu_cgroup_attach(t) ==
  /\ Moving(t) /\ attaching.check = {}
  /\ task_group' = [task_group EXCEPT ![t] = attaching.tg]
  /\ attaching' = IF attaching.move = {t} THEN Idling
                    ELSE [attaching EXCEPT !.move = @ \ {t}]
  /\ slipped' = IF LosingRuntime(attaching.tg) THEN slipped \cup ({t} \cap rt_task)
                                               ELSE slipped
  /\ UNCHANGED <<parent, bandwidth, sysctl, def_period, call, checked, handler,
                 rt_task, seen>>

RGNext ==
  \/ \E g \in Groups :
       \/ sched_destroy_group(g)
       \/ \E p \in Groups : sched_create_group(g, p)
       \/ \E r \in Runtimes : sched_group_set_rt_runtime(g, r)
       \/ \E p \in Periods : sched_group_set_rt_period(g, p)
       \/ \E S \in SUBSET RtTasks : cpu_cgroup_can_attach(S, g)
  \/ \E t \in RtTasks :
       \/ TestsRuntime(t) \/ RunsRealTime(t) \/ StartsAgain(t)
       \/ RunsRealTimeUntested(t) \/ RunsFair(t)
       \/ cpu_cgroup_can_attach_task(t) \/ cpu_cgroup_attach(t)
  \/ \E new \in [period : SysctlPeriods, runtime : SysctlRuntimes] :
       sched_rt_handler_writes(new)
  \/ tg_set_bandwidth_checks
  \/ \E c \in checked : tg_set_bandwidth_stores(c)
  \/ sched_rt_global_constraints \/ sched_rt_handler_ends

RGSpec == RGInit /\ [][RGNext]_rgVars

-----------------------------------------------------------------------------
(* Real time stays schedulable.  The children of a group are never         *)
(* promised more than it has, although each caller reads half of what it   *)
(* stores before it holds the mutex and groups, tasks and the global       *)
(* limits change meanwhile.                                                *)
ChildrenFit == \A g \in Live : ChildrenSum(g, bandwidth) <= to_ratio(bandwidth[g])

(* No runtime is taken from, or refused to, a real-time task that whoever  *)
(* decided could see: when the handler has taken back what it wrote, such  *)
(* a task has some time to run.  The code does not promise it to every     *)
(* real-time task: `slipped` are those that became one untested in a group *)
(* without runtime, or between the check of one caller (of runtimes, of an *)
(* attach, of __sched_setscheduler itself) and what was done upon it.      *)
TimeForRtTasks ==
  rt_bandwidth_enabled /\ handler = Idling =>
    \A t \in rt_task \ slipped : bandwidth[task_group[t]].runtime # 0

(* "Ensure that the real time constraints are schedulable." (sched.c:8759) *)
RtSchedulable == ChildrenFit /\ TimeForRtTasks
=============================================================================
