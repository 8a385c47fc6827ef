---------------------------- MODULE TaskPriority ----------------------------
(***************************************************************************)
(* Policies and priorities of tasks in src/opcional2/kernel/sched.c:       *)
(* sched_setscheduler and sched_setparam, nice, priority inheritance,      *)
(* fork and normalize_rt_tasks.  p->pi_lock and the run queue's lock make  *)
(* each change one step; what is read before they are taken is a step      *)
(* before: the policy in __sched_setscheduler, the priority that           *)
(* rt_mutex_setprio is to set, the test of normalize_rt_tasks.  sched_fork *)
(* holds neither of them: it works on a copy made earlier, and reads its   *)
(* parent once more.                                                       *)
(*                                                                         *)
(* A smaller number is a higher priority; those below MAX_RT_PRIO are real *)
(* time.  SCHED_RR goes with FIFO, SCHED_BATCH and SCHED_IDLE with NORMAL. *)
(* Waiters of the fair class, whose boost decides nothing, are left out.   *)
(***************************************************************************)
EXTENDS Integers, FiniteSets

CONSTANTS Procs, MAX_RT_PRIO,
          Nice0,        \* the static priority of nice 0
          StaticPrios,
          NoPrio,       \* no boost, nothing to set
          MaxCalls      \* bound on the calls of sched_setscheduler under way

ASSUME PriorityAssumption ==
  /\ IsFiniteSet(Procs) /\ MAX_RT_PRIO \in Nat \ {0} /\ MaxCalls \in Nat
  /\ StaticPrios \subseteq {n \in Nat : n >= MAX_RT_PRIO}
  /\ Nice0 \in StaticPrios /\ NoPrio \in Nat /\ NoPrio > MAX_RT_PRIO
  /\ \A n \in StaticPrios : n < NoPrio

VARIABLES
  proc,    \* the fields of each task that exists
  boost,   \* external (rtmutex.c): the best priority of its rt_mutex waiters
  setting, \* the priority rt_mutex_setprio is about to set, pi_lock held
  calls,   \* calls of __sched_setscheduler that have passed their checks
  copied,  \* of each task that forks, the copy that will be its child
  normalizing, \* tasks that normalize_rt_tasks has found to be real time
  leaked   \* history: children whose own priority is not the one sched_fork
           \* took from their parent

forkVars == <<copied, normalizing>>
tpVars == <<proc, boost, setting, calls, leaked, forkVars>>

Policies == {"NORMAL", "FIFO"}
rt_policy(policy) == policy = "FIFO"
rt_prio(prio) == prio < MAX_RT_PRIO
Better(m, n) == IF m < n THEN m ELSE n

None == [policy |-> "none"]
Exists(p) == proc[p] # None
Free(p) == Exists(p) /\ setting[p] = NoPrio      \* pi_lock is free
Forking(p) == copied[p] # None

normal_prio(t) == IF rt_policy(t.policy) THEN MAX_RT_PRIO - 1 - t.rt_priority
                                         ELSE t.static_prio
effective_prio(t) == IF rt_prio(t.prio) THEN t.prio ELSE normal_prio(t)
ClassOf(prio) == IF rt_prio(prio) THEN "rt" ELSE "fair"

(* The task t with the priority prio and the class that goes with it.      *)
WithPrio(t, prio) == [t EXCEPT !.prio = prio, !.class = ClassOf(prio)]

(* Of __setscheduler.  rt_mutex_getprio: the better of boost and own.     *)
do_setscheduler(t, b, policy, prio) ==
  LET n == [t EXCEPT !.policy = policy, !.rt_priority = prio]
  IN WithPrio([n EXCEPT !.normal_prio = normal_prio(n)],
              Better(b, normal_prio(n)))

Default == [policy |-> "NORMAL", rt_priority |-> 0, static_prio |-> Nice0,
            normal_prio |-> Nice0, prio |-> Nice0, class |-> "fair",
            reset_on_fork |-> FALSE]

TPInit ==
  /\ \E p \in Procs : proc = [q \in Procs |-> IF q = p THEN Default ELSE None]
  /\ boost = [p \in Procs |-> NoPrio] /\ setting = boost
  /\ copied = [p \in Procs |-> None] /\ normalizing = {}
  /\ calls = {} /\ leaked = {}

-----------------------------------------------------------------------------
(* __sched_setscheduler before the locks.  policy = "keep" is the -1 of    *)
(* sched_setparam; a real-time policy, and no other, has a priority.       *)
setscheduler_checks(p, policy, prio, reset) ==
  /\ Exists(p) /\ Cardinality(calls) < MaxCalls
  /\ LET new == IF policy = "keep" THEN proc[p].policy ELSE policy
     IN /\ rt_policy(new) <=> prio # 0
        /\ calls' = calls \cup
             {[task |-> p, policy |-> new, prio |-> prio,
               keep |-> policy = "keep",
               reset |-> IF policy = "keep" THEN proc[p].reset_on_fork
                                            ELSE reset]}
  /\ UNCHANGED <<proc, boost, setting, leaked, forkVars>>

(* Mutant: the policy that sched_setparam keeps is not checked again.      *)
NeverStale(c) == FALSE

(* The recheck: the policy that was to be kept is no longer the task's.    *)
Stale(c) == c.keep /\ c.policy # proc[c.task].policy

(* With the locks held: nothing to change; or start again, the policy read *)
(* anew (and -EINVAL if the priority does not go with it); or do it.       *)
Unchanging(c) ==
  /\ c.policy = proc[c.task].policy
  /\ ~ rt_policy(c.policy) \/ c.prio = proc[c.task].rt_priority

setscheduler_locked(c) ==
  /\ Free(c.task) /\ ~ Unchanging(c) /\ ~ Stale(c)
  /\ calls' = calls \ {c}
  /\ LET t == [proc[c.task] EXCEPT !.reset_on_fork = c.reset]
     IN proc' = [proc EXCEPT ![c.task] =
                   do_setscheduler(t, boost[c.task], c.policy, c.prio)]
  /\ leaked' = leaked \ {c.task}
  /\ UNCHANGED <<boost, setting, forkVars>>

setscheduler_nothing(c) ==
  /\ Free(c.task) /\ Unchanging(c)
  /\ calls' = calls \ {c}
  /\ UNCHANGED <<proc, boost, setting, leaked, forkVars>>

setscheduler_again(c) ==
  /\ Free(c.task) /\ ~ Unchanging(c) /\ Stale(c)
  /\ LET now == proc[c.task]
     IN calls' = IF rt_policy(now.policy) <=> c.prio # 0
                   THEN (calls \ {c}) \cup
                        {[c EXCEPT !.policy = now.policy,
                                   !.reset = now.reset_on_fork]}
                   ELSE calls \ {c}
  /\ UNCHANGED <<proc, boost, setting, leaked, forkVars>>

-----------------------------------------------------------------------------
Reniced(t, static) ==
  LET n == [t EXCEPT !.static_prio = static]
  IN IF rt_policy(t.policy) THEN n
     ELSE [n EXCEPT !.normal_prio = normal_prio(n), !.prio = effective_prio(n)]

(* set_user_nice, which does without pi_lock.                              *)
set_user_nice(p, static) ==
  /\ Exists(p) /\ proc[p].static_prio # static
  /\ proc' = [proc EXCEPT ![p] = Reniced(@, static)]
  /\ UNCHANGED <<boost, setting, calls, leaked, forkVars>>

(* normalize_rt_tasks at one task, which it tests without a lock: a task   *)
(* that is not real time it renices, another it is going to change.        *)
normalize_rt_tasks(p) ==
  /\ Exists(p) /\ p \notin normalizing
  /\ \/ /\ rt_prio(proc[p].prio)
        /\ normalizing' = normalizing \cup {p} /\ UNCHANGED proc
     \/ /\ ~ rt_prio(proc[p].prio) /\ proc[p].static_prio < Nice0
        /\ proc' = [proc EXCEPT ![p] = Reniced(@, Nice0)] /\ UNCHANGED normalizing
  /\ UNCHANGED <<boost, setting, calls, leaked, copied>>

normalize_task(p) ==
  /\ p \in normalizing /\ Free(p)
  /\ proc' = [proc EXCEPT ![p] = do_setscheduler(@, boost[p], "NORMAL", 0)]
  /\ normalizing' = normalizing \ {p} /\ leaked' = leaked \ {p}
  /\ UNCHANGED <<boost, setting, calls, copied>>

(* External (rtmutex.c): a waiter comes or goes; under pi_lock the         *)
(* priority is computed, then rt_mutex_setprio sets it.                    *)
WaitersChange(p, b) ==
  /\ Free(p) /\ b # boost[p]
  /\ boost' = [boost EXCEPT ![p] = b]
  /\ setting' = [setting EXCEPT ![p] = Better(b, proc[p].normal_prio)]
  /\ UNCHANGED <<proc, calls, leaked, forkVars>>

(* Mutant: the class stays.                                                *)
rt_mutex_setprioKeepsClass(p) ==
  /\ Exists(p) /\ setting[p] # NoPrio
  /\ proc' = [proc EXCEPT ![p].prio = setting[p]]
  /\ setting' = [setting EXCEPT ![p] = NoPrio]
  /\ leaked' = leaked \ {p}
  /\ UNCHANGED <<boost, calls, forkVars>>

rt_mutex_setprio(p) ==
  /\ Exists(p) /\ setting[p] # NoPrio
  /\ proc' = [proc EXCEPT ![p] = WithPrio(@, setting[p])]
  /\ setting' = [setting EXCEPT ![p] = NoPrio]
  /\ leaked' = leaked \ {p}
  /\ UNCHANGED <<boost, calls, forkVars>>

-----------------------------------------------------------------------------
(* External (fork.c): p copies itself, before sched_fork and without locks *)
(* of the scheduler.  The copy is not in the lists of tasks yet.           *)
dup_task_struct(p) ==
  /\ Exists(p) /\ ~ Forking(p) /\ \E q \in Procs : ~ Exists(q)
  /\ copied' = [copied EXCEPT ![p] = [task |-> proc[p], leaked |-> p \in leaked]]
  /\ UNCHANGED <<proc, boost, setting, calls, leaked, normalizing>>

(* What sched_reset_on_fork makes of the copy t.                           *)
Reset(t) ==
  LET n == IF rt_policy(t.policy)
             THEN [t EXCEPT !.policy = "NORMAL", !.normal_prio = t.static_prio]
             ELSE t
      m == IF n.static_prio < Nice0
             THEN [n EXCEPT !.static_prio = Nice0, !.normal_prio = Nice0] ELSE n
  IN [m EXCEPT !.reset_on_fork = FALSE]

Own(t) == IF t.reset_on_fork THEN Reset(t) ELSE t

(* The child made of the copy t: its priority is the normal_prio that its  *)
(* parent has by now, its class the one that t came with.                  *)
Child(t, parents) ==
  [Own(t) EXCEPT !.prio = parents,
                 !.class = IF rt_prio(parents) THEN @ ELSE "fair"]

(* The parent's normal_prio is not the child's: the copy was reset, or the *)
(* policy or the real-time priority of the parent changed since the copy   *)
(* was made; or the copy's class was no longer its parent's own.           *)
Leaks(copy, parents) ==
  LET own == Own(copy.task).normal_prio
  IN \/ own # parents /\ (rt_prio(own) \/ rt_prio(parents))
     \/ copy.leaked /\ rt_prio(parents)

sched_fork(p, q) ==
  /\ Forking(p) /\ ~ Exists(q)
  /\ proc' = [proc EXCEPT ![q] = Child(copied[p].task, proc[p].normal_prio)]
  /\ leaked' = IF Leaks(copied[p], proc[p].normal_prio)
                 THEN leaked \cup {q} ELSE leaked
  /\ copied' = [copied EXCEPT ![p] = None]
  /\ UNCHANGED <<boost, setting, calls, normalizing>>

(* External: a task that nobody is about to change is gone.                *)
Exit(p) ==
  /\ Free(p) /\ boost[p] = NoPrio /\ \A c \in calls : c.task # p
  /\ ~ Forking(p) /\ p \notin normalizing
  /\ \E q \in Procs \ {p} : Exists(q)
  /\ proc' = [proc EXCEPT ![p] = None] /\ leaked' = leaked \ {p}
  /\ UNCHANGED <<boost, setting, calls, forkVars>>

TPNext ==
  \/ \E c \in calls : \/ setscheduler_locked(c) \/ setscheduler_nothing(c)
                      \/ setscheduler_again(c)
  \/ \E p \in Procs :
       \/ rt_mutex_setprio(p) \/ normalize_rt_tasks(p) \/ normalize_task(p)
       \/ Exit(p) \/ dup_task_struct(p)
       \/ \E q \in Procs : sched_fork(p, q)
       \/ \E b \in (0..MAX_RT_PRIO - 1) \cup {NoPrio} : WaitersChange(p, b)
       \/ \E static \in StaticPrios : set_user_nice(p, static)
       \/ \E policy \in Policies \cup {"keep"}, prio \in 0..MAX_RT_PRIO - 1,
             reset \in BOOLEAN : setscheduler_checks(p, policy, prio, reset)

TPSpec == TPInit /\ [][TPNext]_tpVars

-----------------------------------------------------------------------------
(* However policy changes, renicing, forks and boosts by waiters mix, a    *)
(* task is in the real-time class exactly if its own policy or one of its  *)
(* waiters is real time, and then at the better of the two priorities;     *)
(* a boost neither outlives its waiters nor is lost while they wait.       *)
(* Children born with a priority that is not their own (leaked) are the    *)
(* exception until their priority is next set: those reset on fork (see    *)
(* RevertsOnFork), and those whose parent's policy or priority was set     *)
(* between the copy and sched_fork's read of it (sched.c:2667), which may  *)
(* run fair tasks at real-time priorities and real-time tasks as fair.     *)
ClassFollowsPolicy ==
  \A p \in Procs : Free(p) =>
    LET t == proc[p]  best == Better(boost[p], t.normal_prio)
    IN /\ t.normal_prio = normal_prio(t)
       /\ p \notin leaked => /\ t.class = ClassOf(t.prio)
                             /\ rt_prio(t.prio) <=> rt_prio(best)
                             /\ rt_prio(best) => t.prio = best

(* sched_setparam changes the priority and never the policy, although it   *)
(* reads the policy before it holds a lock and others set it meanwhile.    *)
SetparamKeepsPolicy ==
  [][\A c \in calls : c.keep /\ setscheduler_locked(c) =>
       proc'[c.task].policy = proc[c.task].policy]_tpVars

(* sched.c:2643: "Revert to default priority/policy on fork if requested." *)
(* A child whose copy of the flag asks for it does not start at a          *)
(* real-time priority: it has no waiters yet that could boost it.          *)
RevertsOnFork ==
  [][\A p, q \in Procs : sched_fork(p, q) /\ copied[p].task.reset_on_fork =>
       ~ rt_prio(proc'[q].prio)]_tpVars
=============================================================================
