----------------------------- MODULE LoadAverage -----------------------------
(***************************************************************************)
(* The load statistics of src/opcional2/kernel/sched.c.  Each CPU folds    *)
(* the change of its count of active tasks into calc_load_tasks once per   *)
(* period, or into calc_load_tasks_idle when it goes idle without ticks,   *)
(* to be collected by whoever comes first; calc_global_load turns the sum  *)
(* into avenrun.  Separately, update_cpu_load keeps decaying averages of   *)
(* each run queue's weight.                                                *)
(*                                                                         *)
(* A fold and the atomic add that publishes it are two steps, the first    *)
(* under the run queue's lock.  Time is counted in periods of LOAD_FREQ.   *)
(***************************************************************************)
EXTENDS Integers, FiniteSets, Functions

CONSTANTS Cpus,
          FSHIFT, EXP,   \* external (linux/sched.h): fixed point and a decay
          Counts,        \* bound on a run queue's active tasks
          MaxIdle,       \* bound on the idle changes nobody has collected
          MaxLate,       \* bound on the periods that go by unnoticed
          Weights,       \* values of a run queue's load.weight
          MaxMissed      \* bound on the ticks update_cpu_load misses

ASSUME LoadAssumption ==
  /\ IsFiniteSet(Cpus) /\ Cpus # {}
  /\ FSHIFT \in Nat \ {0} /\ EXP \in 1..2^FSHIFT
  /\ Counts \subseteq Int /\ Weights \subseteq Nat
  /\ MaxIdle \in Nat /\ MaxLate \in Nat /\ MaxMissed \in Nat

VARIABLES
  online,
  count,      \* nr_running + nr_uninterruptible of each run queue
  folded,     \* rq->calc_load_active
  tasks,      \* calc_load_tasks
  idleTasks,  \* calc_load_tasks_idle
  delta,      \* per CPU: a change folded and not yet added, and where to
  nohzDelta,  \* the change calc_global_nohz has collected and not yet added
  updating,   \* where calc_global_load is
  due,        \* CPUs that are past their rq->calc_load_update
  late,       \* periods since the global calc_load_update
  avenrun,    \* one of the three averages
  cpu_load    \* the averages 1..4 of a run queue

laVars == <<online, count, folded, tasks, idleTasks, delta, nohzDelta, updating,
            due, late, avenrun, cpu_load>>

FIXED_1 == 2^FSHIFT
Nothing == [to |-> "none", by |-> 0]
Indices == 1..4

LAInit ==
  /\ online = Cpus
  /\ count = [c \in Cpus |-> 0] /\ folded = count
  /\ tasks = 0 /\ idleTasks = 0 /\ nohzDelta = 0
  /\ updating = "no"
  /\ delta = [c \in Cpus |-> Nothing]
  /\ due = {} /\ late = 0
  /\ avenrun = 0
  /\ cpu_load = [i \in Indices |-> 0]

(* The run queue's tasks wake, sleep or migrate.                           *)
CountChanges(c) ==
  /\ c \in online /\ delta[c] = Nothing
  /\ \E n \in {count[c] - 1, count[c] + 1} \cap Counts :
       count' = [count EXCEPT ![c] = n]
  /\ UNCHANGED <<online, folded, tasks, idleTasks, delta, nohzDelta, updating,
                 due, late, avenrun, cpu_load>>

PeriodPasses ==
  /\ updating = "no" /\ late < MaxLate /\ late' = late + 1
  /\ due' = Cpus
  /\ UNCHANGED <<online, count, folded, tasks, idleTasks, delta, nohzDelta, updating,
                 avenrun, cpu_load>>

(* calc_load_fold_active: what is to be added for c.                       *)
calc_load_fold_active(c) ==
  /\ c \in online /\ delta[c] = Nothing
  /\ folded' = [folded EXCEPT ![c] = count[c]]

(* calc_load_account_active, which collects the idle changes as well.      *)
calc_load_account_active(c) ==
  /\ c \in due /\ due' = due \ {c}
  /\ calc_load_fold_active(c)
  /\ delta' = [delta EXCEPT ![c] = [to |-> "tasks",
                                    by |-> count[c] - folded[c] + idleTasks]]
  /\ idleTasks' = 0
  /\ UNCHANGED <<online, count, tasks, nohzDelta, updating, late, avenrun, cpu_load>>

calc_load_account_idle(c) ==
  /\ count[c] - folded[c] + idleTasks \in (-MaxIdle)..MaxIdle
  /\ calc_load_fold_active(c)
  /\ delta' = [delta EXCEPT ![c] = [to |-> "idle", by |-> count[c] - folded[c]]]
  /\ UNCHANGED <<online, count, tasks, idleTasks, nohzDelta, updating, due, late, avenrun,
                 cpu_load>>

(* atomic_long_add(delta, ...)                                             *)
DeltaAdded(c) ==
  /\ delta[c] # Nothing
  /\ delta' = [delta EXCEPT ![c] = Nothing]
  /\ IF delta[c].to = "tasks"
       THEN tasks' = tasks + delta[c].by /\ UNCHANGED idleTasks
       ELSE idleTasks' = idleTasks + delta[c].by /\ UNCHANGED tasks
  /\ UNCHANGED <<online, count, folded, nohzDelta, updating, due, late, avenrun, cpu_load>>

-----------------------------------------------------------------------------
(* Mutant: rounds up.                                                      *)
calc_load_RoundsUp(load, exp, active) ==
  (load * exp + active * (FIXED_1 - exp) + FIXED_1) \div FIXED_1

calc_load(load, exp, active) ==
  (load * exp + active * (FIXED_1 - exp) + FIXED_1 \div 2) \div FIXED_1

(* The rounded product of two numbers in fixed point.                      *)
times(a, b) == (a * b + FIXED_1 \div 2) \div FIXED_1

(* fixed_power_int: x to the n in fixed point, by squaring.  The loop ends *)
(* when no bit of n is left, which n rounds are enough for.                *)
fixed_power_int(x, n) ==
  LET loop[k \in 0..n] ==
        IF k = 0 THEN [n |-> n, x |-> x, result |-> FIXED_1]
        ELSE LET l == loop[k - 1]
             IN [n |-> l.n \div 2, x |-> times(l.x, l.x),
                 result |-> IF l.n % 2 = 1 THEN times(l.result, l.x)
                                           ELSE l.result]
  IN loop[n].result

calc_load_n(load, exp, active, n) ==
  calc_load(load, fixed_power_int(exp, n), active)

Active(n) == IF n > 0 THEN n * FIXED_1 ELSE 0

(* calc_global_load, which whoever advances jiffies calls, one at a time.  *)
(* Past calc_load_update calc_global_nohz collects the idle changes, ...   *)
calc_global_nohz ==
  /\ updating = "no" /\ late > 0
  /\ nohzDelta' = idleTasks /\ idleTasks' = 0
  /\ updating' = "collected"
  /\ UNCHANGED <<online, count, folded, tasks, delta, due, late, avenrun, cpu_load>>

(* ... adds them, ...                                                      *)
NohzAdds ==
  /\ updating = "collected" /\ updating' = "added"
  /\ tasks' = tasks + nohzDelta /\ nohzDelta' = 0
  /\ UNCHANGED <<online, count, folded, idleTasks, delta, due, late, avenrun,
                 cpu_load>>

(* ... and after an idle sleep applies its n whole periods at once.        *)
NohzPeriods(n) ==
  /\ updating = "added" /\ updating' = "periods"
  /\ n <= late /\ late' = late - n
  /\ avenrun' = IF n = 0 THEN avenrun
                ELSE calc_load_n(avenrun, EXP, Active(tasks), n)
  /\ UNCHANGED <<online, count, folded, tasks, idleTasks, delta, nohzDelta, due,
                 cpu_load>>

(* The regular update is ten ticks into a period, or not yet.              *)
calc_global_load ==
  /\ updating = "periods" /\ updating' = "no"
  /\ \/ /\ late > 0 /\ late' = late - 1
        /\ avenrun' = calc_load(avenrun, EXP, Active(tasks))
     \/ UNCHANGED <<late, avenrun>>
  /\ UNCHANGED <<online, count, folded, tasks, idleTasks, delta, nohzDelta, due,
                 cpu_load>>

-----------------------------------------------------------------------------
(* Mutant: calc_global_load_remove is forgotten.                           *)
CpuDyingKeepsLoad(c, d) ==
  /\ c \in online /\ d \in online \ {c}
  /\ updating = "no" /\ \A k \in Cpus : delta[k] = Nothing
  /\ count[c] + count[d] \in Counts
  /\ online' = online \ {c}
  /\ count' = [count EXCEPT ![c] = 0, ![d] = @ + count[c]]
  /\ folded' = [folded EXCEPT ![c] = 0]
  /\ UNCHANGED <<tasks, idleTasks, delta, nohzDelta, updating, due, late, avenrun, cpu_load>>

(* CPU_DYING of migration_call, inside stop_machine, where no CPU is       *)
(* between a fold and its add or in calc_global_load: the tasks and        *)
(* nr_uninterruptible go elsewhere (migrate_tasks,                         *)
(* migrate_nr_uninterruptible), and calc_global_load_remove takes back     *)
(* what c has folded.                                                      *)
CpuDying(c, d) ==
  /\ c \in online /\ d \in online \ {c}
  /\ updating = "no" /\ \A k \in Cpus : delta[k] = Nothing
  /\ count[c] + count[d] \in Counts
  /\ online' = online \ {c}
  /\ count' = [count EXCEPT ![c] = 0, ![d] = @ + count[c]]
  /\ tasks' = tasks - folded[c]
  /\ folded' = [folded EXCEPT ![c] = 0]
  /\ UNCHANGED <<idleTasks, delta, nohzDelta, updating, due, late, avenrun, cpu_load>>

(* CPU_UP_PREPARE: the CPU joins the global period.                        *)
CpuUp(c) ==
  /\ c \notin online
  /\ online' = online \cup {c}
  /\ due' = IF late > 0 THEN due \cup {c} ELSE due \ {c}
  /\ UNCHANGED <<count, folded, tasks, idleTasks, delta, nohzDelta, updating, late, avenrun,
                 cpu_load>>

LoadNext ==
  \/ PeriodPasses \/ calc_global_nohz \/ NohzAdds \/ calc_global_load
  \/ \E n \in 0..MaxLate : NohzPeriods(n)
  \/ \E c \in Cpus :
       \/ CountChanges(c) \/ calc_load_account_active(c)
       \/ calc_load_account_idle(c) \/ DeltaAdded(c) \/ CpuUp(c)
       \/ \E d \in Cpus : CpuDying(c, d)

-----------------------------------------------------------------------------
degrade_zero_ticks == <<8, 32, 64, 128>>
degrade_factor == << <<64, 32, 8, 0, 0, 0, 0, 0>>,
                     <<96, 72, 40, 12, 1, 0, 0, 0>>,
                     <<112, 98, 75, 43, 15, 1, 0, 0>>,
                     <<120, 112, 98, 76, 45, 16, 2, 0>> >>

(* The loop multiplies by the factor of each bit of the ticks missed; what *)
(* degrade_zero_ticks lets through has at most eight bits.                 *)
decay_load_missed(load, missed, i) ==
  LET decayed[j \in 0..8] ==
        IF j = 0 THEN load
        ELSE IF (missed \div 2^(j - 1)) % 2 = 1
             THEN (decayed[j - 1] * degrade_factor[i][j]) \div 128
             ELSE decayed[j - 1]
  IN IF missed >= degrade_zero_ticks[i] THEN 0
     ELSE IF i = 1 THEN load \div 2^missed
     ELSE decayed[8]

(* Mutant: an increasing load is not rounded up.                           *)
AverageRoundsDown(old, new, i) == (old * (2^i - 1) + new) \div 2^i

Average(old, new, i) ==
  LET up == IF new > old THEN 2^i - 1 ELSE 0
  IN (old * (2^i - 1) + new + up) \div 2^i

(* update_cpu_load at a run queue of weight w, missed ticks late.          *)
update_cpu_load(w, missed) ==
  /\ cpu_load' = [i \in Indices |->
                    Average(decay_load_missed(cpu_load[i], missed, i), w, i)]
  /\ UNCHANGED <<online, count, folded, tasks, idleTasks, delta, nohzDelta, updating,
                 due, late, avenrun>>

CpuLoadNext ==
  \E w \in Weights, missed \in 0..MaxMissed : update_cpu_load(w, missed)

LoadSpec == LAInit /\ [][LoadNext \/ CpuLoadNext]_laVars

-----------------------------------------------------------------------------
(* Whatever CPUs go idle, miss periods, are removed or come back while     *)
(* changes are on their way, calc_load_tasks, the idle changes and the     *)
(* changes under way add up to what the CPUs have folded: none is lost or  *)
(* counted twice.                                                          *)
LoadAccounted ==
  tasks + idleTasks + nohzDelta + SumFunction([c \in Cpus |-> delta[c].by])
    = SumFunction(folded)

(* An update takes avenrun towards the active tasks and never past them,   *)
(* also when it makes up for several periods with a rounded power.         *)
AvenrunTracks ==
  [][LET a == Active(tasks')
     IN avenrun' # avenrun => \/ avenrun < avenrun' /\ avenrun' <= a
                              \/ a <= avenrun' /\ avenrun' < avenrun]_avenrun

(* sched.c:3419-3421: an average never gets stuck short of a constant      *)
(* load, and never passes it: from wherever the averages have got to, an   *)
(* update with no tick missed brings each of them strictly nearer to the   *)
(* weight until it is there.                                               *)
CpuLoadMoves ==
  \A w \in Weights, i \in Indices :
    LET old == cpu_load[i]
        new == Average(old, w, i)
    IN \/ old < new /\ new <= w
       \/ w <= new /\ new < old
       \/ old = w /\ new = w
=============================================================================
