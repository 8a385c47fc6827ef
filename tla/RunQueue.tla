------------------------------ MODULE RunQueue ------------------------------
(***************************************************************************)
(* The core of src/opcional2/kernel/sched.c on several CPUs: tasks that    *)
(* fork, sleep, wake up, are preempted, moved and exit while their         *)
(* affinity changes and CPUs come and go.                                  *)
(*                                                                         *)
(* A region under the lock of the run queue it touches is one step (module *)
(* RqLocks is about the locks); where the code lets the lock go, between   *)
(* the halves of a wake-up and inside schedule, there are two.  Which task *)
(* of a queue runs next, and where a class would like to put a task, is    *)
(* decided in other files and left open.  The stop and the idle task of a  *)
(* CPU are not counted in nr_running.                                      *)
(*                                                                         *)
(* States: "R" TASK_RUNNING, "I" and "U" asleep, "W" TASK_WAKING, "dead";  *)
(* "forked" and "placed" are TASK_RUNNING before and after the first half  *)
(* of wake_up_new_task; "none" is no task.                                 *)
(***************************************************************************)
EXTENDS Integers, FiniteSets, Functions

CONSTANTS Tasks, Cpus, Idle, Stop,
          MaxMoves,   \* bound on the requests to the stop tasks
          MaxDrift    \* bound on a queue's nr_uninterruptible, up and down

ASSUME RunQueueAssumption ==
  /\ IsFiniteSet(Tasks) /\ IsFiniteSet(Cpus) /\ Cpus # {}
  /\ Idle \notin Tasks /\ Stop \notin Tasks /\ Idle # Stop
  /\ MaxMoves \in Nat /\ MaxDrift \in Nat

VARIABLES
  task,      \* state, on_rq, cpu and cpus_allowed of each task, and whether
             \* it is a worker (PF_WQ_WORKER and PF_THREAD_BOUND)
  rq,        \* nr_running, nr_uninterruptible, curr, need_resched of curr,
             \* and whether schedule is under way without the lock
  online, active,  \* cpu_online_mask, cpu_active_mask
  moves,     \* migration_args waiting for the stop task of a CPU
  stray      \* history: tasks that a path of the code leaves on a CPU they
             \* may not use

rqVars == <<task, rq, online, active, moves, stray>>

NoTask == [state |-> "none", on_rq |-> FALSE, cpu |-> CHOOSE c \in Cpus : TRUE,
           allowed |-> Cpus, worker |-> FALSE]

RQInit ==
  \E p \in Tasks, c \in Cpus, worker \in BOOLEAN :
    /\ task = [t \in Tasks |->
                 IF t = p THEN [state |-> "R", on_rq |-> TRUE, cpu |-> c,
                                allowed |-> Cpus, worker |-> worker]
                          ELSE NoTask]
    /\ rq = [d \in Cpus |-> [nr_running |-> IF d = c THEN 1 ELSE 0,
                             nr_uninterruptible |-> 0,
                             curr |-> IF d = c THEN p ELSE Idle,
                             resched |-> FALSE, switching |-> FALSE]]
    /\ online = Cpus /\ active = Cpus /\ moves = {} /\ stray = {}

Queued(c) == {p \in Tasks : task[p].on_rq /\ task[p].cpu = c}
task_running(p) == rq[task[p].cpu].curr = p

(* activate_task, deactivate_task: the queue r after it.                   *)
Contributes(p) == IF task[p].state = "U" THEN 1 ELSE 0

(* Mutant: a task that is activated while it still says it sleeps stays    *)
(* counted as asleep.                                                      *)
activate_taskUncounted(r, p) == [r EXCEPT !.nr_running = @ + 1]

activate_task(r, p) == [r EXCEPT !.nr_running = @ + 1,
                                 !.nr_uninterruptible = @ - Contributes(p)]

deactivate_task(r, p) == [r EXCEPT !.nr_running = @ - 1,
                                   !.nr_uninterruptible = @ + Contributes(p)]

(* Mutant: only a task of the same class is compared with curr.            *)
check_preempt_currSameClass(r) == r

(* check_preempt_curr: a task of a higher class than curr's reschedules.   *)
check_preempt_curr(r) == [r EXCEPT !.resched = @ \/ r.curr = Idle]

(* select_fallback_rq and select_task_rq: the CPUs p may be put on, and    *)
(* its mask afterwards.                                                    *)
select_fallback_rq(p) ==
  LET ok == task[p].allowed \cap active
  IN IF ok # {} THEN {[cpu |-> c, allowed |-> task[p].allowed] : c \in ok}
                ELSE {[cpu |-> c, allowed |-> Cpus] : c \in active}

select_task_rq(p) ==
  {[cpu |-> c, allowed |-> task[p].allowed] : c \in task[p].allowed \cap online}
  \cup select_fallback_rq(p)

-----------------------------------------------------------------------------
(* set_current_state by the task that runs; do_exit leaves it dead.        *)
SetState(c, s) ==
  /\ rq[c].curr \in Tasks /\ ~ rq[c].switching
  /\ LET p == rq[c].curr
     IN /\ task[p].state # "dead" /\ task[p].state # s
        /\ task[p].state = "R" \/ s = "R"
        /\ task' = [task EXCEPT ![p].state = s]
  /\ UNCHANGED <<rq, online, active, moves, stray>>

(* context_switch to what pick_next_task returns from queue r of c, given  *)
(* the tasks it may choose.                                                *)
Switched(r, next) == [r EXCEPT !.curr = next, !.resched = FALSE,
                               !.switching = FALSE]
Candidates(S) == IF S = {} THEN {Idle} ELSE S

(* schedule without a sleep: preempted (PREEMPT_ACTIVE), yielding, rescued *)
(* by a signal, or the idle task with need_resched set.  The stop task     *)
(* gives the CPU back when it has nothing left to do.                      *)
Preempt(c) ==
  /\ c \in online /\ ~ rq[c].switching
  /\ rq[c].curr = Idle => rq[c].resched
  /\ rq[c].curr = Stop => \A m \in moves : m.at # c
  /\ \E next \in Candidates(Queued(c)) :
       rq' = [rq EXCEPT ![c] = Switched(@, next)]
  /\ UNCHANGED <<task, online, active, moves, stray>>

ScheduleSignalled(c) ==
  /\ ~ rq[c].switching
  /\ LET p == rq[c].curr
     IN p \in Tasks /\ task[p].state = "I" /\
          \E next \in Candidates(Queued(c)) :
            /\ task' = [task EXCEPT ![p].state = "R"]
            /\ rq' = [rq EXCEPT ![c] = Switched(@, next)]
  /\ UNCHANGED <<online, active, moves, stray>>

(* The queue r once it has woken the sleeper w of its own CPU.             *)
try_to_wake_up_local(r, w) ==
  check_preempt_curr(IF task[w].on_rq THEN r ELSE activate_task(r, w))

(* schedule with a sleep, up to where the lock may be let go               *)
(* (blk_schedule_flush_plug, idle_balance).  A worker may have another     *)
(* worker of this CPU woken in its place.                                  *)
ScheduleSleeps(c) ==
  /\ ~ rq[c].switching
  /\ LET p == rq[c].curr
         r == [deactivate_task(rq[c], p) EXCEPT !.switching = TRUE]
     IN /\ p \in Tasks /\ task[p].state # "R"
        /\ \/ /\ task' = [task EXCEPT ![p].on_rq = FALSE]
              /\ rq' = [rq EXCEPT ![c] = r]
           \/ /\ task[p].worker
              /\ \E w \in Tasks \ {p} :
                   /\ task[w].worker /\ task[w].cpu = c
                   /\ task[w].state \in {"I", "U"}
                   /\ task' = [task EXCEPT ![p].on_rq = FALSE,
                                           ![w].on_rq = TRUE, ![w].state = "R"]
                   /\ rq' = [rq EXCEPT ![c] = try_to_wake_up_local(r, w)]
  /\ UNCHANGED <<online, active, moves, stray>>

(* Once p is off the CPU, the last reference to a dead task is dropped.    *)
finish_task_switch(p) ==
  LET dead == task[p].state = "dead"
  IN /\ task'  = IF dead THEN [task EXCEPT ![p] = NoTask] ELSE task
     /\ moves' = IF dead THEN {m \in moves : m.task # p} ELSE moves
     /\ stray' = IF dead THEN stray \ {p} ELSE stray

(* The rest of schedule.                                                   *)
ScheduleSwitches(c) ==
  /\ rq[c].switching
  /\ \E next \in Candidates(Queued(c)) :
       rq' = [rq EXCEPT ![c] = Switched(@, next)]
  /\ finish_task_switch(rq[c].curr)
  /\ UNCHANGED <<online, active>>

-----------------------------------------------------------------------------
(* try_to_wake_up, first half.                                             *)
try_to_wake_up(p, this) ==
  LET t == task[p]  c == t.cpu
  IN /\ t.state \in {"I", "U"} /\ this \in online
     /\ \/ /\ t.on_rq                                        \* out_running
           /\ task' = [task EXCEPT ![p].state = "R"]
           /\ rq' = [rq EXCEPT ![c] = check_preempt_curr(@)]
           /\ UNCHANGED stray
        \/ /\ ~ t.on_rq /\ task_running(p)                   \* out_activate
           /\ task' = [task EXCEPT ![p].state = "R", ![p].on_rq = TRUE]
           /\ rq' = [rq EXCEPT ![c] = check_preempt_curr(activate_task(@, p))]
           /\ UNCHANGED stray
        \/ /\ ~ t.on_rq /\ ~ task_running(p)
           /\ rq' = [rq EXCEPT ![IF c \in online THEN c ELSE this].nr_uninterruptible
                       = @ - Contributes(p)]
           /\ \E where \in select_task_rq(p) :
                task' = [task EXCEPT ![p].state = "W", ![p].cpu = where.cpu,
                                     ![p].allowed = where.allowed]
           /\ stray' = stray \ {p}
     /\ UNCHANGED <<online, active, moves>>

(* Second half: ttwu_activate and ttwu_post_activation on the new queue.   *)
ttwu_activate(p) ==
  /\ task[p].state = "W"
  /\ task' = [task EXCEPT ![p].state = "R", ![p].on_rq = TRUE]
  /\ rq' = [rq EXCEPT ![task[p].cpu] = check_preempt_curr(activate_task(@, p))]
  /\ UNCHANGED <<online, active, moves, stray>>

(* sched_fork by the task that runs on c; p is not yet on any queue.       *)
sched_fork(c, p, worker) ==
  /\ rq[c].curr \in Tasks /\ ~ rq[c].switching /\ task[p].state = "none"
  /\ task[rq[c].curr].state = "R"
  /\ task' = [task EXCEPT ![p] = [state |-> "forked", on_rq |-> FALSE, cpu |-> c,
                                  allowed |-> task[rq[c].curr].allowed,
                                  worker |-> worker]]
  /\ UNCHANGED <<rq, online, active, moves, stray>>

(* wake_up_new_task: choose a CPU; then, with the lock taken again, queue. *)
PlaceNewTask(p) ==
  /\ task[p].state = "forked"
  /\ \E where \in select_task_rq(p) :
       task' = [task EXCEPT ![p].state = "placed", ![p].cpu = where.cpu,
                            ![p].allowed = where.allowed]
  /\ UNCHANGED <<rq, online, active, moves, stray>>

ActivateNewTask(p) ==
  /\ task[p].state = "placed"
  /\ task' = [task EXCEPT ![p].state = "R", ![p].on_rq = TRUE]
  /\ rq' = [rq EXCEPT ![task[p].cpu] = check_preempt_curr(activate_task(@, p))]
  /\ stray' = IF task[p].cpu \in task[p].allowed THEN stray ELSE stray \cup {p}
  /\ UNCHANGED <<online, active, moves>>

-----------------------------------------------------------------------------
migrate_task(p) == task[p].on_rq \/ task_running(p)
Request(p, dest) == [task |-> p, at |-> task[p].cpu, dest |-> dest]

(* set_cpus_allowed_ptr, which waits for TASK_WAKING to pass; a mask       *)
(* without an active CPU is refused, and any for a bound thread (its own   *)
(* call, which is not, and a mask equal to its own are left out).          *)
set_cpus_allowed_ptr(p, mask) ==
  /\ task[p].state \notin {"none", "W"}
  /\ mask \cap active # {} /\ ~ task[p].worker
  /\ task' = [task EXCEPT ![p].allowed = mask]
  /\ IF task[p].cpu \notin mask /\ migrate_task(p)
       THEN /\ Cardinality(moves) < MaxMoves
            /\ \E dest \in active \cap mask : moves' = moves \cup {Request(p, dest)}
       ELSE UNCHANGED moves
  /\ UNCHANGED <<rq, online, active, stray>>

(* sched_exec: the running task asks to be moved.                          *)
sched_exec(c, dest) ==
  /\ rq[c].curr \in Tasks /\ ~ rq[c].switching /\ Cardinality(moves) < MaxMoves
  /\ LET p == rq[c].curr
     IN /\ task[p].state = "R" /\ dest # c
        /\ dest \in task[p].allowed \cap active
        /\ moves' = moves \cup {Request(p, dest)}
  /\ UNCHANGED <<task, rq, online, active, stray>>

(* The stop task, of the highest class, preempts whatever runs.            *)
StopTaskRuns(c) ==
  /\ ~ rq[c].switching /\ rq[c].curr # Stop
  /\ \E m \in moves : m.at = c
  /\ rq' = [rq EXCEPT ![c] = Switched(@, Stop)]
  /\ UNCHANGED <<task, online, active, moves, stray>>

(* Both queues of a move of p from c to d.                                 *)
Moved(p, c, d) ==
  [rq EXCEPT ![c] = deactivate_task(@, p),
             ![d] = check_preempt_curr(activate_task(@, p))]

Bounded(queues) ==
  \A c \in Cpus : queues[c].nr_uninterruptible \in (-MaxDrift)..MaxDrift

(* Mutant: a request moves the task although its affinity changed again.   *)
MigratesRegardless(m) ==
  /\ m.dest \in active /\ task[m.task].cpu = m.at /\ task[m.task].on_rq

(* The tests of __migrate_task, under both locks.                          *)
Migrates(m) ==
  /\ m.dest \in active /\ task[m.task].cpu = m.at /\ task[m.task].on_rq
  /\ m.dest \in task[m.task].allowed

migration_cpu_stop(m) ==
  /\ rq[m.at].curr = Stop
  /\ moves' = moves \ {m}
  /\ LET p == m.task
     IN IF Migrates(m)
          THEN /\ task' = [task EXCEPT ![p].cpu = m.dest]
               /\ rq' = Moved(p, m.at, m.dest) /\ Bounded(rq')
               /\ stray' = stray \ {p}
          ELSE /\ stray' = IF m.dest \notin active THEN stray \cup {p} ELSE stray
               /\ UNCHANGED <<task, rq>>
  /\ UNCHANGED <<online, active>>

(* External (sched_fair.c, sched_rt.c): a queue pulls a task that is not   *)
(* running from another.                                                   *)
pull_task(p, d) ==
  /\ task[p].on_rq /\ ~ task_running(p) /\ task[p].cpu # d
  /\ d \in task[p].allowed \cap active
  /\ task' = [task EXCEPT ![p].cpu = d]
  /\ rq' = Moved(p, task[p].cpu, d) /\ Bounded(rq')
  /\ stray' = stray \ {p}
  /\ UNCHANGED <<online, active, moves>>

-----------------------------------------------------------------------------
(* sched_cpu_inactive at CPU_DOWN_PREPARE; sched_cpu_active at CPU_ONLINE  *)
(* and CPU_DOWN_FAILED.                                                    *)
sched_cpu_inactive(c) ==
  /\ c \in active /\ active # {c}
  /\ active' = active \ {c}
  /\ UNCHANGED <<task, rq, online, moves, stray>>

sched_cpu_active(c) ==
  /\ c \in online \ active
  /\ active' = active \cup {c}
  /\ UNCHANGED <<task, rq, online, moves, stray>>

CpuUp(c) ==
  /\ c \notin online
  /\ online' = online \cup {c}
  /\ UNCHANGED <<task, rq, active, moves, stray>>

(* Inside stop_machine no CPU is in a region with preemption disabled.     *)
StopMachine ==
  /\ \A p \in Tasks : task[p].state \notin {"W", "placed"}
  /\ \A c \in Cpus : ~ rq[c].switching /\ rq[c].curr # Stop

(* CPU_DYING: migrate_tasks sends every queued task to its fallback CPU,   *)
(* migrate_nr_uninterruptible gives the counter to an active CPU.  The     *)
(* requests to the dead CPU's stop task are dropped.                       *)
CpuDying(c) ==
  /\ c \in online \ active /\ StopMachine
  /\ \E where \in [Queued(c) -> [cpu : active, allowed : SUBSET Cpus]],
        heir \in active :
       /\ \A p \in Queued(c) : where[p] \in select_fallback_rq(p)
       /\ task' = [p \in Tasks |->
                     IF p \notin Queued(c) THEN task[p]
                     ELSE [task[p] EXCEPT !.cpu = where[p].cpu,
                                          !.allowed = where[p].allowed]]
       /\ rq' = [d \in Cpus |->
            LET came == {p \in Queued(c) : where[p].cpu = d}
                awake == {p \in Queued(c) : task[p].state = "U"}
                r == [rq[d] EXCEPT
                       !.nr_running = @ + Cardinality(came),
                       !.nr_uninterruptible = @ - Cardinality(came \cap awake)
                         + (IF d = heir THEN rq[c].nr_uninterruptible
                                             + Cardinality(awake) ELSE 0)]
            IN IF d = c THEN [nr_running |-> 0, nr_uninterruptible |-> 0,
                              curr |-> Idle, resched |-> FALSE,
                              switching |-> FALSE]
               ELSE IF came = {} THEN r ELSE check_preempt_curr(r)]
       /\ Bounded(rq')
  /\ stray' = stray \ Queued(c)
  /\ online' = online \ {c}
  /\ moves' = {m \in moves : m.at # c}
  /\ UNCHANGED active

RQNext ==
  \/ \E c \in Cpus :
       \/ Preempt(c) \/ ScheduleSignalled(c) \/ ScheduleSleeps(c)
       \/ ScheduleSwitches(c) \/ StopTaskRuns(c)
       \/ sched_cpu_inactive(c) \/ sched_cpu_active(c) \/ CpuUp(c) \/ CpuDying(c)
       \/ \E s \in {"R", "I", "U", "dead"} : SetState(c, s)
       \/ \E p \in Tasks, worker \in BOOLEAN : sched_fork(c, p, worker)
       \/ \E d \in Cpus : sched_exec(c, d)
  \/ \E p \in Tasks :
       \/ ttwu_activate(p) \/ PlaceNewTask(p) \/ ActivateNewTask(p)
       \/ \E c \in Cpus : try_to_wake_up(p, c) \/ pull_task(p, c)
       \/ \E mask \in SUBSET Cpus : set_cpus_allowed_ptr(p, mask)
  \/ \E m \in moves : migration_cpu_stop(m)

RQSpec == RQInit /\ [][RQNext]_rqVars

-----------------------------------------------------------------------------
(* The counters tell the truth: nr_running of a queue is the tasks on it,  *)
(* a task runs on one CPU at most, its own, and although a queue's         *)
(* nr_uninterruptible means nothing by itself, their sum over all CPUs is  *)
(* the tasks asleep uninterruptibly (nr_uninterruptible, sched.c:3022),    *)
(* whichever CPU each went to sleep, was woken from or died on.            *)
QueueAccounts ==
  /\ \A c \in Cpus :
       /\ rq[c].nr_running = Cardinality(Queued(c))
       /\ rq[c].curr \in Tasks =>
            /\ task[rq[c].curr].cpu = c
            /\ rq[c].switching \/ task[rq[c].curr].on_rq
  /\ SumFunction([c \in Cpus |-> rq[c].nr_uninterruptible])
       = Cardinality({p \in Tasks : task[p].state = "U" /\ ~ task[p].on_rq})

(* No wake-up is lost: a task that is awake is on the queue of an online   *)
(* CPU, and a CPU with a task to run does not idle without being told to   *)
(* reschedule, whether the wake-up met the task asleep, going to sleep, on *)
(* its way to another CPU or on a CPU that was going down.                 *)
AwakeRuns ==
  /\ \A p \in Tasks : task[p].state = "R" =>
       task[p].on_rq /\ task[p].cpu \in online
  /\ \A c \in Cpus : Queued(c) # {} /\ rq[c].curr = Idle => rq[c].resched

(* A queued task on a CPU outside its mask is about to be moved to a CPU   *)
(* in it.  Two paths of the code leave one behind: a destination that has  *)
(* become inactive when the stop task gets there (sched.c:5952), and a     *)
(* mask that changes between the halves of wake_up_new_task                *)
(* (sched.c:2732-2736).                                                    *)
AffinityPending ==
  \A p \in Tasks :
    task[p].on_rq /\ task[p].cpu \notin task[p].allowed /\ p \notin stray =>
      \E m \in moves : /\ m.task = p /\ m.at = task[p].cpu
                       /\ m.dest \in task[p].allowed
=============================================================================
