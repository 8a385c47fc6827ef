------------------------------- MODULE RqLocks -------------------------------
(***************************************************************************)
(* The run queues' spin locks in src/opcional2/kernel/sched.c: finding and *)
(* locking the queue a task is on while the task is being moved, and       *)
(* taking two locks at once.  Each CPU runs one of these at a time, with   *)
(* interrupts disabled; a CPU that waits for a lock spins.                 *)
(***************************************************************************)
EXTENDS Integers, FiniteSets, Sequences

CONSTANTS LockTasks, Queues,  \* queues are numbers: the order of addresses
          LockCpus, Nobody

ASSUME LocksAssumption ==
  /\ IsFiniteSet(Queues) /\ Queues \subseteq Nat
  /\ IsFiniteSet(LockCpus) /\ Nobody \notin LockCpus

VARIABLES
  fair,      \* built with CONFIG_PREEMPT: the fair double_lock_balance
  task_rq,   \* the queue each task is on (task_rq(p))
  owner,     \* who holds each queue's lock
  todo,      \* the locks a CPU still has to take, in order
  doing      \* what a CPU is doing: "idle", or a record with its task, the
             \* queues it has read and where it is

lockVars == <<fair, task_rq, owner, todo, doing>>

Rest == [at |-> "idle", task |-> "none", src |-> 0, dst |-> 0]
Do(at, p, src, dst) == [at |-> at, task |-> p, src |-> src, dst |-> dst]

LocksInit ==
  /\ fair \in BOOLEAN
  /\ task_rq \in [LockTasks -> Queues]
  /\ owner = [q \in Queues |-> Nobody]
  /\ todo = [c \in LockCpus |-> <<>>]
  /\ doing = [c \in LockCpus |-> Rest]

Holds(c, q) == owner[q] = c
Releasing(c, Q) == [q \in Queues |-> IF q \in Q THEN Nobody ELSE owner[q]]

(* raw_spin_lock of the next lock a CPU has to take.                       *)
TakeLock(c) ==
  /\ todo[c] # <<>> /\ owner[Head(todo[c])] = Nobody
  /\ owner' = [owner EXCEPT ![Head(todo[c])] = c]
  /\ todo' = [todo EXCEPT ![c] = Tail(@)]
  /\ UNCHANGED <<fair, task_rq, doing>>

Ready(c, at) == doing[c].at = at /\ todo[c] = <<>>

(* The order double_rq_lock takes two locks in.                            *)
(* Mutant: in the order of the arguments.                                  *)
double_rq_lockUnordered(q1, q2) == IF q1 = q2 THEN <<q1>> ELSE <<q1, q2>>

double_rq_lock(q1, q2) ==
  IF q1 = q2 THEN <<q1>> ELSE IF q1 < q2 THEN <<q1, q2>> ELSE <<q2, q1>>

-----------------------------------------------------------------------------
(* task_rq_lock: read the task's queue, lock it, look again.               *)
task_rq_lock(c, p) ==
  /\ doing[c] = Rest
  /\ doing' = [doing EXCEPT ![c] = Do("check", p, task_rq[p], 0)]
  /\ todo' = [todo EXCEPT ![c] = <<task_rq[p]>>]
  /\ UNCHANGED <<fair, task_rq, owner>>

(* Mutant: the queue is not looked up again.                               *)
CheckQueueOnce(c) ==
  /\ Ready(c, "check")
  /\ doing' = [doing EXCEPT ![c].at = "locked"]
  /\ UNCHANGED <<fair, task_rq, owner, todo>>

CheckQueue(c) ==
  /\ Ready(c, "check")
  /\ LET d == doing[c]  now == task_rq[d.task]
     IN IF now = d.src
          THEN /\ doing' = [doing EXCEPT ![c].at = "locked"]
               /\ UNCHANGED <<owner, todo>>
          ELSE /\ owner' = Releasing(c, {d.src})
               /\ doing' = [doing EXCEPT ![c].src = now]
               /\ todo' = [todo EXCEPT ![c] = <<now>>]
  /\ UNCHANGED <<fair, task_rq>>

(* task_rq_unlock; try_to_wake_up and wake_up_new_task may first move the  *)
(* task, holding the lock of the queue it leaves alone.                    *)
task_rq_unlock(c, q) ==
  /\ Ready(c, "locked")
  /\ task_rq' = [task_rq EXCEPT ![doing[c].task] = q]
  /\ owner' = Releasing(c, {doing[c].src})
  /\ doing' = [doing EXCEPT ![c] = Rest]
  /\ UNCHANGED <<fair, todo>>

-----------------------------------------------------------------------------
(* __migrate_task from src to dst: both locks, then the test.              *)
migrate(c, p, src, dst) ==
  /\ doing[c] = Rest
  /\ doing' = [doing EXCEPT ![c] = Do("migrate", p, src, dst)]
  /\ todo' = [todo EXCEPT ![c] = double_rq_lock(src, dst)]
  /\ UNCHANGED <<fair, task_rq, owner>>

Migrate(c) ==
  /\ Ready(c, "migrate")
  /\ LET d == doing[c]
     IN task_rq' = IF task_rq[d.task] = d.src
                     THEN [task_rq EXCEPT ![d.task] = d.dst] ELSE task_rq
  /\ owner' = Releasing(c, {doing[c].src, doing[c].dst})
  /\ doing' = [doing EXCEPT ![c] = Rest]
  /\ UNCHANGED <<fair, todo>>

(* yield_to: the own queue and the task's, looked up again; the section    *)
(* moves nothing.                                                          *)
yield_to(c, p, own) ==
  /\ doing[c] = Rest
  /\ doing' = [doing EXCEPT ![c] = Do("yield", p, own, task_rq[p])]
  /\ todo' = [todo EXCEPT ![c] = double_rq_lock(own, task_rq[p])]
  /\ UNCHANGED <<fair, task_rq, owner>>

YieldTo(c) ==
  /\ Ready(c, "yield")
  /\ LET d == doing[c]  now == task_rq[d.task]
     IN /\ owner' = Releasing(c, {d.src, d.dst})
        /\ IF now = d.dst
             THEN doing' = [doing EXCEPT ![c] = Rest] /\ UNCHANGED todo
             ELSE /\ doing' = [doing EXCEPT ![c].dst = now]
                  /\ todo' = [todo EXCEPT ![c] = double_rq_lock(d.src, now)]
  /\ UNCHANGED <<fair, task_rq>>

-----------------------------------------------------------------------------
(* Balancing, with the own lock held (this_rq_lock), wants another's.      *)
this_rq_lock(c, own, busiest) ==
  /\ doing[c] = Rest /\ own # busiest
  /\ doing' = [doing EXCEPT ![c] = Do("balance", "none", own, busiest)]
  /\ todo' = [todo EXCEPT ![c] = <<own>>]
  /\ UNCHANGED <<fair, task_rq, owner>>

(* double_lock_balance.  Fair: let the own lock go and take both.  Unfair: *)
(* try the other lock; if it is taken, wait for it, letting the own lock   *)
(* go first if it comes later in the order.                                *)
double_lock_balance(c) ==
  /\ Ready(c, "balance")
  /\ LET own == doing[c].src  busiest == doing[c].dst
     IN IF fair
          THEN /\ owner' = Releasing(c, {own})
               /\ todo' = [todo EXCEPT ![c] = double_rq_lock(own, busiest)]
          ELSE IF owner[busiest] = Nobody
                 THEN owner' = [owner EXCEPT ![busiest] = c] /\ UNCHANGED todo
                 ELSE IF busiest < own
                   THEN /\ owner' = Releasing(c, {own})
                        /\ todo' = [todo EXCEPT ![c] = <<busiest, own>>]
                   ELSE /\ todo' = [todo EXCEPT ![c] = <<busiest>>]
                        /\ UNCHANGED owner
  /\ doing' = [doing EXCEPT ![c].at = "pull"]
  /\ UNCHANGED <<fair, task_rq>>

(* With both locks: pull a task; double_unlock_balance and unlock.         *)
Pull(c) ==
  /\ Ready(c, "pull")
  /\ LET own == doing[c].src  busiest == doing[c].dst
     IN /\ \E p \in LockTasks :
             task_rq' = IF task_rq[p] = busiest
                          THEN [task_rq EXCEPT ![p] = own] ELSE task_rq
        /\ owner' = Releasing(c, {own, busiest})
  /\ doing' = [doing EXCEPT ![c] = Rest]
  /\ UNCHANGED <<fair, todo>>

LocksNext ==
  \E c \in LockCpus :
    \/ TakeLock(c) \/ CheckQueue(c) \/ Migrate(c) \/ YieldTo(c)
    \/ double_lock_balance(c) \/ Pull(c)
    \/ \E q \in Queues : task_rq_unlock(c, q)
    \/ \E p \in LockTasks : \/ task_rq_lock(c, p)
                            \/ \E own \in Queues : yield_to(c, p, own)
    \/ \E q, r \in Queues :
         \/ this_rq_lock(c, q, r)
         \/ \E p \in LockTasks : migrate(c, p, q, r)

LocksSpec == LocksInit /\ [][LocksNext]_lockVars

-----------------------------------------------------------------------------
(* Once task_rq_lock has returned, the caller holds the lock of the queue  *)
(* the task is on and the task stays there until the caller lets it go,    *)
(* although the queue was looked up before the lock was held and others    *)
(* move the task, some of them with only the lock of the queue it leaves.  *)
RightQueueLocked ==
  \A c \in LockCpus : doing[c].at = "locked" =>
    /\ Holds(c, doing[c].src)
    /\ task_rq[doing[c].task] = doing[c].src

(* Never does every CPU of some set spin for a lock that another of them   *)
(* (or it itself) holds, whatever pairs of queues they lock, in whatever   *)
(* roles.                                                                  *)
NoLockCycle ==
  ~ \E S \in (SUBSET LockCpus) \ {{}} :
      \A c \in S : todo[c] # <<>> /\ owner[Head(todo[c])] \in S
=============================================================================
