----------------------------- MODULE Completion -----------------------------
(***************************************************************************)
(* Wait queues, completions and sleep_on of the scheduler                  *)
(* (src/opcional2/kernel/sched.c).  A region under the wait queue's spin   *)
(* lock is one step; wake-ups by signals and timers, which do not take     *)
(* that lock, come between any two of them.                                *)
(*                                                                         *)
(* A task's state is the set of the bits of p->state: {} is TASK_RUNNING,  *)
(* "U" TASK_UNINTERRUPTIBLE, "I" TASK_INTERRUPTIBLE, "K" TASK_WAKEKILL.    *)
(***************************************************************************)
EXTENDS Integers, Sequences, FiniteSets, SequencesExt


CONSTANTS Tasks,
          UINT_MAX  \* the largest value of the unsigned counter x->done

ASSUME CompletionAssumption == IsFiniteSet(Tasks) /\ UINT_MAX \in Nat \ {0}

VARIABLES
  done,      \* x->done
  queue,     \* x->wait: entries of do_wait_for_common, all exclusive
  sleepers,  \* a wait_queue_head_t used with sleep_on, none exclusive
  state,     \* p->state
  call,      \* the call each task is in
  expired,   \* tasks whose schedule_timeout has run out
  signalled, \* tasks with a signal pending
  killed     \* those of them for which it is a fatal one

cVars == <<done, queue, sleepers, state, call, expired, signalled, killed>>

TASK_NORMAL == {"I", "U"}
WaitStates == {{"U"}, {"I"}, {"U", "K"}}

None == [at |-> "none", state |-> {}, timed |-> FALSE]
Inside(at, s, timed) == [at |-> at, state |-> s, timed |-> timed]

CInit ==
  /\ done = 0 /\ queue = <<>> /\ sleepers = <<>>
  /\ state = [p \in Tasks |-> {}] /\ call = [p \in Tasks |-> None]
  /\ expired = {} /\ signalled = {} /\ killed = {}

(* External (linux/sched.h): does a signal end a sleep in state s?         *)
signal_pending_state(s, p) ==
  /\ p \in signalled
  /\ "I" \in s \/ ("K" \in s /\ p \in killed)

(***************************************************************************)
(* __wake_up_common on x->wait, whose entries are exclusive: they are      *)
(* scanned in order; one whose task sleeps in the mode is woken; after nr  *)
(* that were woken the scan stops (nr = 0: it never does).                 *)
(***************************************************************************)
CanWake(p, mode) == state[p] \cap mode # {}

(* Mutant: an entry counts even if its task was not woken.                 *)
WokenCountsAll(q, mode, nr) ==
  {q[i] : i \in {j \in 1..Len(q) : CanWake(q[j], mode) /\ (nr = 0 \/ j <= nr)}}

Woken(q, mode, nr) ==
  LET wakes == {j \in 1..Len(q) : CanWake(q[j], mode)}
  IN {q[i] : i \in {j \in wakes :
                      nr = 0 \/ Cardinality({k \in wakes : k < j}) < nr}}

Wake(W) == state' = [p \in Tasks |-> IF p \in W THEN {} ELSE state[p]]

(* list_del of the entry of p, which is queued.                            *)
Leave(p, q) == RemoveAt(q, CHOOSE i \in 1..Len(q) : q[i] = p)

(* The call of p returns.                                                  *)
Return(p) == /\ call' = [call EXCEPT ![p] = None]
             /\ expired' = expired \ {p}
             /\ signalled' = signalled \ {p} /\ killed' = killed \ {p}

-----------------------------------------------------------------------------
complete ==
  /\ done' = (done + 1) % (UINT_MAX + 1)
  /\ Wake(Woken(queue, TASK_NORMAL, 1))
  /\ UNCHANGED <<queue, sleepers, call, expired, signalled, killed>>

complete_all ==
  /\ done' = (done + UINT_MAX \div 2) % (UINT_MAX + 1)
  /\ Wake(Woken(queue, TASK_NORMAL, 0))
  /\ UNCHANGED <<queue, sleepers, call, expired, signalled, killed>>

(* do_wait_for_common up to its first unlock; a call that does not sleep   *)
(* returns at once.                                                        *)
wait_for_common(p, s, timed) ==
  /\ call[p] = None
  /\ \/ /\ done > 0 /\ done' = done - 1
        /\ Return(p)
        /\ UNCHANGED <<queue, state>>
     \/ /\ done = 0 /\ signal_pending_state(s, p)
        /\ Return(p)
        /\ UNCHANGED <<done, queue, state>>
     \/ /\ done = 0 /\ ~ signal_pending_state(s, p)
        /\ queue' = Append(queue, p)
        /\ state' = [state EXCEPT ![p] = s]
        /\ call' = [call EXCEPT ![p] = Inside("wait", s, timed)]
        /\ UNCHANGED <<done, expired, signalled, killed>>
  /\ UNCHANGED sleepers

(* The public variants: with and without a timeout, in each state.         *)
wait_for_completion(p) == wait_for_common(p, {"U"}, FALSE)
wait_for_completion_timeout(p) == wait_for_common(p, {"U"}, TRUE)
wait_for_completion_interruptible(p) == wait_for_common(p, {"I"}, FALSE)
wait_for_completion_interruptible_timeout(p) == wait_for_common(p, {"I"}, TRUE)
wait_for_completion_killable(p) == wait_for_common(p, {"U", "K"}, FALSE)
wait_for_completion_killable_timeout(p) == wait_for_common(p, {"U", "K"}, TRUE)

(* Back from schedule_timeout with the lock: take the completion, give up  *)
(* with no time left or a signal pending, or sleep again.                  *)
GivesUp(p) == p \in expired \/ signal_pending_state(call[p].state, p)

WaitResumes(p) ==
  /\ call[p].at = "wait" /\ state[p] = {}
  /\ \/ /\ done > 0 /\ done' = done - 1
        /\ queue' = Leave(p, queue) /\ Return(p)
        /\ UNCHANGED state
     \/ /\ done = 0 /\ GivesUp(p)
        /\ queue' = Leave(p, queue) /\ Return(p)
        /\ UNCHANGED <<done, state>>
     \/ /\ done = 0 /\ ~ GivesUp(p)
        /\ state' = [state EXCEPT ![p] = call[p].state]
        /\ UNCHANGED <<done, queue, call, expired, signalled, killed>>
  /\ UNCHANGED sleepers

try_wait_for_completion ==
  /\ done > 0 /\ done' = done - 1
  /\ UNCHANGED <<queue, sleepers, state, call, expired, signalled, killed>>

(* The value completion_done returns.                                      *)
completion_done == done # 0

-----------------------------------------------------------------------------
(* sleep_on_common: the state is set before the entry is queued.           *)
SleepOnBegins(p, s, timed) ==
  /\ call[p] = None
  /\ state' = [state EXCEPT ![p] = s]
  /\ call' = [call EXCEPT ![p] = Inside("begins", s, timed)]
  /\ UNCHANGED <<done, queue, sleepers, expired, signalled, killed>>

interruptible_sleep_on(p) == SleepOnBegins(p, {"I"}, FALSE)
interruptible_sleep_on_timeout(p) == SleepOnBegins(p, {"I"}, TRUE)
sleep_on(p) == SleepOnBegins(p, {"U"}, FALSE)
sleep_on_timeout(p) == SleepOnBegins(p, {"U"}, TRUE)

SleepOnQueues(p) ==
  /\ call[p].at = "begins"
  /\ sleepers' = <<p>> \o sleepers
  /\ call' = [call EXCEPT ![p].at = "sleep_on"]
  /\ UNCHANGED <<done, queue, state, expired, signalled, killed>>

(* Mutant: only a task that a wake-up found leaves the queue.              *)
SleepOnEndsQueued(p) ==
  /\ call[p].at = "sleep_on" /\ state[p] = {}
  /\ sleepers' = IF GivesUp(p) THEN sleepers ELSE Leave(p, sleepers)
  /\ Return(p)
  /\ UNCHANGED <<done, queue, state>>

SleepOnEnds(p) ==
  /\ call[p].at = "sleep_on" /\ state[p] = {}
  /\ sleepers' = Leave(p, sleepers)
  /\ Return(p)
  /\ UNCHANGED <<done, queue, state>>

(* __wake_up and __wake_up_sync_key on the sleepers' queue: no entry is    *)
(* exclusive, so none makes the scan stop, whatever nr is.                 *)
wake_up(mode) ==
  /\ Wake({p \in ToSet(sleepers) : CanWake(p, mode)})
  /\ UNCHANGED <<done, queue, sleepers, call, expired, signalled, killed>>

-----------------------------------------------------------------------------
(* External: the timer of schedule_timeout wakes its task whatever state   *)
(* it is in; a signal wakes a task whose state lets it.                    *)
TimerFires(p) ==
  /\ call[p].at \in {"wait", "sleep_on"} /\ call[p].timed /\ p \notin expired
  /\ expired' = expired \cup {p}
  /\ Wake({p})
  /\ UNCHANGED <<done, queue, sleepers, call, signalled, killed>>

Signal(p, fatal) ==
  /\ IF fatal THEN p \notin killed ELSE p \notin signalled
  /\ signalled' = signalled \cup {p}
  /\ killed' = IF fatal THEN killed \cup {p} ELSE killed
  /\ Wake({t \in {p} : CanWake(t, IF fatal THEN {"I", "K"} ELSE {"I"})})
  /\ UNCHANGED <<done, queue, sleepers, call, expired>>

Calls(p) ==
  \/ wait_for_completion(p) \/ wait_for_completion_timeout(p)
  \/ wait_for_completion_interruptible(p)
  \/ wait_for_completion_interruptible_timeout(p)
  \/ wait_for_completion_killable(p) \/ wait_for_completion_killable_timeout(p)
  \/ interruptible_sleep_on(p) \/ interruptible_sleep_on_timeout(p)
  \/ sleep_on(p) \/ sleep_on_timeout(p)

Resumes(p) == WaitResumes(p) \/ SleepOnQueues(p) \/ SleepOnEnds(p)

CNext ==
  \/ complete \/ complete_all \/ try_wait_for_completion
  \/ \E mode \in {{"I"}, TASK_NORMAL} : wake_up(mode)
  \/ \E p \in Tasks : \/ Calls(p) \/ Resumes(p) \/ TimerFires(p)
                      \/ Signal(p, TRUE) \/ Signal(p, FALSE)

CSpec == CInit /\ [][CNext]_cVars

-----------------------------------------------------------------------------
Waiting(q) == {q[i] : i \in 1..Len(q)}

(* While a queued task still sleeps, every completion not yet taken has    *)
(* woken a waiter of its own that is on its way to take it: neither a      *)
(* signal or timeout that wakes the chosen waiter first, nor a newcomer or *)
(* try_wait_for_completion that takes the completion under its nose, ever  *)
(* leaves a task asleep next to a completion.                              *)
NoLostCompletion ==
  (\E p \in Waiting(queue) : state[p] # {}) =>
    done <= Cardinality({p \in Waiting(queue) : state[p] = {}})

(* The entries are on the stacks of their tasks: the two queues hold, each *)
(* once, exactly the tasks inside the functions that queued them, however  *)
(* those are woken.                                                        *)
EntriesOnLiveStacks ==
  /\ Waiting(queue) = {p \in Tasks : call[p].at = "wait"}
  /\ Waiting(sleepers) = {p \in Tasks : call[p].at = "sleep_on"}
  /\ Len(queue) = Cardinality(Waiting(queue))
  /\ Len(sleepers) = Cardinality(Waiting(sleepers))
=============================================================================
