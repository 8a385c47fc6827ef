--------------------------- MODULE RunQueueProofs ---------------------------
(***************************************************************************)
(* For any finite sets of tasks, CPUs and run queues of sched.c: the run   *)
(* queues' counters tell the truth, a task that is awake is queued where   *)
(* it can run, and affinity is enforced but for the two paths that drop    *)
(* it; and below that, task_rq_lock ends with the right queue locked, and  *)
(* the ways the scheduler takes two locks never close a cycle of waiting   *)
(* CPUs.                                                                   *)
(***************************************************************************)
EXTENDS RunQueue, RqLocks, CountingProofs

-----------------------------------------------------------------------------
(***************************************************************************)
(* The locks (RqLocks).                                                    *)
(***************************************************************************)

Doings ==
  {Rest}
    \cup [at : {"check", "locked"}, task : LockTasks, src : Queues, dst : {0}]
    \cup [at : {"migrate", "yield"}, task : LockTasks, src : Queues, dst : Queues]
    \cup {d \in [at : {"balance", "pull"}, task : {"none"}, src : Queues, dst : Queues] :
            d.src # d.dst}

(* Nothing, one lock, or two in the order of their addresses. *)
Todos ==
  {<<>>} \cup {<<q>> : q \in Queues}
         \cup {t \in Queues \X Queues : t[1] < t[2]}

LockTypes ==
  /\ task_rq \in [LockTasks -> Queues]
  /\ owner \in [Queues -> LockCpus \cup {Nobody}]
  /\ todo \in [LockCpus -> Todos]
  /\ doing \in [LockCpus -> Doings]

(* The queues a CPU holds or is about to take. *)
Wants(d) ==
  IF d.at = "idle" THEN {}
  ELSE IF d.at \in {"check", "locked", "balance"} THEN {d.src}
  ELSE {d.src, d.dst}

Ahead(t) == {t[i] : i \in DOMAIN t}

(* What it wants and does not still have to take, it holds... *)
HoldsRest(c) == \A q \in Wants(doing[c]) \ Ahead(todo[c]) : Holds(c, q)

(* ... and it holds nothing else, and only what precedes all it has to take. *)
HoldsInOrder(c) ==
  \A q \in Queues : Holds(c, q) =>
    q \in Wants(doing[c]) /\ \A r \in Ahead(todo[c]) : q < r

TakesWhatItWants(c) == Ahead(todo[c]) \subseteq Wants(doing[c])

LockedIsRight(c) ==
  doing[c].at = "locked" => todo[c] = <<>> /\ task_rq[doing[c].task] = doing[c].src

CpuInv(c) == HoldsRest(c) /\ HoldsInOrder(c) /\ TakesWhatItWants(c) /\ LockedIsRight(c)

LockInv == LockTypes /\ \A c \in LockCpus : CpuInv(c)

-----------------------------------------------------------------------------
LEMMA QueuesAreNaturals == Queues \subseteq Nat /\ Nobody \notin LockCpus
BY LocksAssumption

LEMMA TodoShapes ==
  ASSUME NEW t \in Todos
  PROVE  /\ t = <<>> \/ (\E q \in Queues : t = <<q>>)
              \/ (\E q, r \in Queues : t = <<q, r>> /\ q < r)
         /\ Ahead(t) \subseteq Queues
         /\ t = <<>> <=> Ahead(t) = {}
<1>1. CASE t = <<>>
  BY <1>1 DEF Ahead
<1>2. CASE \E q \in Queues : t = <<q>>
  <2> PICK q \in Queues : t = <<q>> BY <1>2
  <2>1. DOMAIN t = {1} /\ t[1] = q OBVIOUS
  <2> QED BY <2>1 DEF Ahead
<1>3. CASE t \in {u \in Queues \X Queues : u[1] < u[2]}
  <2>1. PICK q \in Queues, r \in Queues : t = <<q, r>> /\ q < r BY <1>3
  <2>2. DOMAIN t = {1, 2} /\ t[1] = q /\ t[2] = r BY <2>1
  <2> QED BY <2>1, <2>2 DEF Ahead
<1> QED BY <1>1, <1>2, <1>3 DEF Todos

LEMMA AheadOf ==
  ASSUME NEW q \in Queues, NEW r \in Queues
  PROVE  Ahead(<<>>) = {} /\ Ahead(<<q>>) = {q} /\ Ahead(<<q, r>>) = {q, r}
<1>1. Ahead(<<>>) = {} BY DEF Ahead
<1>2. DOMAIN <<q>> = {1} /\ <<q>>[1] = q OBVIOUS
<1>3. DOMAIN <<q, r>> = {1, 2} /\ <<q, r>>[1] = q /\ <<q, r>>[2] = r OBVIOUS
<1> QED BY <1>1, <1>2, <1>3 DEF Ahead

LEMMA TodoTypes ==
  ASSUME NEW q \in Queues, NEW r \in Queues
  PROVE  /\ <<>> \in Todos /\ <<q>> \in Todos
         /\ q < r => <<q, r>> \in Todos
BY DEF Todos

(* The first lock to take precedes the rest, and taking it leaves the rest. *)
LEMMA TakeOne ==
  ASSUME NEW t \in Todos, t # <<>>
  PROVE  /\ Head(t) \in Queues /\ Head(t) \in Ahead(t)
         /\ Tail(t) \in Todos /\ Ahead(Tail(t)) = Ahead(t) \ {Head(t)}
         /\ \A r \in Ahead(Tail(t)) : Head(t) < r
<1>1. CASE \E q \in Queues : t = <<q>>
  <2> PICK q \in Queues : t = <<q>> BY <1>1
  <2>1. Head(t) = q /\ Tail(t) = <<>> OBVIOUS
  <2> QED BY <2>1, AheadOf, TodoTypes
<1>2. CASE \E q, r \in Queues : t = <<q, r>> /\ q < r
  <2> PICK q \in Queues, r \in Queues : t = <<q, r>> /\ q < r BY <1>2
  <2>1. Head(t) = q /\ Tail(t) = <<r>> OBVIOUS
  <2>2. q # r BY QueuesAreNaturals
  <2>3. Ahead(t) = {q, r} BY AheadOf
  <2>4. Ahead(<<r>>) = {r} /\ <<r>> \in Todos BY AheadOf, TodoTypes
  <2> QED BY <2>1, <2>2, <2>3, <2>4
<1> QED BY <1>1, <1>2, TodoShapes

(* double_rq_lock takes both queues, in the order of their addresses. *)
LEMMA BothInOrder ==
  ASSUME NEW q \in Queues, NEW r \in Queues
  PROVE  double_rq_lock(q, r) \in Todos /\ Ahead(double_rq_lock(q, r)) = {q, r}
<1>1. CASE q = r BY <1>1, AheadOf, TodoTypes DEF double_rq_lock
<1>2. CASE q < r
  <2>1. double_rq_lock(q, r) = <<q, r>>
    BY <1>2, QueuesAreNaturals DEF double_rq_lock
  <2> QED BY <1>2, <2>1, AheadOf, TodoTypes
<1>3. CASE r < q
  <2>1. double_rq_lock(q, r) = <<r, q>>
    BY <1>3, QueuesAreNaturals DEF double_rq_lock
  <2>2. Ahead(<<r, q>>) = {r, q} BY AheadOf
  <2>3. <<r, q>> \in Todos BY <1>3, TodoTypes
  <2> QED BY <2>1, <2>2, <2>3
<1> QED BY <1>1, <1>2, <1>3, QueuesAreNaturals

LEMMA DoTypes ==
  ASSUME NEW p \in LockTasks, NEW q \in Queues, NEW r \in Queues
  PROVE  /\ \A at \in {"check", "locked"} : Do(at, p, q, 0) \in Doings
         /\ \A at \in {"migrate", "yield"} : Do(at, p, q, r) \in Doings
BY DEF Do, Doings

(* What the place a CPU is at says of what it is doing. *)
LEMMA PlaceTypes ==
  ASSUME NEW d \in Doings
  PROVE  /\ d.at # "idle" => d.src \in Queues
         /\ d.at = "idle" <=> d = Rest
         /\ d.at \in {"check", "locked"} => d.task \in LockTasks /\ d.dst = 0
         /\ d.at \in {"migrate", "yield"} => d.task \in LockTasks /\ d.dst \in Queues
         /\ d.at \in {"balance", "pull"} =>
              d.task = "none" /\ d.dst \in Queues /\ d.src # d.dst
         /\ d = Do(d.at, d.task, d.src, d.dst)
         /\ Wants(d) \subseteq Queues
<1>1. CASE d = Rest BY <1>1 DEF Rest, Do, Wants
<1>2. CASE d \in [at : {"check", "locked"}, task : LockTasks, src : Queues, dst : {0}]
  BY <1>2 DEF Rest, Do, Wants
<1>3. CASE d \in [at : {"migrate", "yield"}, task : LockTasks, src : Queues, dst : Queues]
  BY <1>3 DEF Rest, Do, Wants
<1>4. CASE d \in {e \in [at : {"balance", "pull"}, task : {"none"}, src : Queues, dst : Queues] :
                    e.src # e.dst}
  BY <1>4 DEF Rest, Do, Wants
<1> QED BY <1>1, <1>2, <1>3, <1>4 DEF Doings

-----------------------------------------------------------------------------
(* A step of CPU c changes its own todo and doing, takes free locks or     *)
(* releases its own, and moves only tasks of queues it has locked.         *)
StepOf(c, t, e) ==
  /\ todo' = [todo EXCEPT ![c] = t]
  /\ doing' = [doing EXCEPT ![c] = e]
  /\ owner' \in [Queues -> LockCpus \cup {Nobody}]
  /\ task_rq' \in [LockTasks -> Queues]
  /\ \A q \in Queues : owner'[q] # owner[q] =>
       owner[q] \in {c, Nobody} /\ owner'[q] \in {c, Nobody}
  /\ \A p \in LockTasks : task_rq'[p] # task_rq[p] => Holds(c, task_rq[p])

(* Such a step leaves what the other CPUs rely on: a task whose queue one  *)
(* of them has locked is not moved.                                        *)
LEMMA OthersKeep ==
  ASSUME LockInv, NEW c \in LockCpus, NEW t \in Todos, NEW e \in Doings,
         StepOf(c, t, e), NEW d \in LockCpus, d # c
  PROVE  CpuInv(d)'
<1>1. doing'[d] = doing[d] /\ todo'[d] = todo[d]
  BY DEF LockInv, LockTypes, StepOf
<1>2. \A q \in Queues : Holds(d, q)' <=> Holds(d, q)
  BY QueuesAreNaturals DEF LockInv, LockTypes, StepOf, Holds
<1>3. CpuInv(d) /\ doing[d] \in Doings /\ todo[d] \in Todos
  BY DEF LockInv, LockTypes
<1>4. Wants(doing[d]) \subseteq Queues /\ Ahead(todo[d]) \subseteq Queues
  BY <1>3, PlaceTypes, TodoShapes
<1>5. HoldsRest(d)'
  BY <1>1, <1>2, <1>3, <1>4 DEF CpuInv, HoldsRest
<1>6. HoldsInOrder(d)'
  BY <1>1, <1>2, <1>3 DEF CpuInv, HoldsInOrder
<1>7. TakesWhatItWants(d)'
  BY <1>1, <1>3 DEF CpuInv, TakesWhatItWants
<1>8. LockedIsRight(d)'
  <2> SUFFICES ASSUME doing[d].at = "locked"
               PROVE  todo[d] = <<>> /\ task_rq'[doing[d].task] = doing[d].src
    BY <1>1 DEF LockedIsRight
  <2> DEFINE p == doing[d].task
  <2>1. todo[d] = <<>> /\ task_rq[p] = doing[d].src
    BY <1>3 DEF CpuInv, LockedIsRight
  <2>2. p \in LockTasks /\ doing[d].src \in Queues
    BY <1>3, PlaceTypes
  <2>3. Holds(d, doing[d].src)
    <3>1. doing[d].src \in Wants(doing[d]) BY DEF Wants
    <3>2. Ahead(todo[d]) = {} BY <2>1, <2>2, AheadOf
    <3> QED BY <1>3, <3>1, <3>2 DEF CpuInv, HoldsRest
  <2>4. ~ Holds(c, task_rq[p])
    BY <2>1, <2>3 DEF Holds
  <2> QED BY <2>1, <2>2, <2>4 DEF StepOf
<1> QED BY <1>5, <1>6, <1>7, <1>8 DEF CpuInv

LEMMA StepKeeps ==
  ASSUME LockInv, NEW c \in LockCpus, NEW t \in Todos, NEW e \in Doings,
         StepOf(c, t, e), CpuInv(c)'
  PROVE  LockInv'
<1>1. LockTypes'
  BY DEF LockInv, LockTypes, StepOf
<1>2. \A d \in LockCpus : CpuInv(d)'
  BY OthersKeep
<1> QED BY <1>1, <1>2 DEF LockInv

(* A CPU that waits for no lock holds exactly what it wants. *)
LEMMA HoldsWants ==
  ASSUME LockInv, NEW c \in LockCpus, todo[c] = <<>>
  PROVE  \A q \in Queues : Holds(c, q) <=> q \in Wants(doing[c])
<1>1. Ahead(todo[c]) = {} BY DEF Ahead
<1> QED BY <1>1 DEF LockInv, CpuInv, HoldsRest, HoldsInOrder

(* A CPU that holds nothing and sets out for all it wants keeps the        *)
(* invariant, whether it was idle or let its locks go in this step.        *)
LEMMA StartAfresh ==
  ASSUME LockInv, NEW c \in LockCpus, NEW t \in Todos, NEW e \in Doings,
         todo[c] = <<>>, owner' = Releasing(c, Wants(doing[c])),
         todo' = [todo EXCEPT ![c] = t], doing' = [doing EXCEPT ![c] = e],
         Ahead(t) = Wants(e), e.at # "locked",
         task_rq' \in [LockTasks -> Queues],
         \A p \in LockTasks : task_rq'[p] # task_rq[p] => Holds(c, task_rq[p])
  PROVE  LockInv'
<1>1. owner' \in [Queues -> LockCpus \cup {Nobody}]
  BY DEF LockInv, LockTypes, Releasing
<1>2. \A q \in Queues : owner'[q] # owner[q] => owner[q] = c /\ owner'[q] = Nobody
  BY HoldsWants DEF Releasing, Holds
<1>3. \A q \in Queues : ~ Holds(c, q)'
  BY HoldsWants, QueuesAreNaturals DEF Releasing, Holds
<1>4. StepOf(c, t, e)
  BY <1>1, <1>2 DEF StepOf
<1>5. todo'[c] = t /\ doing'[c] = e
  BY DEF LockInv, LockTypes
<1>6. CpuInv(c)'
  BY <1>3, <1>5 DEF CpuInv, HoldsRest, HoldsInOrder, TakesWhatItWants, LockedIsRight
<1> QED BY <1>4, <1>6, StepKeeps

(* An idle CPU has no lock and waits for none. *)
LEMMA IdleIsFree ==
  ASSUME LockInv, NEW c \in LockCpus, doing[c] = Rest
  PROVE  todo[c] = <<>> /\ owner = Releasing(c, Wants(doing[c]))
<1>1. Wants(doing[c]) = {} BY DEF Rest, Do, Wants
<1>2. todo[c] = <<>>
  BY <1>1, TodoShapes DEF LockInv, LockTypes, CpuInv, TakesWhatItWants
<1>3. owner = Releasing(c, {})
  BY DEF LockInv, LockTypes, Releasing
<1> QED BY <1>1, <1>2, <1>3

-----------------------------------------------------------------------------
LEMMA RestWantsNothing == Rest \in Doings /\ Wants(Rest) = {} /\ <<>> \in Todos /\ Ahead(<<>>) = {}
BY DEF Rest, Do, Doings, Wants, Todos, Ahead

LEMMA UnchangedTodo ==
  ASSUME LockInv, NEW c \in LockCpus, todo[c] = <<>>, UNCHANGED todo
  PROVE  todo' = [todo EXCEPT ![c] = <<>>]
BY DEF LockInv, LockTypes

LEMMA Places ==
  ASSUME LockInv, NEW c \in LockCpus
  PROVE  /\ doing[c] \in Doings /\ todo[c] \in Todos /\ CpuInv(c)
         /\ task_rq \in [LockTasks -> Queues]
BY DEF LockInv, LockTypes

LEMMA Init_LockInv == LocksInit => LockInv
<1> SUFFICES ASSUME LocksInit PROVE LockInv OBVIOUS
<1>1. LockTypes
  BY RestWantsNothing DEF LocksInit, LockTypes
<1>2. ASSUME NEW c \in LockCpus PROVE CpuInv(c)
  <2>1. todo[c] = <<>> /\ doing[c] = Rest /\ \A q \in Queues : ~ Holds(c, q)
    BY <1>2, QueuesAreNaturals DEF LocksInit, Holds
  <2>2. Rest.at # "locked" BY DEF Rest, Do
  <2> QED BY <2>1, <2>2, RestWantsNothing
       DEF CpuInv, HoldsRest, HoldsInOrder, TakesWhatItWants, LockedIsRight
<1> QED BY <1>1, <1>2 DEF LockInv

LEMMA TakeLockStep ==
  ASSUME LockInv, NEW c \in LockCpus, TakeLock(c)
  PROVE  LockInv'
<1> DEFINE q == Head(todo[c])
           t == Tail(todo[c])
<1>1. /\ q \in Queues /\ q \in Ahead(todo[c]) /\ t \in Todos
      /\ Ahead(t) = Ahead(todo[c]) \ {q} /\ \A r \in Ahead(t) : q < r
  BY Places, TakeOne DEF TakeLock
<1>2. owner' \in [Queues -> LockCpus \cup {Nobody}]
  BY DEF TakeLock, LockInv, LockTypes
<1>3. /\ todo' = [todo EXCEPT ![c] = t]
      /\ doing' = [doing EXCEPT ![c] = doing[c]]
      /\ task_rq' = task_rq
  BY DEF TakeLock, LockInv, LockTypes
<1>4. owner[q] = Nobody /\ owner' = [owner EXCEPT ![q] = c]
  BY DEF TakeLock
<1>5. StepOf(c, t, doing[c])
  BY <1>1, <1>2, <1>3, <1>4, Places DEF StepOf, LockInv, LockTypes
<1>6. todo'[c] = t /\ doing'[c] = doing[c]
  BY <1>3 DEF LockInv, LockTypes
<1>7. \A r \in Queues : Holds(c, r)' <=> Holds(c, r) \/ r = q
  BY <1>1, <1>4 DEF LockInv, LockTypes, Holds
<1>8. Ahead(todo[c]) \subseteq Wants(doing[c]) /\ Wants(doing[c]) \subseteq Queues
  BY Places, PlaceTypes DEF CpuInv, TakesWhatItWants
<1>9. HoldsRest(c)'
  BY <1>1, <1>6, <1>7, <1>8, Places DEF CpuInv, HoldsRest
<1>10. HoldsInOrder(c)'
  BY <1>1, <1>6, <1>7, <1>8, Places DEF CpuInv, HoldsInOrder
<1>11. TakesWhatItWants(c)'
  BY <1>1, <1>6, <1>8 DEF TakesWhatItWants
<1>12. LockedIsRight(c)'
  <2>1. doing[c].at # "locked" BY Places DEF TakeLock, CpuInv, LockedIsRight
  <2> QED BY <1>6, <2>1 DEF LockedIsRight
<1>13. CpuInv(c)' BY <1>9, <1>10, <1>11, <1>12 DEF CpuInv
<1> QED BY <1>1, <1>5, <1>13, Places, StepKeeps

LEMMA LookupStep ==
  ASSUME LockInv, NEW c \in LockCpus, NEW p \in LockTasks, task_rq_lock(c, p)
  PROVE  LockInv'
<1> DEFINE q == task_rq[p]
           e == Do("check", p, q, 0)
<1>1. q \in Queues BY Places
<1>2. e \in Doings BY <1>1, DoTypes
<1>3. <<q>> \in Todos /\ Ahead(<<q>>) = Wants(e) /\ e.at # "locked"
  BY <1>1, AheadOf, TodoTypes DEF Do, Wants
<1>4. todo[c] = <<>> /\ owner' = Releasing(c, Wants(doing[c]))
  BY IdleIsFree DEF task_rq_lock
<1> QED BY <1>2, <1>3, <1>4, StartAfresh, Places DEF task_rq_lock

LEMMA CheckQueueStep ==
  ASSUME LockInv, NEW c \in LockCpus, CheckQueue(c)
  PROVE  LockInv'
<1> DEFINE d == doing[c]
           now == task_rq[d.task]
<1>1. d.at = "check" /\ todo[c] = <<>> BY DEF CheckQueue, Ready
<1>2. d \in Doings /\ d.src \in Queues /\ d.task \in LockTasks /\ d.dst = 0
      /\ now \in Queues /\ d = Do("check", d.task, d.src, 0)
  BY <1>1, Places, PlaceTypes
<1>3. Wants(d) = {d.src} BY <1>1 DEF Wants
<1>4. CASE now = d.src
  <2> DEFINE e == Do("locked", d.task, d.src, 0)
  <2>1. e \in Doings BY <1>2, DoTypes
  <2>2. doing' = [doing EXCEPT ![c] = e] /\ UNCHANGED <<owner, todo, task_rq>>
    <3>1. [d EXCEPT !.at = "locked"] = e BY <1>2 DEF Do
    <3>2. doing' = [doing EXCEPT ![c].at = "locked"] /\ UNCHANGED <<owner, todo, task_rq>>
      BY <1>4 DEF CheckQueue
    <3> QED BY <3>1, <3>2 DEF LockInv, LockTypes
  <2>3. StepOf(c, <<>>, e)
    BY <1>1, <2>2, UnchangedTodo DEF StepOf, LockInv, LockTypes
  <2>4. doing'[c] = e /\ todo'[c] = <<>> /\ Ahead(<<>>) = {}
    BY <1>1, <2>2, RestWantsNothing DEF LockInv, LockTypes
  <2>5. Wants(e) = {d.src} /\ e.task = d.task /\ e.src = d.src BY DEF Do, Wants
  <2>6. \A q \in Queues : Holds(c, q)' <=> q = d.src
    BY <1>1, <1>2, <1>3, <2>2, HoldsWants DEF Holds
  <2>7. CpuInv(c)'
    BY <1>2, <1>4, <2>2, <2>4, <2>5, <2>6
    DEF CpuInv, HoldsRest, HoldsInOrder, TakesWhatItWants, LockedIsRight
  <2> QED BY <2>1, <2>3, <2>7, RestWantsNothing, StepKeeps
<1>5. CASE now # d.src
  <2> DEFINE e == Do("check", d.task, now, 0)
  <2>1. e \in Doings BY <1>2, DoTypes
  <2>2. doing' = [doing EXCEPT ![c] = e]
    <3>1. [d EXCEPT !.src = now] = e BY <1>2 DEF Do
    <3>2. doing' = [doing EXCEPT ![c].src = now] BY <1>5 DEF CheckQueue
    <3> QED BY <3>1, <3>2 DEF LockInv, LockTypes
  <2>3. <<now>> \in Todos /\ Ahead(<<now>>) = Wants(e) /\ e.at # "locked"
    BY <1>2, AheadOf, TodoTypes DEF Do, Wants
  <2>4. /\ owner' = Releasing(c, Wants(doing[c])) /\ task_rq' = task_rq
        /\ todo' = [todo EXCEPT ![c] = <<now>>]
    BY <1>3, <1>5 DEF CheckQueue
  <2> QED BY <1>1, <2>1, <2>2, <2>3, <2>4, StartAfresh, Places
<1> QED BY <1>4, <1>5

-----------------------------------------------------------------------------
(* Going back to idle, having moved only tasks of locked queues. *)
LEMMA BackToRest ==
  ASSUME LockInv, NEW c \in LockCpus, todo[c] = <<>>, UNCHANGED todo,
         owner' = Releasing(c, Wants(doing[c])),
         doing' = [doing EXCEPT ![c] = Rest],
         NEW p \in LockTasks, NEW q \in Queues,
         task_rq' = task_rq \/ (/\ task_rq' = [task_rq EXCEPT ![p] = q]
                                /\ task_rq[p] \in Wants(doing[c]))
  PROVE  LockInv'
<1>1. Rest.at # "locked" BY DEF Rest, Do
<1>2. task_rq' \in [LockTasks -> Queues] BY Places
<1>3. \A x \in LockTasks : task_rq'[x] # task_rq[x] => Holds(c, task_rq[x])
  BY Places, HoldsWants
<1> QED BY <1>1, <1>2, <1>3, RestWantsNothing, UnchangedTodo, StartAfresh

LEMMA UnlockStep ==
  ASSUME LockInv, NEW c \in LockCpus, NEW q \in Queues, task_rq_unlock(c, q)
  PROVE  LockInv'
<1>1. /\ doing[c].task \in LockTasks /\ Wants(doing[c]) = {doing[c].src}
      /\ todo[c] = <<>> /\ task_rq[doing[c].task] = doing[c].src
  BY Places, PlaceTypes DEF task_rq_unlock, Ready, Wants, CpuInv, LockedIsRight
<1> QED BY <1>1, BackToRest DEF task_rq_unlock

LEMMA MigrateStartStep ==
  ASSUME LockInv, NEW c \in LockCpus, NEW p \in LockTasks,
         NEW src \in Queues, NEW dst \in Queues, migrate(c, p, src, dst)
  PROVE  LockInv'
<1> DEFINE e == Do("migrate", p, src, dst)
           t == double_rq_lock(src, dst)
<1>1. e \in Doings /\ t \in Todos BY DoTypes, BothInOrder
<1>2. Ahead(t) = Wants(e) /\ e.at # "locked" BY BothInOrder DEF Do, Wants
<1>3. todo[c] = <<>> /\ owner' = Releasing(c, Wants(doing[c])) /\ task_rq' = task_rq
  BY IdleIsFree DEF migrate
<1>4. todo' = [todo EXCEPT ![c] = t] /\ doing' = [doing EXCEPT ![c] = e]
  BY DEF migrate
<1> HIDE DEF e, t
<1> QED BY <1>1, <1>2, <1>3, <1>4, Places, StartAfresh

LEMMA MigrateStep ==
  ASSUME LockInv, NEW c \in LockCpus, Migrate(c)
  PROVE  LockInv'
<1> DEFINE d == doing[c]
<1>1. /\ d.task \in LockTasks /\ d.dst \in Queues
      /\ Wants(d) = {d.src, d.dst} /\ todo[c] = <<>>
  BY Places, PlaceTypes DEF Migrate, Ready, Wants
<1>2. \/ task_rq' = task_rq
      \/ task_rq' = [task_rq EXCEPT ![d.task] = d.dst] /\ task_rq[d.task] \in Wants(d)
  BY <1>1 DEF Migrate
<1> QED BY <1>1, <1>2, BackToRest DEF Migrate

LEMMA YieldStartStep ==
  ASSUME LockInv, NEW c \in LockCpus, NEW p \in LockTasks,
         NEW own \in Queues, yield_to(c, p, own)
  PROVE  LockInv'
<1> DEFINE q == task_rq[p]
           e == Do("yield", p, own, q)
           t == double_rq_lock(own, q)
<1>1. q \in Queues BY Places
<1>2. e \in Doings /\ t \in Todos BY <1>1, DoTypes, BothInOrder
<1>3. Ahead(t) = Wants(e) /\ e.at # "locked" BY <1>1, BothInOrder DEF Do, Wants
<1>4. todo[c] = <<>> /\ owner' = Releasing(c, Wants(doing[c])) /\ task_rq' = task_rq
  BY IdleIsFree DEF yield_to
<1>5. todo' = [todo EXCEPT ![c] = t] /\ doing' = [doing EXCEPT ![c] = e]
  BY DEF yield_to
<1> HIDE DEF e, t
<1> QED BY <1>2, <1>3, <1>4, <1>5, Places, StartAfresh

LEMMA YieldToStep ==
  ASSUME LockInv, NEW c \in LockCpus, YieldTo(c)
  PROVE  LockInv'
<1> DEFINE d == doing[c]
           now == task_rq[d.task]
<1>1. d.at = "yield" /\ todo[c] = <<>> BY DEF YieldTo, Ready
<1>2. /\ d.task \in LockTasks /\ d.src \in Queues /\ now \in Queues
      /\ Wants(d) = {d.src, d.dst} /\ d = Do("yield", d.task, d.src, d.dst)
  BY <1>1, Places, PlaceTypes DEF Wants
<1>3. owner' = Releasing(c, Wants(d)) /\ task_rq' = task_rq
  BY <1>2 DEF YieldTo
<1>4. CASE now = d.dst
  BY <1>1, <1>2, <1>3, <1>4, BackToRest DEF YieldTo
<1>5. CASE now # d.dst
  <2> DEFINE e == Do("yield", d.task, d.src, now)
             t == double_rq_lock(d.src, now)
  <2>1. doing' = [doing EXCEPT ![c] = e]
    <3>1. [d EXCEPT !.dst = now] = e BY <1>2 DEF Do
    <3>2. doing' = [doing EXCEPT ![c].dst = now] BY <1>5 DEF YieldTo
    <3> QED BY <3>1, <3>2 DEF LockInv, LockTypes
  <2>2. todo' = [todo EXCEPT ![c] = t] BY <1>5 DEF YieldTo
  <2>3. e \in Doings /\ t \in Todos BY <1>2, DoTypes, BothInOrder
  <2>4. Ahead(t) = Wants(e) /\ e.at # "locked" BY <1>2, BothInOrder DEF Do, Wants
  <2> HIDE DEF e, t
  <2> QED BY <1>1, <1>3, <2>1, <2>2, <2>3, <2>4, Places, StartAfresh
<1> QED BY <1>4, <1>5

-----------------------------------------------------------------------------
LEMMA BalanceTypes ==
  ASSUME NEW own \in Queues, NEW busiest \in Queues, own # busiest
  PROVE  \A at \in {"balance", "pull"} : Do(at, "none", own, busiest) \in Doings
BY DEF Do, Doings

LEMMA BalanceStartStep ==
  ASSUME LockInv, NEW c \in LockCpus, NEW own \in Queues, NEW busiest \in Queues,
         this_rq_lock(c, own, busiest)
  PROVE  LockInv'
<1> DEFINE e == Do("balance", "none", own, busiest)
<1>1. e \in Doings BY BalanceTypes DEF this_rq_lock
<1>2. <<own>> \in Todos /\ Ahead(<<own>>) = Wants(e) /\ e.at # "locked"
  BY AheadOf, TodoTypes DEF Do, Wants
<1>3. todo[c] = <<>> /\ owner' = Releasing(c, Wants(doing[c])) /\ task_rq' = task_rq
  BY IdleIsFree DEF this_rq_lock
<1>4. todo' = [todo EXCEPT ![c] = <<own>>] /\ doing' = [doing EXCEPT ![c] = e]
  BY DEF this_rq_lock
<1> HIDE DEF e
<1> QED BY <1>1, <1>2, <1>3, <1>4, Places, StartAfresh

(* The unfair variant keeps its own lock only while it waits for one that  *)
(* comes later in the order.                                               *)
LEMMA DoubleLockStep ==
  ASSUME LockInv, NEW c \in LockCpus, double_lock_balance(c)
  PROVE  LockInv'
<1> DEFINE d == doing[c]
           own == d.src
           busiest == d.dst
           e == Do("pull", "none", own, busiest)
<1>1. d.at = "balance" /\ todo[c] = <<>> BY DEF double_lock_balance, Ready
<1>2. /\ own \in Queues /\ busiest \in Queues /\ own # busiest
      /\ d = Do("balance", "none", own, busiest) /\ Wants(d) = {own}
  BY <1>1, Places, PlaceTypes DEF Wants
<1>3. e \in Doings /\ Wants(e) = {own, busiest} /\ e.at = "pull"
  BY <1>2, BalanceTypes DEF Do, Wants
<1>4. doing' = [doing EXCEPT ![c] = e] /\ UNCHANGED task_rq
  <2>1. [d EXCEPT !.at = "pull"] = e BY <1>2 DEF Do
  <2>2. doing' = [doing EXCEPT ![c].at = "pull"] /\ UNCHANGED task_rq
    BY DEF double_lock_balance
  <2> QED BY <2>1, <2>2 DEF LockInv, LockTypes
<1>5. \A q \in Queues : Holds(c, q) <=> q = own BY <1>1, <1>2, HoldsWants
<1>6. CASE /\ owner' = Releasing(c, {own})
           /\ \E t \in Todos : Ahead(t) = {own, busiest} /\ todo' = [todo EXCEPT ![c] = t]
  <2> HIDE DEF e
  <2> QED BY <1>1, <1>2, <1>3, <1>4, <1>6, Places, StartAfresh
<1>7. CASE fair
  <2>1. owner' = Releasing(c, {own})
        /\ todo' = [todo EXCEPT ![c] = double_rq_lock(own, busiest)]
    BY <1>7 DEF double_lock_balance
  <2> QED BY <1>2, <1>6, <2>1, BothInOrder
<1>8. CASE ~ fair /\ owner[busiest] = Nobody
  <2>1. owner' = [owner EXCEPT ![busiest] = c] /\ UNCHANGED todo
    BY <1>8 DEF double_lock_balance
  <2>2. StepOf(c, <<>>, e)
    BY <1>1, <1>2, <1>4, <1>8, <2>1, UnchangedTodo DEF StepOf, LockInv, LockTypes
  <2>3. doing'[c] = e /\ todo'[c] = <<>>
    BY <1>1, <1>4, <2>1 DEF LockInv, LockTypes
  <2>4. \A q \in Queues : Holds(c, q)' <=> q \in {own, busiest}
    BY <1>2, <1>5, <2>1 DEF LockInv, LockTypes, Holds
  <2>5. CpuInv(c)'
    BY <1>2, <1>3, <2>3, <2>4, RestWantsNothing
    DEF CpuInv, HoldsRest, HoldsInOrder, TakesWhatItWants, LockedIsRight
  <2> HIDE DEF e
  <2> QED BY <1>3, <2>2, <2>5, RestWantsNothing, StepKeeps
<1>9. CASE ~ fair /\ owner[busiest] # Nobody /\ busiest < own
  <2>1. owner' = Releasing(c, {own}) /\ todo' = [todo EXCEPT ![c] = <<busiest, own>>]
    BY <1>9 DEF double_lock_balance
  <2>2. <<busiest, own>> \in Todos
    BY <1>2, <1>9, TodoTypes
  <2>3. Ahead(<<busiest, own>>) = {own, busiest}
    <3>1. own \in Queues /\ busiest \in Queues BY <1>2
    <3> HIDE DEF own, busiest
    <3>2. Ahead(<<busiest, own>>) = {busiest, own} BY <3>1, AheadOf
    <3> QED BY <3>2
  <2> QED BY <1>6, <2>1, <2>2, <2>3
<1>10. CASE ~ fair /\ owner[busiest] # Nobody /\ ~ busiest < own
  <2>1. UNCHANGED owner /\ todo' = [todo EXCEPT ![c] = <<busiest>>]
    BY <1>10 DEF double_lock_balance
  <2>2. own < busiest
    <3>1. own \in Nat /\ busiest \in Nat BY <1>2, QueuesAreNaturals
    <3> HIDE DEF own, busiest
    <3> QED BY <1>2, <1>10, <3>1
  <2>3. <<busiest>> \in Todos /\ Ahead(<<busiest>>) = {busiest}
    BY <1>2, AheadOf, TodoTypes
  <2>4. StepOf(c, <<busiest>>, e)
    BY <1>4, <2>1 DEF StepOf, LockInv, LockTypes
  <2>5. doing'[c] = e /\ todo'[c] = <<busiest>>
    BY <1>4, <2>1 DEF LockInv, LockTypes
  <2>6. \A q \in Queues : Holds(c, q)' <=> q = own
    BY <1>5, <2>1 DEF Holds
  <2>7. CpuInv(c)'
    BY <1>2, <1>3, <2>2, <2>3, <2>5, <2>6
    DEF CpuInv, HoldsRest, HoldsInOrder, TakesWhatItWants, LockedIsRight
  <2> HIDE DEF e
  <2> QED BY <1>3, <2>3, <2>4, <2>7, StepKeeps
<1> QED BY <1>7, <1>8, <1>9, <1>10

LEMMA PullStep ==
  ASSUME LockInv, NEW c \in LockCpus, Pull(c)
  PROVE  LockInv'
<1> DEFINE d == doing[c]
<1>1. /\ d.src \in Queues /\ d.dst \in Queues
      /\ Wants(d) = {d.src, d.dst} /\ todo[c] = <<>>
  BY Places, PlaceTypes DEF Pull, Ready, Wants
<1>2. PICK p \in LockTasks :
        task_rq' = IF task_rq[p] = d.dst THEN [task_rq EXCEPT ![p] = d.src] ELSE task_rq
  BY DEF Pull
<1> QED BY <1>1, <1>2, BackToRest DEF Pull

LEMMA Next_LockInv == LockInv /\ [LocksNext]_lockVars => LockInv'
<1> SUFFICES ASSUME LockInv, [LocksNext]_lockVars PROVE LockInv' OBVIOUS
<1>1. CASE UNCHANGED lockVars
  BY <1>1 DEF lockVars, LockInv, LockTypes, CpuInv, HoldsRest, HoldsInOrder,
              TakesWhatItWants, LockedIsRight, Holds
<1>2. ASSUME NEW c \in LockCpus, TakeLock(c) PROVE LockInv' BY <1>2, TakeLockStep
<1>3. ASSUME NEW c \in LockCpus, CheckQueue(c) PROVE LockInv' BY <1>3, CheckQueueStep
<1>4. ASSUME NEW c \in LockCpus, Migrate(c) PROVE LockInv' BY <1>4, MigrateStep
<1>5. ASSUME NEW c \in LockCpus, YieldTo(c) PROVE LockInv' BY <1>5, YieldToStep
<1>6. ASSUME NEW c \in LockCpus, double_lock_balance(c) PROVE LockInv'
  BY <1>6, DoubleLockStep
<1>7. ASSUME NEW c \in LockCpus, Pull(c) PROVE LockInv' BY <1>7, PullStep
<1>8. ASSUME NEW c \in LockCpus, NEW q \in Queues, task_rq_unlock(c, q) PROVE LockInv'
  BY <1>8, UnlockStep
<1>9. ASSUME NEW c \in LockCpus, NEW p \in LockTasks, task_rq_lock(c, p) PROVE LockInv'
  BY <1>9, LookupStep
<1>10. ASSUME NEW c \in LockCpus, NEW p \in LockTasks, NEW own \in Queues, yield_to(c, p, own)
       PROVE  LockInv'
  BY <1>10, YieldStartStep
<1>11. ASSUME NEW c \in LockCpus, NEW q \in Queues, NEW r \in Queues, this_rq_lock(c, q, r)
       PROVE  LockInv'
  BY <1>11, BalanceStartStep
<1>12. ASSUME NEW c \in LockCpus, NEW p \in LockTasks, NEW q \in Queues, NEW r \in Queues,
              migrate(c, p, q, r)
       PROVE  LockInv'
  BY <1>12, MigrateStartStep
<1> QED BY <1>1, <1>2, <1>3, <1>4, <1>5, <1>6, <1>7, <1>8, <1>9, <1>10, <1>11, <1>12
        DEF LocksNext

LEMMA LockInvAlways == LocksSpec => []LockInv
BY Init_LockInv, Next_LockInv, PTL DEF LocksSpec

-----------------------------------------------------------------------------
LEMMA LockInvRight == LockInv => RightQueueLocked
<1> SUFFICES ASSUME LockInv, NEW c \in LockCpus, doing[c].at = "locked"
             PROVE  Holds(c, doing[c].src) /\ task_rq[doing[c].task] = doing[c].src
  BY DEF RightQueueLocked
<1>1. todo[c] = <<>> /\ task_rq[doing[c].task] = doing[c].src
  BY Places DEF CpuInv, LockedIsRight
<1>2. doing[c].src \in Queues /\ doing[c].src \in Wants(doing[c])
  BY Places, PlaceTypes DEF Wants
<1> QED BY <1>1, <1>2, HoldsWants

(* task_rq_lock returns with the lock of the queue the task is on, however *)
(* many CPUs move tasks meanwhile (sched.c: __task_rq_lock, task_rq_lock). *)
THEOREM RightLock == LocksSpec => []RightQueueLocked
BY LockInvAlways, LockInvRight, PTL

(* A non-empty finite set of numbers has a largest member: the member with *)
(* the fewest members above it, by the well-foundedness of strict          *)
(* inclusion of finite sets.                                               *)
LEMMA Largest ==
  ASSUME NEW W, W \subseteq Nat, IsFiniteSet(W), W # {}
  PROVE  \E x \in W : \A y \in W : ~ (x < y)
<1> DEFINE Above(x) == {y \in W : x < y}
           T == {Above(x) : x \in W}
           R == StrictSubsetOrdering(W)
<1>1. T \subseteq FiniteSubsetsOf(W) /\ T # {}
  <2>1. ASSUME NEW x \in W PROVE Above(x) \subseteq W /\ IsFiniteSet(Above(x))
    <3>1. Above(x) \subseteq W OBVIOUS
    <3> HIDE DEF Above
    <3> QED BY <3>1, FS_Subset
  <2> HIDE DEF Above
  <2> QED BY <2>1 DEF FiniteSubsetsOf
<1>2. IsWellFoundedOn(R, FiniteSubsetsOf(W))
  BY FS_StrictSubsetOrderingWellFounded
<1>3. PICK A \in T : \A B \in T : ~ (<<B, A>> \in R)
  <2> HIDE DEF T, R
  <2> QED BY <1>1, <1>2, WFMin
<1>4. PICK x \in W : A = Above(x) OBVIOUS
<1>5. ASSUME NEW y \in W, x < y PROVE FALSE
  <2>1. Above(y) \subseteq Above(x)
    <3> SUFFICES ASSUME NEW z \in Above(y) PROVE z \in Above(x) OBVIOUS
    <3>1. z \in W /\ y < z /\ x \in Nat /\ y \in Nat /\ z \in Nat OBVIOUS
    <3>2. x < z BY <1>5, <3>1
    <3> QED BY <3>1, <3>2
  <2>2. y \in Above(x) /\ y \notin Above(y) BY <1>5
  <2>3. <<Above(y), Above(x)>> \in R BY <2>1, <2>2 DEF StrictSubsetOrdering
  <2> QED BY <1>3, <1>4, <2>3
<1> QED BY <1>5

LEMMA LockInvAcyclic == LockInv => NoLockCycle
<1> SUFFICES ASSUME LockInv, NEW S \in SUBSET LockCpus, S # {},
                    \A c \in S : todo[c] # <<>> /\ owner[Head(todo[c])] \in S
             PROVE  FALSE
  BY DEF NoLockCycle
<1> DEFINE Spins(c) == Head(todo[c])
           W == {Spins(c) : c \in S}
<1>1. \A c \in S : Spins(c) \in Queues /\ Spins(c) \in Ahead(todo[c])
  BY Places, TakeOne
<1>2. W \subseteq Queues /\ W # {} BY <1>1
<1>3. W \subseteq Nat /\ IsFiniteSet(W)
  BY <1>2, LocksAssumption, FS_Subset
<1>4. PICK x \in W : \A y \in W : ~ (x < y)
  <2> HIDE DEF W
  <2> QED BY <1>2, <1>3, Largest
<1>5. PICK c \in S : x = Spins(c) OBVIOUS
<1>6. PICK d \in S : owner[x] = d BY <1>5
<1>7. x < Spins(d)
  BY <1>1, <1>5, <1>6, Places DEF CpuInv, HoldsInOrder, Holds
<1> QED BY <1>4, <1>6, <1>7

(* No set of CPUs ever spins for each other's run-queue locks: a CPU holds *)
(* only locks that precede, in the order of addresses, all it still waits  *)
(* for (sched.c: double_rq_lock, both versions of _double_lock_balance).   *)
THEOREM LocksNeverCycle == LocksSpec => []NoLockCycle
BY LockInvAlways, LockInvAcyclic, PTL

-----------------------------------------------------------------------------
(***************************************************************************)
(* Run queues (RunQueue).                                                  *)
(***************************************************************************)
Off    == {"none", "forked", "placed", "W"}   \* on no queue and no CPU
Asleep == {"I", "U", "dead"}
TaskRecords == [state : Off \cup Asleep \cup {"R"}, on_rq : BOOLEAN, cpu : Cpus,
                allowed : SUBSET Cpus, worker : BOOLEAN]
QueueRecords == [nr_running : Int, nr_uninterruptible : Int,
                 curr : Tasks \cup {Idle, Stop}, resched : BOOLEAN,
                 switching : BOOLEAN]
Requests == {m \in [task : Tasks, at : Cpus, dest : Cpus] : m.at # m.dest}

RQTypes ==
  /\ task \in [Tasks -> TaskRecords] /\ rq \in [Cpus -> QueueRecords]
  /\ active # {} /\ active \subseteq online /\ online \subseteq Cpus
  /\ moves \subseteq Requests /\ stray \subseteq Tasks

(* A task is on the queue of an online CPU, or on no queue; one that is on *)
(* no queue is asleep, on its way, or being switched away from.            *)
TaskPlaced(p) ==
  /\ task[p].on_rq => task[p].state \notin Off /\ task[p].cpu \in online
  /\ task[p].state = "R" => task[p].on_rq
  /\ task[p].state \in {"W", "placed"} => task[p].cpu \in online
  /\ task[p].state = "W" => task[p].cpu \in task[p].allowed
  /\ task[p].worker /\ task[p].state \notin {"none", "forked"} =>
       task[p].cpu \in task[p].allowed

(* What a CPU runs is a task of its own, which left its queue only if it   *)
(* is being switched away from, and not if it has been woken meanwhile.    *)
Running(c) ==
  /\ rq[c].curr \in Tasks =>
       /\ task[rq[c].curr].cpu = c
       /\ task[rq[c].curr].state \notin Off
       /\ rq[c].switching \/ task[rq[c].curr].on_rq
  /\ rq[c].switching =>
       /\ c \in online /\ rq[c].curr \in Tasks
       /\ task[rq[c].curr].on_rq <=> task[rq[c].curr].state = "R"

Counted(c) == rq[c].nr_running = Cardinality(Queued(c))
Told(c) == Queued(c) # {} /\ rq[c].curr = Idle => rq[c].resched

Sleepers == {p \in Tasks : task[p].state = "U" /\ ~ task[p].on_rq}
NrSum(r) == SumFunction([c \in Cpus |-> r[c].nr_uninterruptible])
SleepersCounted == NrSum(rq) = Cardinality(Sleepers)

(* A task that is queued or running outside its mask has a request.        *)
Pending(p) ==
  /\ task[p].on_rq \/ task_running(p)
  /\ task[p].cpu \notin task[p].allowed /\ p \notin stray
  => \E m \in moves : /\ m.task = p /\ m.at = task[p].cpu
                      /\ m.dest \in task[p].allowed

RQInv ==
  /\ RQTypes
  /\ \A p \in Tasks : TaskPlaced(p) /\ Pending(p)
  /\ \A c \in Cpus : Running(c) /\ Counted(c) /\ Told(c)
  /\ SleepersCounted

-----------------------------------------------------------------------------
(* Fields. *)

LEMMA TaskFields ==
  ASSUME RQTypes, NEW p \in Tasks
  PROVE  /\ task[p] \in TaskRecords
         /\ task[p].state \in Off \cup Asleep \cup {"R"} /\ task[p].on_rq \in BOOLEAN
         /\ task[p].cpu \in Cpus /\ task[p].allowed \in SUBSET Cpus
         /\ task[p].worker \in BOOLEAN
BY DEF RQTypes, TaskRecords

LEMMA QueueFields ==
  ASSUME RQTypes, NEW c \in Cpus
  PROVE  /\ rq[c] \in QueueRecords
         /\ rq[c].nr_running \in Int /\ rq[c].nr_uninterruptible \in Int
         /\ rq[c].curr \in Tasks \cup {Idle, Stop}
         /\ rq[c].resched \in BOOLEAN /\ rq[c].switching \in BOOLEAN
BY DEF RQTypes, QueueRecords

LEMMA PreemptFields ==
  ASSUME NEW r \in QueueRecords
  PROVE  LET s == check_preempt_curr(r)
         IN /\ s \in QueueRecords /\ s.nr_running = r.nr_running
            /\ s.nr_uninterruptible = r.nr_uninterruptible /\ s.curr = r.curr
            /\ s.switching = r.switching /\ (s.curr = Idle => s.resched)
<1> DEFINE b == r.resched \/ r.curr = Idle
<1>1. b \in BOOLEAN /\ (r.curr = Idle => b)
  OBVIOUS
<1>2. check_preempt_curr(r) = [r EXCEPT !.resched = b]
  BY DEF check_preempt_curr
<1> HIDE DEF b
<1> QED
  BY <1>1, <1>2 DEF QueueRecords

LEMMA ActivateFields ==
  ASSUME NEW r \in QueueRecords, NEW p
  PROVE  LET s == activate_task(r, p)
         IN /\ s \in QueueRecords /\ s.nr_running = r.nr_running + 1
            /\ s.nr_uninterruptible = r.nr_uninterruptible - Contributes(p)
            /\ s.curr = r.curr /\ s.switching = r.switching /\ s.resched = r.resched
<1> DEFINE n == Contributes(p)
           s == [r EXCEPT !.nr_running = @ + 1, !.nr_uninterruptible = @ - n]
<1>1. n \in Int
  BY DEF Contributes
<1>2. activate_task(r, p) = s
  BY DEF activate_task
<1> HIDE DEF n
<1>3. /\ s \in QueueRecords /\ s.nr_running = r.nr_running + 1
      /\ s.nr_uninterruptible = r.nr_uninterruptible - n
      /\ s.curr = r.curr /\ s.switching = r.switching /\ s.resched = r.resched
  <2> DEFINE i == r.nr_running + 1
             j == r.nr_uninterruptible - n
  <2>1. i \in Int /\ j \in Int
    BY <1>1 DEF QueueRecords
  <2>2. s = [r EXCEPT !.nr_running = i, !.nr_uninterruptible = j]
    OBVIOUS
  <2> HIDE DEF i, j, s
  <2>3. /\ s \in QueueRecords /\ s.nr_running = i /\ s.nr_uninterruptible = j
        /\ s.curr = r.curr /\ s.switching = r.switching /\ s.resched = r.resched
    BY <2>1, <2>2 DEF QueueRecords
  <2> QED
    BY <2>3 DEF i, j
<1> HIDE DEF s
<1> QED
  BY <1>2, <1>3 DEF n

LEMMA DeactivateFields ==
  ASSUME NEW r \in QueueRecords, NEW p
  PROVE  LET s == deactivate_task(r, p)
         IN /\ s \in QueueRecords /\ s.nr_running = r.nr_running - 1
            /\ s.nr_uninterruptible = r.nr_uninterruptible + Contributes(p)
            /\ s.curr = r.curr /\ s.switching = r.switching /\ s.resched = r.resched
<1> DEFINE n == Contributes(p)
           s == [r EXCEPT !.nr_running = @ - 1, !.nr_uninterruptible = @ + n]
<1>1. n \in Int
  BY DEF Contributes
<1>2. deactivate_task(r, p) = s
  BY DEF deactivate_task
<1> HIDE DEF n
<1>3. /\ s \in QueueRecords /\ s.nr_running = r.nr_running - 1
      /\ s.nr_uninterruptible = r.nr_uninterruptible + n
      /\ s.curr = r.curr /\ s.switching = r.switching /\ s.resched = r.resched
  <2> DEFINE i == r.nr_running - 1
             j == r.nr_uninterruptible + n
  <2>1. i \in Int /\ j \in Int
    BY <1>1 DEF QueueRecords
  <2>2. s = [r EXCEPT !.nr_running = i, !.nr_uninterruptible = j]
    OBVIOUS
  <2> HIDE DEF i, j, s
  <2>3. /\ s \in QueueRecords /\ s.nr_running = i /\ s.nr_uninterruptible = j
        /\ s.curr = r.curr /\ s.switching = r.switching /\ s.resched = r.resched
    BY <2>1, <2>2 DEF QueueRecords
  <2> QED
    BY <2>3 DEF i, j
<1> HIDE DEF s
<1> QED
  BY <1>2, <1>3 DEF n

LEMMA SwitchedFields ==
  ASSUME NEW r \in QueueRecords, NEW next \in Tasks \cup {Idle, Stop}
  PROVE  LET s == Switched(r, next)
         IN /\ s \in QueueRecords /\ s.nr_running = r.nr_running
            /\ s.nr_uninterruptible = r.nr_uninterruptible
            /\ s.curr = next /\ s.switching = FALSE /\ s.resched = FALSE
BY DEF Switched, QueueRecords

-----------------------------------------------------------------------------
(* Counting. *)

LEMMA QueuedStep ==
  ASSUME NEW p \in Tasks, \A q \in Tasks \ {p} : task'[q] = task[q], NEW c \in Cpus
  PROVE  /\ Cardinality(Queued(c)) \in Nat /\ Cardinality(Queued(c)') \in Nat
         /\ Cardinality(Queued(c)') = Cardinality(Queued(c))
              + Count(p \in Queued(c)') - Count(p \in Queued(c))
<1>1. IsFiniteSet(Queued(c))
  BY RunQueueAssumption, FS_Subset DEF Queued
<1>2. Queued(c) \ {p} = Queued(c)' \ {p}
  BY DEF Queued
<1> QED
  BY <1>1, <1>2, CardinalityStep

LEMMA SleepersStep ==
  ASSUME NEW p \in Tasks, \A q \in Tasks \ {p} : task'[q] = task[q]
  PROVE  /\ Cardinality(Sleepers) \in Nat /\ Cardinality(Sleepers') \in Nat
         /\ Cardinality(Sleepers') = Cardinality(Sleepers)
              + Count(p \in Sleepers') - Count(p \in Sleepers)
<1>1. IsFiniteSet(Sleepers)
  BY RunQueueAssumption, FS_Subset DEF Sleepers
<1>2. Sleepers \ {p} = Sleepers' \ {p}
  BY DEF Sleepers
<1> QED
  BY <1>1, <1>2, CardinalityStep

LEMMA NrSumStep ==
  ASSUME NEW r \in [Cpus -> QueueRecords], NEW s \in [Cpus -> QueueRecords],
         NEW c \in Cpus,
         \A d \in Cpus \ {c} : s[d].nr_uninterruptible = r[d].nr_uninterruptible
  PROVE  /\ NrSum(r) \in Int
         /\ NrSum(s) = NrSum(r) + s[c].nr_uninterruptible - r[c].nr_uninterruptible
<1> DEFINE f == [d \in Cpus |-> r[d].nr_uninterruptible]
           g == [d \in Cpus |-> s[d].nr_uninterruptible]
<1>1. f \in [Cpus -> Int] /\ g \in [Cpus -> Int]
  BY DEF QueueRecords
<1>2. \A d \in Cpus \ {c} : g[d] = f[d]
  OBVIOUS
<1>3. g[c] = s[c].nr_uninterruptible /\ f[c] = r[c].nr_uninterruptible
  OBVIOUS
<1>4. NrSum(r) = SumFunction(f) /\ NrSum(s) = SumFunction(g)
  BY DEF NrSum
<1> HIDE DEF f, g
<1>5. SumFunction(f) \in Int /\ SumFunction(g) = SumFunction(f) + g[c] - f[c]
  BY <1>1, <1>2, RunQueueAssumption, SumStep
<1> QED
  BY <1>3, <1>4, <1>5

(* The same for the step of a queue. *)
LEMMA NrSumChange ==
  ASSUME rq \in [Cpus -> QueueRecords], rq' \in [Cpus -> QueueRecords],
         NEW c \in Cpus, \A d \in Cpus \ {c} : rq'[d] = rq[d]
  PROVE  /\ NrSum(rq) \in Int
         /\ NrSum(rq)' = NrSum(rq) + rq'[c].nr_uninterruptible
                                   - rq[c].nr_uninterruptible
<1> DEFINE r == rq
           s == rq'
<1>1. /\ r \in [Cpus -> QueueRecords] /\ s \in [Cpus -> QueueRecords]
      /\ \A d \in Cpus \ {c} : s[d].nr_uninterruptible = r[d].nr_uninterruptible
  OBVIOUS
<1>2. NrSum(rq)' = NrSum(s)
  BY DEF NrSum
<1> HIDE DEF r, s
<1>3. /\ NrSum(r) \in Int
      /\ NrSum(s) = NrSum(r) + s[c].nr_uninterruptible - r[c].nr_uninterruptible
  BY <1>1, NrSumStep
<1> QED
  BY <1>2, <1>3 DEF r, s

-----------------------------------------------------------------------------
(* A step that touches the tasks of P and the queue of c only.             *)
Untouched(P, c) ==
  /\ P \subseteq Tasks /\ c \in Cpus /\ online' = online
  /\ \A q \in Tasks \ P : task'[q] = task[q]
  /\ \A d \in Cpus \ {c} :
       /\ rq'[d] = rq[d] /\ rq[d].curr \notin P
       /\ \A q \in P : q \notin Queued(d) /\ q \notin Queued(d)'
  /\ rq'[c].curr = rq[c].curr \/ rq'[c].curr \notin Tasks
       \/ rq'[c].curr \in Queued(c)
  /\ \A m \in moves : m.task \notin P => m \in moves'
  /\ \A q \in stray : q \notin P => q \in stray'

Restored(P, c) ==
  /\ RQTypes'
  /\ \A p \in P : TaskPlaced(p)' /\ Pending(p)'
  /\ Running(c)' /\ Counted(c)' /\ Told(c)'
  /\ SleepersCounted'

LEMMA LocalStep ==
  ASSUME RQInv, NEW P, NEW c, Untouched(P, c), Restored(P, c)
  PROVE  RQInv'
<1>1. ASSUME NEW q \in Tasks \ P  PROVE TaskPlaced(q)' /\ Pending(q)'
  <2>1. task'[q] = task[q] /\ TaskPlaced(q) /\ Pending(q) /\ online' = online
    BY <1>1 DEF RQInv, Untouched
  <2>2. TaskPlaced(q)'
    BY <2>1 DEF TaskPlaced
  <2>3. task[q].cpu \in Cpus
    BY <1>1, TaskFields DEF RQInv
  <2>4. task_running(q)' => task_running(q) \/ task[q].on_rq
    <3>1. CASE task[q].cpu = c
      BY <1>1, <2>1, <3>1 DEF Untouched, task_running, Queued
    <3>2. CASE task[q].cpu # c
      BY <2>1, <2>3, <3>2 DEF Untouched, task_running
    <3> QED BY <3>1, <3>2
  <2>5. ASSUME task'[q].on_rq \/ task_running(q)',
               task'[q].cpu \notin task'[q].allowed, q \notin stray'
        PROVE  \E m \in moves' : /\ m.task = q /\ m.at = task'[q].cpu
                                 /\ m.dest \in task'[q].allowed
    <3>1. q \notin stray
      BY <1>1, <2>5 DEF Untouched
    <3>2. PICK m \in moves : /\ m.task = q /\ m.at = task[q].cpu
                             /\ m.dest \in task[q].allowed
      BY <2>1, <2>4, <2>5, <3>1 DEF Pending
    <3>3. m \in moves'
      BY <1>1, <3>2 DEF Untouched
    <3> QED BY <2>1, <3>2, <3>3
  <2> QED BY <2>2, <2>5 DEF Pending
<1>2. ASSUME NEW d \in Cpus \ {c}  PROVE Running(d)' /\ Counted(d)' /\ Told(d)'
  <2>1. /\ rq'[d] = rq[d] /\ rq[d].curr \notin P /\ online' = online
        /\ Running(d) /\ Counted(d) /\ Told(d)
    BY <1>2 DEF RQInv, Untouched
  <2>2. rq[d].curr \in Tasks => task'[rq[d].curr] = task[rq[d].curr]
    BY <2>1 DEF Untouched
  <2>3. Queued(d)' = Queued(d)
    <3>1. \A q \in P : q \notin Queued(d) /\ q \notin Queued(d)'
      BY <1>2 DEF Untouched
    <3>2. \A q \in Tasks \ P : q \in Queued(d) <=> q \in Queued(d)'
      BY DEF Untouched, Queued
    <3>3. Queued(d) \subseteq Tasks /\ Queued(d)' \subseteq Tasks
      BY DEF Queued
    <3> QED BY <3>1, <3>2, <3>3
  <2>4. Running(d)'
    BY <2>1, <2>2 DEF Running
  <2>5. Counted(d)' /\ Told(d)'
    BY <2>1, <2>3 DEF Counted, Told
  <2> QED BY <2>4, <2>5
<1> QED
  BY <1>1, <1>2, Zenon DEF RQInv, Restored

-----------------------------------------------------------------------------
(* The steps of the tasks and of a queue, field by field.                  *)
TaskBecomes(p, state, on_rq, cpu, allowed) ==
  /\ task' \in [Tasks -> TaskRecords]
  /\ \A q \in Tasks \ {p} : task'[q] = task[q]
  /\ task'[p].state = state /\ task'[p].on_rq = on_rq /\ task'[p].cpu = cpu
  /\ task'[p].allowed = allowed /\ task'[p].worker = task[p].worker

QueueBecomes(c, r) ==
  /\ rq' \in [Cpus -> QueueRecords] /\ rq'[c] = r /\ r \in QueueRecords
  /\ \A d \in Cpus \ {c} : rq'[d] = rq[d]

LEMMA StateStep ==
  ASSUME RQTypes, NEW p \in Tasks, NEW s \in Off \cup Asleep \cup {"R"},
         task' = [task EXCEPT ![p].state = s]
  PROVE  TaskBecomes(p, s, task[p].on_rq, task[p].cpu, task[p].allowed)
BY DEF RQTypes, TaskRecords, TaskBecomes

LEMMA WakeStep ==
  ASSUME RQTypes, NEW p \in Tasks,
         task' = [task EXCEPT ![p].state = "R", ![p].on_rq = TRUE]
  PROVE  TaskBecomes(p, "R", TRUE, task[p].cpu, task[p].allowed)
BY DEF RQTypes, TaskRecords, TaskBecomes

LEMMA PlaceStep ==
  ASSUME RQTypes, NEW p \in Tasks, NEW s \in Off, NEW c \in Cpus,
         NEW a \in SUBSET Cpus,
         task' = [task EXCEPT ![p].state = s, ![p].cpu = c, ![p].allowed = a]
  PROVE  TaskBecomes(p, s, task[p].on_rq, c, a)
<1> DEFINE t == task[p]
           u == [t EXCEPT !.state = s, !.cpu = c, !.allowed = a]
<1>1. task \in [Tasks -> TaskRecords] /\ t \in TaskRecords
  BY DEF RQTypes
<1>2. task' = [task EXCEPT ![p] = u]
  OBVIOUS
<1> HIDE DEF t
<1>3. /\ u \in TaskRecords /\ u.state = s /\ u.on_rq = t.on_rq /\ u.cpu = c
      /\ u.allowed = a /\ u.worker = t.worker
  BY <1>1 DEF TaskRecords
<1>4. u \in TaskRecords
  BY <1>3
<1> HIDE DEF u
<1>5. /\ task' \in [Tasks -> TaskRecords] /\ task'[p] = u
      /\ \A q \in Tasks \ {p} : task'[q] = task[q]
  BY <1>1, <1>2, <1>4
<1> QED
  BY <1>3, <1>5 DEF TaskBecomes, t

LEMMA CpuStep ==
  ASSUME RQTypes, NEW p \in Tasks, NEW c \in Cpus,
         task' = [task EXCEPT ![p].cpu = c]
  PROVE  TaskBecomes(p, task[p].state, task[p].on_rq, c, task[p].allowed)
BY DEF RQTypes, TaskRecords, TaskBecomes

LEMMA AllowedStep ==
  ASSUME RQTypes, NEW p \in Tasks, NEW a \in SUBSET Cpus,
         task' = [task EXCEPT ![p].allowed = a]
  PROVE  TaskBecomes(p, task[p].state, task[p].on_rq, task[p].cpu, a)
BY DEF RQTypes, TaskRecords, TaskBecomes

LEMMA OffQueueStep ==
  ASSUME RQTypes, NEW p \in Tasks,
         task' = [task EXCEPT ![p].on_rq = FALSE]
  PROVE  TaskBecomes(p, task[p].state, FALSE, task[p].cpu, task[p].allowed)
BY DEF RQTypes, TaskRecords, TaskBecomes

LEMMA QueueStep ==
  ASSUME RQTypes, NEW c \in Cpus, NEW r \in QueueRecords,
         rq' = [rq EXCEPT ![c] = r]
  PROVE  QueueBecomes(c, r)
BY DEF RQTypes, QueueBecomes

LEMMA NewTypes ==
  ASSUME RQTypes, task' \in [Tasks -> TaskRecords], rq' \in [Cpus -> QueueRecords],
         UNCHANGED <<online, active>>, moves' \subseteq Requests, stray' \subseteq Tasks
  PROVE  RQTypes'
BY DEF RQTypes

(* The counters follow the sets they count. *)
LEMMA CountsFollow ==
  ASSUME RQInv, NEW c \in Cpus, NEW r, QueueBecomes(c, r),
         Cardinality(Queued(c)') =
           Cardinality(Queued(c)) + (r.nr_running - rq[c].nr_running),
         Cardinality(Sleepers') = Cardinality(Sleepers)
           + (r.nr_uninterruptible - rq[c].nr_uninterruptible)
  PROVE  Counted(c)' /\ SleepersCounted'
<1>1. RQTypes /\ Counted(c) /\ SleepersCounted
  BY DEF RQInv
<1>2. /\ rq \in [Cpus -> QueueRecords] /\ rq' \in [Cpus -> QueueRecords]
      /\ \A d \in Cpus \ {c} : rq'[d] = rq[d]
      /\ rq'[c] = r /\ r \in QueueRecords
  BY <1>1 DEF RQTypes, QueueBecomes
<1>3. /\ r.nr_running \in Int /\ r.nr_uninterruptible \in Int
      /\ rq[c].nr_running \in Int /\ rq[c].nr_uninterruptible \in Int
  BY <1>1, <1>2, QueueFields DEF QueueRecords
<1>4. Cardinality(Queued(c)') = r.nr_running
  BY <1>1, <1>3 DEF Counted
<1>5. /\ NrSum(rq) \in Int
      /\ NrSum(rq)' = NrSum(rq) + rq'[c].nr_uninterruptible
                                - rq[c].nr_uninterruptible
  BY <1>2, NrSumChange
<1>6. NrSum(rq)' = Cardinality(Sleepers')
  BY <1>1, <1>2, <1>3, <1>5 DEF SleepersCounted
<1> QED
  BY <1>2, <1>4, <1>6 DEF Counted, SleepersCounted

(* The counters follow what becomes of one task. *)
LEMMA CountsStep ==
  ASSUME RQInv, NEW p \in Tasks, NEW c \in Cpus, NEW r, QueueBecomes(c, r),
         \A q \in Tasks \ {p} : task'[q] = task[q],
         r.nr_running = rq[c].nr_running + Count(p \in Queued(c)')
                                         - Count(p \in Queued(c)),
         r.nr_uninterruptible = rq[c].nr_uninterruptible
                                  + Count(p \in Sleepers') - Count(p \in Sleepers)
  PROVE  Counted(c)' /\ SleepersCounted'
<1> DEFINE a == Count(p \in Queued(c)')
           b == Count(p \in Queued(c))
           i == Count(p \in Sleepers')
           j == Count(p \in Sleepers)
<1>1. /\ a \in Int /\ b \in Int /\ i \in Int /\ j \in Int
      /\ rq[c].nr_running \in Int /\ rq[c].nr_uninterruptible \in Int
  BY QueueFields DEF Count, RQInv
<1>2. /\ Cardinality(Queued(c)) \in Nat
      /\ Cardinality(Queued(c)') = Cardinality(Queued(c)) + a - b
  BY QueuedStep
<1>3. /\ Cardinality(Sleepers) \in Nat
      /\ Cardinality(Sleepers') = Cardinality(Sleepers) + i - j
  BY SleepersStep
<1>4. /\ r.nr_running = rq[c].nr_running + a - b
      /\ r.nr_uninterruptible = rq[c].nr_uninterruptible + i - j
  OBVIOUS
<1> HIDE DEF a, b, i, j
<1>5. /\ Cardinality(Queued(c)') =
           Cardinality(Queued(c)) + (r.nr_running - rq[c].nr_running)
      /\ Cardinality(Sleepers') = Cardinality(Sleepers)
           + (r.nr_uninterruptible - rq[c].nr_uninterruptible)
  BY <1>1, <1>2, <1>3, <1>4
<1> QED
  BY <1>5, CountsFollow

(* The counters stay when no task enters or leaves a queue. *)
LEMMA CountsStay ==
  ASSUME RQInv, NEW c \in Cpus, NEW r, QueueBecomes(c, r),
         Queued(c)' = Queued(c), Sleepers' = Sleepers,
         r.nr_running = rq[c].nr_running,
         r.nr_uninterruptible = rq[c].nr_uninterruptible
  PROVE  Counted(c)' /\ SleepersCounted'
<1>1. IsFiniteSet(Queued(c)) /\ IsFiniteSet(Sleepers)
  BY RunQueueAssumption, FS_Subset DEF Queued, Sleepers
<1>2. Cardinality(Queued(c)) \in Nat /\ Cardinality(Sleepers) \in Nat
  BY <1>1, FS_CardinalityType
<1>3. rq[c].nr_running \in Int /\ rq[c].nr_uninterruptible \in Int
  BY QueueFields DEF RQInv
<1>4. /\ Cardinality(Queued(c)') =
           Cardinality(Queued(c)) + (r.nr_running - rq[c].nr_running)
      /\ Cardinality(Sleepers') = Cardinality(Sleepers)
           + (r.nr_uninterruptible - rq[c].nr_uninterruptible)
  BY <1>2, <1>3
<1> QED
  BY <1>4, CountsFollow

(* Two finite sets that agree except on two elements. *)
LEMMA TwoChanges ==
  ASSUME NEW S, NEW T, NEW x, NEW y, x # y, IsFiniteSet(S),
         S \ {x, y} = T \ {x, y}
  PROVE  /\ Cardinality(S) \in Nat
         /\ Cardinality(T) = Cardinality(S)
              + (Count(x \in T) - Count(x \in S)) + (Count(y \in T) - Count(y \in S))
<1> DEFINE M == (S \ {x}) \cup (T \cap {x})
<1>1. /\ S \ {x} = M \ {x} /\ M \ {y} = T \ {y}
      /\ (x \in M <=> x \in T) /\ (y \in M <=> y \in S)
  OBVIOUS
<1> HIDE DEF M
<1>2. /\ Cardinality(S) \in Nat /\ Cardinality(M) \in Nat
      /\ Cardinality(M) = Cardinality(S) + Count(x \in M) - Count(x \in S)
  BY <1>1, CardinalityStep
<1>3. IsFiniteSet(M)
  <2>1. IsFiniteSet(S \cup {x}) /\ M \subseteq S \cup {x}
    BY <1>1, FS_AddElement
  <2> QED BY <2>1, FS_Subset
<1>4. Cardinality(T) = Cardinality(M) + Count(y \in T) - Count(y \in M)
  BY <1>1, <1>3, CardinalityStep
<1>5. Count(x \in M) = Count(x \in T) /\ Count(y \in M) = Count(y \in S)
  BY <1>1 DEF Count
<1> DEFINE xt == Count(x \in T)
           xs == Count(x \in S)
           yt == Count(y \in T)
           ys == Count(y \in S)
<1>6. xt \in Int /\ xs \in Int /\ yt \in Int /\ ys \in Int
  BY DEF Count
<1>7. /\ Cardinality(M) = Cardinality(S) + xt - xs
      /\ Cardinality(T) = Cardinality(M) + yt - ys
  BY <1>2, <1>4, <1>5
<1> HIDE DEF xt, xs, yt, ys
<1>8. Cardinality(T) = Cardinality(S) + (xt - xs) + (yt - ys)
  BY <1>2, <1>6, <1>7
<1> QED
  BY <1>2, <1>8 DEF xt, xs, yt, ys

(* A context switch on c. *)
LEMMA SwitchStep ==
  ASSUME RQInv, NEW c \in Cpus, NEW next \in Candidates(Queued(c)) \cup {Stop},
         rq' = [rq EXCEPT ![c] = Switched(@, next)]
  PROVE  /\ QueueBecomes(c, Switched(rq[c], next))
         /\ rq'[c].nr_running = rq[c].nr_running
         /\ rq'[c].nr_uninterruptible = rq[c].nr_uninterruptible
         /\ rq'[c].curr = next /\ rq'[c].switching = FALSE
         /\ next \in Tasks => next \in Queued(c)
         /\ next = Idle => Queued(c) = {}
<1>1. RQTypes /\ rq[c] \in QueueRecords
  BY QueueFields DEF RQInv
<1>2. next \in Tasks \cup {Idle, Stop} /\ Queued(c) \subseteq Tasks
  BY DEF Candidates, Queued
<1>3. (next \in Tasks => next \in Queued(c)) /\ (next = Idle => Queued(c) = {})
  BY <1>2, RunQueueAssumption DEF Candidates
<1> DEFINE r == Switched(rq[c], next)
<1>4. /\ r \in QueueRecords /\ r.nr_running = rq[c].nr_running
      /\ r.nr_uninterruptible = rq[c].nr_uninterruptible
      /\ r.curr = next /\ r.switching = FALSE
  BY <1>1, <1>2, SwitchedFields
<1>5. rq' = [rq EXCEPT ![c] = r]
  OBVIOUS
<1> HIDE DEF r
<1>6. QueueBecomes(c, r)
  BY <1>1, <1>4, <1>5, QueueStep
<1>7. rq'[c] = r
  BY <1>6 DEF QueueBecomes
<1> QED
  BY <1>3, <1>4, <1>6, <1>7 DEF r

-----------------------------------------------------------------------------
(* The steps.                                                              *)

LEMMA SwitchKeeps ==
  ASSUME RQInv, NEW c \in Cpus, ~ rq[c].switching,
         NEW next \in Candidates(Queued(c)) \cup {Stop},
         rq' = [rq EXCEPT ![c] = Switched(@, next)],
         UNCHANGED <<task, online, active, moves, stray>>
  PROVE  RQInv'
<1>1. /\ QueueBecomes(c, Switched(rq[c], next))
      /\ rq'[c].nr_running = rq[c].nr_running
      /\ rq'[c].nr_uninterruptible = rq[c].nr_uninterruptible
      /\ rq'[c].curr = next /\ rq'[c].switching = FALSE
      /\ next \in Tasks => next \in Queued(c)
      /\ next = Idle => Queued(c) = {}
  BY SwitchStep
<1>2. RQTypes /\ \A p \in Tasks : TaskPlaced(p)
  BY DEF RQInv
<1>3. Queued(c)' = Queued(c) /\ Sleepers' = Sleepers
  BY DEF Queued, Sleepers
<1>4. Untouched({}, c)
  BY <1>1 DEF Untouched, QueueBecomes
<1>5. RQTypes'
  BY <1>1, <1>2, NewTypes DEF RQTypes, QueueBecomes
<1>6. Counted(c)' /\ SleepersCounted'
  BY <1>1, <1>3, CountsStay DEF QueueBecomes
<1>7. Running(c)'
  BY <1>1, <1>2 DEF Running, Queued, TaskPlaced
<1>8. Told(c)'
  BY <1>1, <1>3 DEF Told
<1>9. Restored({}, c)
  BY <1>5, <1>6, <1>7, <1>8 DEF Restored
<1> QED
  BY <1>4, <1>9, LocalStep

LEMMA PreemptKeeps ==
  ASSUME RQInv, NEW c \in Cpus, Preempt(c) \/ StopTaskRuns(c)
  PROVE  RQInv'
<1>1. CASE Preempt(c)
  BY <1>1, SwitchKeeps DEF Preempt
<1>2. CASE StopTaskRuns(c)
  BY <1>2, SwitchKeeps DEF StopTaskRuns
<1> QED
  BY <1>1, <1>2

(* The task that runs on c, when schedule is not under way. *)
LEMMA Runs ==
  ASSUME RQInv, NEW c \in Cpus, rq[c].curr \in Tasks
  PROVE  LET p == rq[c].curr
         IN /\ task[p].cpu = c /\ task[p].state \notin Off
            /\ ~ rq[c].switching => task[p].on_rq
            /\ rq[c].switching => c \in online
                                  /\ (task[p].on_rq <=> task[p].state = "R")
            /\ TaskPlaced(p) /\ Pending(p)
BY DEF RQInv, Running

(* A task runs on its own CPU only. *)
LEMMA RunsOnce ==
  ASSUME RQInv, NEW p \in Tasks, NEW d \in Cpus, rq[d].curr = p
  PROVE  task[p].cpu = d
BY DEF RQInv, Running

LEMMA SetStateKeeps ==
  ASSUME RQInv, NEW c \in Cpus, NEW s \in {"R", "I", "U", "dead"}, SetState(c, s)
  PROVE  RQInv'
<1>0. PICK p : p = rq[c].curr
  OBVIOUS
<1>1. /\ p \in Tasks /\ ~ rq[c].switching /\ task[p].state # "dead"
      /\ task' = [task EXCEPT ![p].state = s]
      /\ UNCHANGED <<rq, online, active, moves, stray>>
  BY <1>0 DEF SetState
<1>2. /\ task[p].cpu = c /\ task[p].state \notin Off /\ task[p].on_rq
      /\ TaskPlaced(p) /\ Pending(p) /\ rq[c].curr = p
  BY <1>0, <1>1, Runs
<1>3. RQTypes /\ rq[c] \in QueueRecords /\ Told(c) /\ Running(c)
  BY QueueFields DEF RQInv
<1>4. /\ TaskBecomes(p, s, task[p].on_rq, task[p].cpu, task[p].allowed)
      /\ s \notin Off
  <2>1. s \in Off \cup Asleep \cup {"R"} /\ s \notin Off
    BY DEF Asleep, Off
  <2> QED BY <1>1, <1>3, <2>1, StateStep
<1>5. /\ \A q \in Tasks \ {p} : task'[q] = task[q]
      /\ task' \in [Tasks -> TaskRecords]
      /\ task'[p].state = s /\ task'[p].on_rq /\ task'[p].cpu = c
      /\ task'[p].allowed = task[p].allowed /\ task'[p].worker = task[p].worker
  BY <1>2, <1>4 DEF TaskBecomes
<1>6. Queued(c)' = Queued(c) /\ Sleepers' = Sleepers
  BY <1>1, <1>2, <1>5 DEF Queued, Sleepers
<1>7. Untouched({p}, c)
  <2>1. ASSUME NEW d \in Cpus \ {c}
        PROVE  rq[d].curr # p /\ p \notin Queued(d) /\ p \notin Queued(d)'
    BY <1>1, <1>2, <1>5, RunsOnce DEF Queued
  <2> QED BY <1>1, <1>5, <2>1 DEF Untouched
<1>8. RQTypes'
  BY <1>1, <1>3, <1>5, NewTypes DEF RQTypes
<1>9. QueueBecomes(c, rq[c])
  BY <1>1, <1>3 DEF RQTypes, QueueBecomes
<1>10. Counted(c)' /\ SleepersCounted'
  BY <1>6, <1>9, CountsStay
<1>11. TaskPlaced(p)'
  BY <1>1, <1>2, <1>4, <1>5 DEF TaskPlaced, Off
<1>12. Pending(p)'
  <2>1. task_running(p)' <=> task_running(p)
    BY <1>1, <1>2, <1>5 DEF task_running
  <2> QED BY <1>1, <1>2, <1>5, <2>1 DEF Pending
<1>13. Running(c)' /\ Told(c)'
  BY <1>1, <1>2, <1>3, <1>4, <1>5, <1>6 DEF Running, Told
<1>14. Restored({p}, c)
  BY <1>8, <1>10, <1>11, <1>12, <1>13 DEF Restored
<1> QED
  BY <1>7, <1>14, LocalStep

LEMMA ScheduleSignalledKeeps ==
  ASSUME RQInv, NEW c \in Cpus, ScheduleSignalled(c)
  PROVE  RQInv'
<1>0. PICK p : p = rq[c].curr
  OBVIOUS
<1>1. /\ p \in Tasks /\ ~ rq[c].switching /\ task[p].state = "I"
      /\ task' = [task EXCEPT ![p].state = "R"]
      /\ UNCHANGED <<online, active, moves, stray>>
  BY <1>0 DEF ScheduleSignalled
<1>a. PICK next \in Candidates(Queued(c)) : rq' = [rq EXCEPT ![c] = Switched(@, next)]
  BY DEF ScheduleSignalled
<1>b. /\ QueueBecomes(c, Switched(rq[c], next))
      /\ rq'[c].nr_running = rq[c].nr_running
      /\ rq'[c].nr_uninterruptible = rq[c].nr_uninterruptible
      /\ rq'[c].curr = next /\ rq'[c].switching = FALSE
      /\ next \in Tasks => next \in Queued(c)
      /\ next = Idle => Queued(c) = {}
  BY <1>a, SwitchStep
<1>2. /\ task[p].cpu = c /\ task[p].state \notin Off /\ task[p].on_rq
      /\ TaskPlaced(p) /\ Pending(p) /\ rq[c].curr = p
  BY <1>0, <1>1, Runs
<1>3. RQTypes /\ \A q \in Tasks : TaskPlaced(q)
  BY DEF RQInv
<1>4. TaskBecomes(p, "R", task[p].on_rq, task[p].cpu, task[p].allowed)
  BY <1>1, <1>3, StateStep
<1>5. /\ \A q \in Tasks \ {p} : task'[q] = task[q]
      /\ task' \in [Tasks -> TaskRecords]
      /\ task'[p].state = "R" /\ task'[p].on_rq /\ task'[p].cpu = c
      /\ task'[p].allowed = task[p].allowed /\ task'[p].worker = task[p].worker
  BY <1>2, <1>4 DEF TaskBecomes
<1>6. Queued(c)' = Queued(c) /\ Sleepers' = Sleepers
  BY <1>1, <1>2, <1>5 DEF Queued, Sleepers
<1>7. Untouched({p}, c)
  <2>1. ASSUME NEW d \in Cpus \ {c}
        PROVE  /\ rq[d].curr # p /\ p \notin Queued(d) /\ p \notin Queued(d)'
               /\ rq'[d] = rq[d]
    BY <1>1, <1>2, <1>5, <1>b, RunsOnce DEF Queued, QueueBecomes
  <2> QED BY <1>1, <1>5, <1>b, <2>1 DEF Untouched
<1>8. RQTypes'
  BY <1>1, <1>3, <1>5, <1>b, NewTypes DEF RQTypes, QueueBecomes
<1>10. Counted(c)' /\ SleepersCounted'
  BY <1>6, <1>b, CountsStay DEF QueueBecomes
<1>11. TaskPlaced(p)'
  BY <1>1, <1>2, <1>5 DEF TaskPlaced, Off
<1>12. Pending(p)'
  BY <1>1, <1>2, <1>5 DEF Pending
<1>13. Running(c)'
  <2>1. next \in Tasks => /\ task'[next].on_rq /\ task'[next].cpu = c
                          /\ task'[next].state \notin Off
    BY <1>3, <1>5, <1>6, <1>b DEF Queued, TaskPlaced, Off
  <2> QED BY <1>b, <2>1 DEF Running
<1>14. Told(c)'
  BY <1>6, <1>b DEF Told
<1>15. Restored({p}, c)
  BY <1>8, <1>10, <1>11, <1>12, <1>13, <1>14 DEF Restored
<1> QED
  BY <1>7, <1>15, LocalStep

LEMMA ScheduleSwitchesKeeps ==
  ASSUME RQInv, NEW c \in Cpus, ScheduleSwitches(c)
  PROVE  RQInv'
<1>0. PICK p : p = rq[c].curr
  OBVIOUS
<1>a. PICK next \in Candidates(Queued(c)) : rq' = [rq EXCEPT ![c] = Switched(@, next)]
  BY DEF ScheduleSwitches
<1>b. /\ QueueBecomes(c, Switched(rq[c], next))
      /\ rq'[c].nr_running = rq[c].nr_running
      /\ rq'[c].nr_uninterruptible = rq[c].nr_uninterruptible
      /\ rq'[c].curr = next /\ rq'[c].switching = FALSE
      /\ next \in Tasks => next \in Queued(c)
      /\ next = Idle => Queued(c) = {}
  BY <1>a, SwitchStep
<1>1. /\ rq[c].switching /\ finish_task_switch(p)
      /\ UNCHANGED <<online, active>>
  BY <1>0 DEF ScheduleSwitches
<1>2. /\ p \in Tasks /\ task[p].cpu = c /\ task[p].state \notin Off
      /\ task[p].on_rq <=> task[p].state = "R"
      /\ TaskPlaced(p) /\ Pending(p) /\ rq[c].curr = p
  <2>1. p \in Tasks
    BY <1>0, <1>1 DEF RQInv, Running
  <2> QED BY <1>0, <1>1, <2>1, Runs
<1>3. RQTypes /\ \A q \in Tasks : TaskPlaced(q)
  BY DEF RQInv
<1>4. /\ task \in [Tasks -> TaskRecords] /\ moves \subseteq Requests
      /\ stray \subseteq Tasks
  BY <1>3 DEF RQTypes
<1>5. CASE task[p].state = "dead"
  <2>1. /\ task' = [task EXCEPT ![p] = NoTask]
        /\ moves' = {m \in moves : m.task # p} /\ stray' = stray \ {p}
        /\ ~ task[p].on_rq
    BY <1>1, <1>2, <1>5 DEF finish_task_switch
  <2>2. /\ NoTask \in TaskRecords /\ NoTask.state = "none"
        /\ NoTask.on_rq = FALSE /\ NoTask.worker = FALSE
    BY RunQueueAssumption DEF NoTask, TaskRecords, Off
  <2>3. /\ \A q \in Tasks \ {p} : task'[q] = task[q]
        /\ task' \in [Tasks -> TaskRecords] /\ task'[p] = NoTask
    BY <1>2, <1>4, <2>1, <2>2
  <2>4. task'[p].state = "none" /\ ~ task'[p].on_rq /\ ~ task'[p].worker
    BY <2>2, <2>3
  <2>5. /\ Queued(c)' = Queued(c) /\ Sleepers' = Sleepers
        /\ p \notin Queued(c)
    BY <1>5, <2>1, <2>3, <2>4 DEF Queued, Sleepers
  <2>6. Untouched({p}, c)
    <3>1. ASSUME NEW d \in Cpus \ {c}
          PROVE  /\ rq[d].curr # p /\ p \notin Queued(d) /\ p \notin Queued(d)'
                 /\ rq'[d] = rq[d]
      BY <1>2, <2>1, <2>4, <1>b, RunsOnce DEF Queued, QueueBecomes
    <3> QED BY <1>1, <1>2, <1>b, <2>1, <2>3, <3>1 DEF Untouched
  <2>7. RQTypes'
    BY <1>1, <1>3, <1>4, <2>1, <2>3, <1>b, NewTypes DEF QueueBecomes
  <2>8. Counted(c)' /\ SleepersCounted'
    BY <2>5, <1>b, CountsStay DEF QueueBecomes
  <2>9. TaskPlaced(p)'
    BY <2>4 DEF TaskPlaced
  <2>10. Pending(p)'
    <3>1. task'[p].cpu \in Cpus
      BY <1>2, <2>7, <2>3 DEF TaskRecords
    <3>2. rq'[task'[p].cpu].curr # p
      <4>1. CASE task'[p].cpu = c
        BY <1>2, <2>5, <4>1, <1>b
      <4>2. CASE task'[p].cpu # c
        BY <3>1, <2>6, <4>2 DEF Untouched
      <4> QED BY <4>1, <4>2
    <3>3. ~ task_running(p)'
      BY <3>2 DEF task_running
    <3> QED BY <2>4, <3>3 DEF Pending
  <2>11. Running(c)'
    <3>1. next \in Tasks => /\ task'[next].on_rq /\ task'[next].cpu = c
                            /\ task'[next].state \notin Off
      BY <1>3, <2>3, <2>5, <1>b DEF Queued, TaskPlaced
    <3> QED BY <1>b, <3>1 DEF Running
  <2>12. Told(c)'
    BY <2>5, <1>b DEF Told
  <2>13. Restored({p}, c)
    BY <2>7, <2>8, <2>9, <2>10, <2>11, <2>12 DEF Restored
  <2> QED
    BY <2>6, <2>13, LocalStep
<1>6. CASE task[p].state # "dead"
  <2>1. UNCHANGED <<task, moves, stray>>
    BY <1>1, <1>6 DEF finish_task_switch
  <2>2. Queued(c)' = Queued(c) /\ Sleepers' = Sleepers
    BY <2>1 DEF Queued, Sleepers
  <2>6. Untouched({p}, c)
    <3>1. ASSUME NEW d \in Cpus \ {c}
          PROVE  /\ rq[d].curr # p /\ p \notin Queued(d) /\ p \notin Queued(d)'
                 /\ rq'[d] = rq[d]
      BY <1>2, <2>1, <1>b, RunsOnce DEF Queued, QueueBecomes
    <3> QED BY <1>1, <1>2, <1>b, <2>1, <3>1 DEF Untouched
  <2>7. RQTypes'
    BY <1>1, <1>3, <1>4, <2>1, <1>b, NewTypes DEF QueueBecomes
  <2>8. Counted(c)' /\ SleepersCounted'
    BY <2>2, <1>b, CountsStay DEF QueueBecomes
  <2>9. TaskPlaced(p)'
    BY <1>1, <1>2, <2>1 DEF TaskPlaced
  <2>10. Pending(p)'
    <3>1. task_running(p)
      BY <1>2 DEF task_running
    <3> QED BY <1>2, <2>1, <3>1 DEF Pending
  <2>11. Running(c)'
    <3>1. next \in Tasks => /\ task'[next].on_rq /\ task'[next].cpu = c
                            /\ task'[next].state \notin Off
      BY <1>3, <2>1, <1>b DEF Queued, TaskPlaced
    <3> QED BY <1>b, <3>1 DEF Running
  <2>12. Told(c)'
    BY <2>2, <1>b DEF Told
  <2>13. Restored({p}, c)
    BY <2>7, <2>8, <2>9, <2>10, <2>11, <2>12 DEF Restored
  <2> QED
    BY <2>6, <2>13, LocalStep
<1> QED
  BY <1>5, <1>6

(* What a task that goes to sleep leaves behind. *)
LEMMA SleeperFields ==
  ASSUME NEW r \in QueueRecords, NEW p
  PROVE  LET s == [deactivate_task(r, p) EXCEPT !.switching = TRUE]
         IN /\ s \in QueueRecords /\ s.nr_running = r.nr_running - 1
            /\ s.nr_uninterruptible = r.nr_uninterruptible + Contributes(p)
            /\ s.curr = r.curr /\ s.switching = TRUE
<1> DEFINE d == deactivate_task(r, p)
           s == [d EXCEPT !.switching = TRUE]
<1>1. /\ d \in QueueRecords /\ d.nr_running = r.nr_running - 1
      /\ d.nr_uninterruptible = r.nr_uninterruptible + Contributes(p)
      /\ d.curr = r.curr
  BY DeactivateFields
<1> HIDE DEF d
<1>2. /\ s \in QueueRecords /\ s.nr_running = d.nr_running
      /\ s.nr_uninterruptible = d.nr_uninterruptible
      /\ s.curr = d.curr /\ s.switching = TRUE
  BY <1>1 DEF QueueRecords
<1> HIDE DEF s
<1> QED
  BY <1>1, <1>2 DEF s, d

LEMMA WakesLocalFields ==
  ASSUME NEW r \in QueueRecords, NEW w
  PROVE  LET s == try_to_wake_up_local(r, w)
         IN /\ s \in QueueRecords /\ s.curr = r.curr /\ s.switching = r.switching
            /\ task[w].on_rq => /\ s.nr_running = r.nr_running
                                /\ s.nr_uninterruptible = r.nr_uninterruptible
            /\ ~ task[w].on_rq =>
                 /\ s.nr_running = r.nr_running + 1
                 /\ s.nr_uninterruptible = r.nr_uninterruptible - Contributes(w)
<1> DEFINE a == activate_task(r, w)
           b == IF task[w].on_rq THEN r ELSE a
           s == check_preempt_curr(b)
<1>1. /\ a \in QueueRecords /\ a.nr_running = r.nr_running + 1
      /\ a.nr_uninterruptible = r.nr_uninterruptible - Contributes(w)
      /\ a.curr = r.curr /\ a.switching = r.switching
  BY ActivateFields
<1>2. b \in QueueRecords /\ b.curr = r.curr /\ b.switching = r.switching
  BY <1>1
<1>3. try_to_wake_up_local(r, w) = s
  BY DEF try_to_wake_up_local
<1> HIDE DEF b
<1>4. /\ s \in QueueRecords /\ s.nr_running = b.nr_running
      /\ s.nr_uninterruptible = b.nr_uninterruptible /\ s.curr = b.curr
      /\ s.switching = b.switching
  BY <1>2, PreemptFields
<1> HIDE DEF a, s
<1>5. /\ task[w].on_rq => b = r
      /\ ~ task[w].on_rq => b = a
  BY DEF b
<1> QED
  BY <1>1, <1>2, <1>3, <1>4, <1>5

LEMMA ScheduleSleepsKeeps ==
  ASSUME RQInv, NEW c \in Cpus, ScheduleSleeps(c)
  PROVE  RQInv'
<1>0. PICK p : p = rq[c].curr
  OBVIOUS
<1> DEFINE r == [deactivate_task(rq[c], p) EXCEPT !.switching = TRUE]
           Alone == /\ task' = [task EXCEPT ![p].on_rq = FALSE]
                    /\ rq' = [rq EXCEPT ![c] = r]
           Other(w) == /\ task[w].worker /\ task[w].cpu = c
                       /\ task[w].state \in {"I", "U"}
                       /\ task' = [task EXCEPT ![p].on_rq = FALSE,
                                      ![w].on_rq = TRUE, ![w].state = "R"]
                       /\ rq' = [rq EXCEPT ![c] = try_to_wake_up_local(r, w)]
<1>1. /\ p \in Tasks /\ ~ rq[c].switching /\ task[p].state # "R"
      /\ UNCHANGED <<online, active, moves, stray>>
      /\ Alone \/ \E w \in Tasks \ {p} : Other(w)
  BY <1>0 DEF ScheduleSleeps
<1>2. /\ task[p].cpu = c /\ task[p].state \notin Off /\ task[p].on_rq
      /\ TaskPlaced(p) /\ Pending(p) /\ rq[c].curr = p
  BY <1>0, <1>1, Runs
<1>3. RQTypes /\ rq[c] \in QueueRecords /\ c \in online
  BY <1>2, QueueFields DEF RQInv, TaskPlaced
<1>4. /\ r \in QueueRecords /\ r.nr_running = rq[c].nr_running - 1
      /\ r.nr_uninterruptible = rq[c].nr_uninterruptible + Contributes(p)
      /\ r.curr = p /\ r.switching = TRUE
  BY <1>2, <1>3, SleeperFields
<1>5. /\ rq[c].nr_running \in Int /\ rq[c].nr_uninterruptible \in Int
      /\ Contributes(p) \in Int
  BY <1>3, QueueFields DEF Contributes
<1> HIDE DEF r
<1>6. ASSUME NEW s, rq'[c] = s, s.curr = p, s.switching = TRUE,
             task'[p].on_rq = FALSE, task'[p].state = task[p].state,
             task'[p].cpu = c
      PROVE  Running(c)' /\ Told(c)'
  BY <1>1, <1>2, <1>3, <1>6, RunQueueAssumption DEF Running, Told
<1>7. ASSUME task'[p].on_rq = FALSE, task'[p].state = task[p].state,
             task'[p].cpu = c, task'[p].allowed = task[p].allowed,
             task'[p].worker = task[p].worker
      PROVE  TaskPlaced(p)' /\ Pending(p)'
  <2>1. TaskPlaced(p)'
    BY <1>1, <1>2, <1>7 DEF TaskPlaced, Off
  <2>2. Pending(p)'
    BY <1>1, <1>2, <1>7 DEF Pending
  <2> QED BY <2>1, <2>2
<1>8. CASE Alone
  <2>1. TaskBecomes(p, task[p].state, FALSE, task[p].cpu, task[p].allowed)
    BY <1>1, <1>3, <1>8, OffQueueStep
  <2>2. /\ task' \in [Tasks -> TaskRecords]
        /\ \A q \in Tasks \ {p} : task'[q] = task[q]
        /\ task'[p].state = task[p].state /\ task'[p].on_rq = FALSE
        /\ task'[p].cpu = c /\ task'[p].allowed = task[p].allowed
        /\ task'[p].worker = task[p].worker
    BY <1>2, <2>1 DEF TaskBecomes
  <2>3. QueueBecomes(c, r)
    BY <1>3, <1>4, <1>8, QueueStep
  <2>4. Untouched({p}, c)
    <3>1. ASSUME NEW d \in Cpus \ {c}
          PROVE  /\ rq[d].curr # p /\ p \notin Queued(d) /\ p \notin Queued(d)'
                 /\ rq'[d] = rq[d]
      BY <1>1, <1>2, <2>2, <2>3, RunsOnce DEF Queued, QueueBecomes
    <3> QED BY <1>1, <1>2, <1>4, <2>2, <2>3, <3>1 DEF Untouched, QueueBecomes
  <2>5. RQTypes'
    BY <1>1, <1>3, <2>2, <2>3, NewTypes DEF RQTypes, QueueBecomes
  <2>6. Counted(c)' /\ SleepersCounted'
    <3>1. Count(p \in Queued(c)') = 0 /\ Count(p \in Queued(c)) = 1
      BY <1>1, <1>2, <2>2 DEF Queued, Count
    <3>2. Count(p \in Sleepers') = Contributes(p) /\ Count(p \in Sleepers) = 0
      BY <1>1, <1>2, <2>2 DEF Sleepers, Count, Contributes
    <3>3. /\ r.nr_running = rq[c].nr_running + Count(p \in Queued(c)')
                                             - Count(p \in Queued(c))
          /\ r.nr_uninterruptible = rq[c].nr_uninterruptible
                                      + Count(p \in Sleepers') - Count(p \in Sleepers)
      BY <1>4, <1>5, <3>1, <3>2
    <3> QED BY <1>1, <2>2, <2>3, <3>3, CountsStep
  <2>7. Restored({p}, c)
    <3>1. rq'[c] = r
      BY <2>3 DEF QueueBecomes
    <3>2. Running(c)' /\ Told(c)' /\ TaskPlaced(p)' /\ Pending(p)'
      BY <1>4, <1>6, <1>7, <2>2, <3>1
    <3> QED BY <2>5, <2>6, <3>2 DEF Restored
  <2> QED
    BY <2>4, <2>7, LocalStep
<1>9. ASSUME NEW w \in Tasks \ {p}, Other(w)
      PROVE  RQInv'
  <2> DEFINE s == try_to_wake_up_local(r, w)
  <2>1. /\ task' \in [Tasks -> TaskRecords]
        /\ \A q \in Tasks \ {p, w} : task'[q] = task[q]
        /\ task'[p].state = task[p].state /\ task'[p].on_rq = FALSE
        /\ task'[p].cpu = c /\ task'[p].allowed = task[p].allowed
        /\ task'[p].worker = task[p].worker
        /\ task'[w].state = "R" /\ task'[w].on_rq = TRUE
        /\ task'[w].cpu = c /\ task'[w].allowed = task[w].allowed
        /\ task'[w].worker = task[w].worker
    BY <1>1, <1>2, <1>3, <1>9 DEF RQTypes, TaskRecords, Asleep
  <2>2. /\ s \in QueueRecords /\ s.curr = p /\ s.switching = TRUE
        /\ task[w].on_rq => /\ s.nr_running = r.nr_running
                            /\ s.nr_uninterruptible = r.nr_uninterruptible
        /\ ~ task[w].on_rq =>
             /\ s.nr_running = r.nr_running + 1
             /\ s.nr_uninterruptible = r.nr_uninterruptible - Contributes(w)
    BY <1>4, WakesLocalFields
  <2>3. QueueBecomes(c, s)
    BY <1>3, <1>9, <2>2, QueueStep
  <2> HIDE DEF s
  <2>4. TaskPlaced(w) /\ task[w].worker /\ task[w].cpu = c
        /\ task[w].state \in {"I", "U"} /\ task[w].on_rq \in BOOLEAN
    BY <1>3, <1>9, TaskFields DEF RQInv
  <2>5. Untouched({p, w}, c)
    <3>1. ASSUME NEW d \in Cpus \ {c}
          PROVE  /\ rq[d].curr # p /\ p \notin Queued(d) /\ p \notin Queued(d)'
                 /\ rq[d].curr # w /\ w \notin Queued(d) /\ w \notin Queued(d)'
                 /\ rq'[d] = rq[d]
      BY <1>1, <1>2, <2>1, <2>3, <2>4, RunsOnce DEF Queued, QueueBecomes
    <3> QED BY <1>1, <1>2, <2>1, <2>2, <2>3, <3>1 DEF Untouched, QueueBecomes
  <2>6. RQTypes'
    BY <1>1, <1>3, <2>1, <2>3, NewTypes DEF RQTypes, QueueBecomes
  <2>7. Counted(c)' /\ SleepersCounted'
    <3>1. /\ Count(p \in Queued(c)') = 0 /\ Count(p \in Queued(c)) = 1
          /\ Count(p \in Sleepers') = Contributes(p) /\ Count(p \in Sleepers) = 0
      BY <1>1, <1>2, <2>1 DEF Queued, Sleepers, Count, Contributes
    <3>2. /\ Count(w \in Queued(c)') = 1
          /\ Count(w \in Queued(c)) = IF task[w].on_rq THEN 1 ELSE 0
          /\ Count(w \in Sleepers') = 0
          /\ Count(w \in Sleepers) = IF task[w].on_rq THEN 0 ELSE Contributes(w)
      BY <1>9, <2>1, <2>4 DEF Queued, Sleepers, Count, Contributes
    <3>3. /\ IsFiniteSet(Queued(c)) /\ IsFiniteSet(Sleepers)
          /\ Queued(c) \ {p, w} = Queued(c)' \ {p, w}
          /\ Sleepers \ {p, w} = Sleepers' \ {p, w}
      BY <2>1, RunQueueAssumption, FS_Subset DEF Queued, Sleepers
    <3>4. /\ Cardinality(Queued(c)) \in Nat
          /\ Cardinality(Queued(c)') = Cardinality(Queued(c))
               + (Count(p \in Queued(c)') - Count(p \in Queued(c)))
               + (Count(w \in Queued(c)') - Count(w \in Queued(c)))
      BY <3>3, TwoChanges
    <3>5. /\ Cardinality(Sleepers) \in Nat
          /\ Cardinality(Sleepers') = Cardinality(Sleepers)
               + (Count(p \in Sleepers') - Count(p \in Sleepers))
               + (Count(w \in Sleepers') - Count(w \in Sleepers))
      BY <3>3, TwoChanges
    <3>6. Contributes(w) \in Int
      BY DEF Contributes
    <3>7. /\ Cardinality(Queued(c)') =
               Cardinality(Queued(c)) + (s.nr_running - rq[c].nr_running)
          /\ Cardinality(Sleepers') = Cardinality(Sleepers)
               + (s.nr_uninterruptible - rq[c].nr_uninterruptible)
      <4> DEFINE x == Contributes(p)
                 y == Contributes(w)
                 n == rq[c].nr_running
                 u == rq[c].nr_uninterruptible
                 on == task[w].on_rq
      <4>1. /\ s.nr_running = n - 1 + (IF on THEN 0 ELSE 1)
            /\ s.nr_uninterruptible = u + x - (IF on THEN 0 ELSE y)
            /\ n \in Int /\ u \in Int /\ x \in Int /\ y \in Int
        BY <1>4, <1>5, <2>2, <3>6
      <4>2. /\ Cardinality(Queued(c)') = Cardinality(Queued(c)) + (0 - 1)
                                           + (1 - (IF on THEN 1 ELSE 0))
            /\ Cardinality(Sleepers') = Cardinality(Sleepers) + (x - 0)
                                          + (0 - (IF on THEN 0 ELSE y))
            /\ Cardinality(Queued(c)) \in Nat /\ Cardinality(Sleepers) \in Nat
        BY <3>1, <3>2, <3>4, <3>5
      <4> HIDE DEF x, y, n, u, on
      <4>3. /\ Cardinality(Queued(c)') = Cardinality(Queued(c)) + (s.nr_running - n)
            /\ Cardinality(Sleepers') = Cardinality(Sleepers)
                                          + (s.nr_uninterruptible - u)
        BY <4>1, <4>2
      <4> QED BY <4>3 DEF n, u
    <3> QED BY <2>3, <3>7, CountsFollow
  <2>8. TaskPlaced(w)' /\ Pending(w)'
    <3>1. task[w].cpu \in task[w].allowed
      BY <2>4 DEF TaskPlaced
    <3> QED BY <1>1, <1>3, <2>1, <2>4, <3>1 DEF TaskPlaced, Pending, Off
  <2>9. Restored({p, w}, c)
    <3>1. rq'[c] = s
      BY <2>3 DEF QueueBecomes
    <3>2. Running(c)' /\ Told(c)' /\ TaskPlaced(p)' /\ Pending(p)'
      BY <1>6, <1>7, <2>1, <2>2, <3>1
    <3> QED BY <2>6, <2>7, <2>8, <3>2 DEF Restored
  <2> QED
    BY <2>5, <2>9, LocalStep
<1> QED
  BY <1>1, <1>8, <1>9

LEMMA WakesFields ==
  ASSUME NEW r \in QueueRecords, NEW p
  PROVE  LET s == check_preempt_curr(activate_task(r, p))
         IN /\ s \in QueueRecords /\ s.nr_running = r.nr_running + 1
            /\ s.nr_uninterruptible = r.nr_uninterruptible - Contributes(p)
            /\ s.curr = r.curr /\ s.switching = r.switching
            /\ s.curr = Idle => s.resched
<1> DEFINE a == activate_task(r, p)
           s == check_preempt_curr(a)
<1>1. /\ a \in QueueRecords /\ a.nr_running = r.nr_running + 1
      /\ a.nr_uninterruptible = r.nr_uninterruptible - Contributes(p)
      /\ a.curr = r.curr /\ a.switching = r.switching
  BY ActivateFields
<1> HIDE DEF a
<1>2. /\ s \in QueueRecords /\ s.nr_running = a.nr_running
      /\ s.nr_uninterruptible = a.nr_uninterruptible /\ s.curr = a.curr
      /\ s.switching = a.switching /\ (s.curr = Idle => s.resched)
  BY <1>1, PreemptFields
<1> HIDE DEF s
<1> QED
  BY <1>1, <1>2 DEF s, a

(* A task that is on no queue joins the queue of its CPU. *)
LEMMA JoinKeeps ==
  ASSUME RQInv, NEW p \in Tasks, ~ task[p].on_rq, task[p].cpu \in online,
         task[p].state \notin {"none", "forked"},
         task' = [task EXCEPT ![p].state = "R", ![p].on_rq = TRUE],
         rq' = [rq EXCEPT ![task[p].cpu] = check_preempt_curr(activate_task(@, p))],
         UNCHANGED <<online, active, moves>>,
         stray \subseteq stray', stray' \subseteq Tasks,
         task_running(p) \/ task[p].cpu \in task[p].allowed \/ p \in stray'
  PROVE  RQInv'
<1>1. PICK c : c = task[p].cpu
  OBVIOUS
<1>2. /\ RQTypes /\ c \in Cpus /\ rq[c] \in QueueRecords
      /\ TaskPlaced(p) /\ Pending(p) /\ Running(c)
  BY <1>1, TaskFields, QueueFields DEF RQInv
<1> DEFINE r == check_preempt_curr(activate_task(rq[c], p))
<1>3. /\ r \in QueueRecords /\ r.nr_running = rq[c].nr_running + 1
      /\ r.nr_uninterruptible = rq[c].nr_uninterruptible - Contributes(p)
      /\ r.curr = rq[c].curr /\ r.switching = rq[c].switching
      /\ r.curr = Idle => r.resched
  BY <1>2, WakesFields
<1>4. rq' = [rq EXCEPT ![c] = r]
  BY <1>1
<1> HIDE DEF r
<1>5. QueueBecomes(c, r) /\ rq'[c] = r
  BY <1>2, <1>3, <1>4, QueueStep DEF QueueBecomes
<1>6. TaskBecomes(p, "R", TRUE, c, task[p].allowed)
  BY <1>1, <1>2, WakeStep
<1>7. /\ task' \in [Tasks -> TaskRecords]
      /\ \A q \in Tasks \ {p} : task'[q] = task[q]
      /\ task'[p].state = "R" /\ task'[p].on_rq = TRUE
      /\ task'[p].cpu = c /\ task'[p].allowed = task[p].allowed
      /\ task'[p].worker = task[p].worker
  BY <1>6 DEF TaskBecomes
<1>8. Untouched({p}, c)
  <2>1. ASSUME NEW d \in Cpus \ {c}
        PROVE  /\ rq[d].curr # p /\ p \notin Queued(d) /\ p \notin Queued(d)'
               /\ rq'[d] = rq[d]
    BY <1>1, <1>5, <1>7, RunsOnce DEF Queued, QueueBecomes
  <2> QED BY <1>2, <1>3, <1>5, <1>7, <2>1 DEF Untouched
<1>9. RQTypes'
  BY <1>2, <1>5, <1>7, NewTypes DEF RQTypes, QueueBecomes
<1>10. Counted(c)' /\ SleepersCounted'
  <2>1. /\ Count(p \in Queued(c)') = 1 /\ Count(p \in Queued(c)) = 0
        /\ Count(p \in Sleepers') = 0 /\ Count(p \in Sleepers) = Contributes(p)
    BY <1>1, <1>7 DEF Queued, Sleepers, Count, Contributes
  <2>2. /\ rq[c].nr_running \in Int /\ rq[c].nr_uninterruptible \in Int
        /\ Contributes(p) \in Int
    BY <1>2, QueueFields DEF Contributes
  <2>3. /\ r.nr_running = rq[c].nr_running + Count(p \in Queued(c)')
                                           - Count(p \in Queued(c))
        /\ r.nr_uninterruptible = rq[c].nr_uninterruptible
                                    + Count(p \in Sleepers') - Count(p \in Sleepers)
    BY <1>3, <2>1, <2>2
  <2> QED BY <1>2, <1>5, <1>7, <2>3, CountsStep
<1>11. TaskPlaced(p)'
  BY <1>1, <1>2, <1>7 DEF TaskPlaced, Off
<1>12. Pending(p)'
  <2>1. task_running(p) => \/ task[p].cpu \in task[p].allowed \/ p \in stray
                           \/ \E m \in moves : /\ m.task = p /\ m.at = task[p].cpu
                                               /\ m.dest \in task[p].allowed
    BY <1>2 DEF Pending
  <2> QED BY <1>1, <1>7, <2>1 DEF Pending
<1>13. Running(c)'
  <2>1. CASE rq[c].curr = p
    BY <1>1, <1>2, <1>3, <1>5, <1>7, <2>1 DEF Running, Off
  <2>2. CASE rq[c].curr # p
    BY <1>1, <1>2, <1>3, <1>5, <1>7, <2>2 DEF Running
  <2> QED BY <2>1, <2>2
<1>14. Told(c)'
  BY <1>3, <1>5 DEF Told
<1>15. Restored({p}, c)
  BY <1>9, <1>10, <1>11, <1>12, <1>13, <1>14 DEF Restored
<1> QED
  BY <1>8, <1>15, LocalStep

LEMMA ttwu_activateKeeps ==
  ASSUME RQInv, NEW p \in Tasks, ttwu_activate(p)
  PROVE  RQInv'
<1>1. /\ task[p].state = "W" /\ UNCHANGED <<online, active, moves, stray>>
      /\ task' = [task EXCEPT ![p].state = "R", ![p].on_rq = TRUE]
      /\ rq' = [rq EXCEPT ![task[p].cpu] = check_preempt_curr(activate_task(@, p))]
  BY DEF ttwu_activate
<1>2. /\ ~ task[p].on_rq /\ task[p].cpu \in online
      /\ task[p].cpu \in task[p].allowed
  BY <1>1 DEF RQInv, TaskPlaced, Off
<1>3. stray \subseteq stray' /\ stray' \subseteq Tasks
  BY <1>1 DEF RQInv, RQTypes
<1> QED
  BY <1>1, <1>2, <1>3, JoinKeeps

LEMMA ActivateNewTaskKeeps ==
  ASSUME RQInv, NEW p \in Tasks, ActivateNewTask(p)
  PROVE  RQInv'
<1>1. /\ task[p].state = "placed" /\ UNCHANGED <<online, active, moves>>
      /\ task' = [task EXCEPT ![p].state = "R", ![p].on_rq = TRUE]
      /\ rq' = [rq EXCEPT ![task[p].cpu] = check_preempt_curr(activate_task(@, p))]
      /\ stray' = IF task[p].cpu \in task[p].allowed THEN stray ELSE stray \cup {p}
  BY DEF ActivateNewTask
<1>2. ~ task[p].on_rq /\ task[p].cpu \in online
  BY <1>1 DEF RQInv, TaskPlaced, Off
<1>3. /\ stray \subseteq stray' /\ stray' \subseteq Tasks
      /\ task[p].cpu \in task[p].allowed \/ p \in stray'
  BY <1>1 DEF RQInv, RQTypes
<1> QED
  BY <1>1, <1>2, <1>3, JoinKeeps

(* A step of one task that no CPU runs and no queue has, before and after. *)
LEMMA AsideKeeps ==
  ASSUME RQInv, NEW p \in Tasks, NEW c \in Cpus, NEW r, QueueBecomes(c, r),
         ~ task[p].on_rq, \A d \in Cpus : rq[d].curr # p,
         task' \in [Tasks -> TaskRecords], ~ task'[p].on_rq,
         \A q \in Tasks \ {p} : task'[q] = task[q],
         UNCHANGED <<online, active, moves>>,
         stray \ {p} \subseteq stray', stray' \subseteq stray,
         r.curr = rq[c].curr, r.switching = rq[c].switching,
         r.resched = rq[c].resched, r.nr_running = rq[c].nr_running,
         r.nr_uninterruptible = rq[c].nr_uninterruptible
           + Count(task'[p].state = "U") - Count(task[p].state = "U"),
         TaskPlaced(p)'
  PROVE  RQInv'
<1>1. RQTypes /\ Running(c) /\ Told(c) /\ rq'[c] = r
  BY DEF RQInv, QueueBecomes
<1>2. Queued(c)' = Queued(c)
  BY DEF Queued
<1>3. Untouched({p}, c)
  BY <1>1 DEF Untouched, QueueBecomes, Queued
<1>4. RQTypes'
  BY <1>1, NewTypes DEF RQTypes, QueueBecomes
<1>5. Counted(c)' /\ SleepersCounted'
  <2>1. /\ Count(p \in Queued(c)') = Count(p \in Queued(c))
        /\ Count(p \in Queued(c)) \in Int
        /\ Count(p \in Sleepers') = Count(task'[p].state = "U")
        /\ Count(p \in Sleepers) = Count(task[p].state = "U")
    BY <1>2 DEF Sleepers, Count
  <2>2. rq[c].nr_running \in Int
    BY <1>1, QueueFields
  <2>3. /\ r.nr_running = rq[c].nr_running + Count(p \in Queued(c)')
                                           - Count(p \in Queued(c))
        /\ r.nr_uninterruptible = rq[c].nr_uninterruptible
                                    + Count(p \in Sleepers') - Count(p \in Sleepers)
    BY <2>1, <2>2
  <2> QED BY <2>3, CountsStep
<1>6. Pending(p)'
  <2>1. task'[p].cpu \in Cpus
    BY DEF TaskRecords
  <2>2. rq'[task'[p].cpu].curr # p
    BY <1>1, <2>1 DEF QueueBecomes
  <2> QED BY <2>2 DEF Pending, task_running
<1>7. Running(c)'
  BY <1>1 DEF Running
<1>8. Told(c)'
  BY <1>1, <1>2 DEF Told
<1>9. Restored({p}, c)
  BY <1>4, <1>5, <1>6, <1>7, <1>8 DEF Restored
<1> QED
  BY <1>3, <1>9, LocalStep

(* Where a task may be put is a CPU that is online and, but for a fallback *)
(* that widens the mask, in its mask.                                      *)
LEMMA SelectedCpu ==
  ASSUME RQTypes, NEW p \in Tasks,
         NEW where \in select_task_rq(p) \cup select_fallback_rq(p)
  PROVE  /\ where.cpu \in online /\ where.cpu \in Cpus
         /\ where.allowed \in SUBSET Cpus /\ where.cpu \in where.allowed
<1>1. /\ task[p].allowed \in SUBSET Cpus /\ online \subseteq Cpus
      /\ active \subseteq online
  BY TaskFields DEF RQTypes
<1>2. \/ where \in {[cpu |-> c, allowed |-> task[p].allowed] :
                       c \in task[p].allowed \cap online}
      \/ where \in {[cpu |-> c, allowed |-> task[p].allowed] :
                       c \in task[p].allowed \cap active}
      \/ where \in {[cpu |-> c, allowed |-> Cpus] : c \in active}
  BY DEF select_task_rq, select_fallback_rq
<1> QED
  BY <1>1, <1>2

LEMMA try_to_wake_upKeeps ==
  ASSUME RQInv, NEW p \in Tasks, NEW this \in Cpus, try_to_wake_up(p, this)
  PROVE  RQInv'
<1>1. PICK c : c = task[p].cpu
  OBVIOUS
<1>2. /\ RQTypes /\ c \in Cpus /\ rq[c] \in QueueRecords
      /\ TaskPlaced(p) /\ Pending(p) /\ Running(c) /\ Told(c)
  BY <1>1, TaskFields, QueueFields DEF RQInv
<1>3. /\ task[p].state \in {"I", "U"} /\ this \in online
      /\ UNCHANGED <<online, active, moves>>
  BY DEF try_to_wake_up
<1>4. CASE /\ task[p].on_rq
           /\ task' = [task EXCEPT ![p].state = "R"]
           /\ rq' = [rq EXCEPT ![c] = check_preempt_curr(@)]
           /\ UNCHANGED stray
  <2> DEFINE r == check_preempt_curr(rq[c])
  <2>1. /\ r \in QueueRecords /\ r.nr_running = rq[c].nr_running
        /\ r.nr_uninterruptible = rq[c].nr_uninterruptible
        /\ r.curr = rq[c].curr /\ r.switching = rq[c].switching
        /\ r.curr = Idle => r.resched
    BY <1>2, PreemptFields
  <2>2. rq' = [rq EXCEPT ![c] = r]
    BY <1>4
  <2> HIDE DEF r
  <2>3. QueueBecomes(c, r) /\ rq'[c] = r
    BY <1>2, <2>1, <2>2, QueueStep DEF QueueBecomes
  <2>4. TaskBecomes(p, "R", task[p].on_rq, task[p].cpu, task[p].allowed)
    BY <1>2, <1>4, StateStep
  <2>5. /\ task' \in [Tasks -> TaskRecords]
        /\ \A q \in Tasks \ {p} : task'[q] = task[q]
        /\ task'[p].state = "R" /\ task'[p].on_rq /\ task'[p].cpu = c
        /\ task'[p].allowed = task[p].allowed
        /\ task'[p].worker = task[p].worker
    BY <1>1, <1>4, <2>4 DEF TaskBecomes
  <2>6. Queued(c)' = Queued(c) /\ Sleepers' = Sleepers
    BY <1>1, <1>4, <2>5 DEF Queued, Sleepers
  <2>7. Untouched({p}, c)
    <3>1. ASSUME NEW d \in Cpus \ {c}
          PROVE  /\ rq[d].curr # p /\ p \notin Queued(d) /\ p \notin Queued(d)'
                 /\ rq'[d] = rq[d]
      BY <1>1, <2>3, <2>5, RunsOnce DEF Queued, QueueBecomes
    <3> QED BY <1>2, <1>3, <1>4, <2>1, <2>3, <2>5, <3>1 DEF Untouched
  <2>8. RQTypes'
    BY <1>2, <1>3, <1>4, <2>3, <2>5, NewTypes DEF RQTypes, QueueBecomes
  <2>9. Counted(c)' /\ SleepersCounted'
    BY <1>2, <2>1, <2>3, <2>6, CountsStay
  <2>10. TaskPlaced(p)'
    BY <1>1, <1>2, <1>3, <1>4, <2>5 DEF TaskPlaced, Off
  <2>11. Pending(p)'
    BY <1>1, <1>2, <1>3, <1>4, <2>5 DEF Pending
  <2>12. Running(c)'
    <3>1. CASE rq[c].curr = p
      BY <1>1, <1>2, <1>3, <1>4, <2>1, <2>3, <2>5, <3>1 DEF Running, Off
    <3>2. CASE rq[c].curr # p
      BY <1>2, <1>3, <2>1, <2>3, <2>5, <3>2 DEF Running
    <3> QED BY <3>1, <3>2
  <2>13. Told(c)'
    BY <2>1, <2>3 DEF Told
  <2>14. Restored({p}, c)
    BY <2>8, <2>9, <2>10, <2>11, <2>12, <2>13 DEF Restored
  <2> QED
    BY <2>7, <2>14, LocalStep
<1>5. CASE /\ ~ task[p].on_rq /\ task_running(p)
           /\ task' = [task EXCEPT ![p].state = "R", ![p].on_rq = TRUE]
           /\ rq' = [rq EXCEPT ![task[p].cpu] = check_preempt_curr(activate_task(@, p))]
           /\ UNCHANGED stray
  <2>1. task[p].cpu \in online
    BY <1>1, <1>2, <1>5 DEF Running, task_running
  <2>2. task[p].state \notin {"none", "forked"}
    BY <1>3
  <2>3. stray \subseteq stray' /\ stray' \subseteq Tasks
    BY <1>2, <1>5 DEF RQTypes
  <2> QED
    BY <1>3, <1>5, <2>1, <2>2, <2>3, JoinKeeps
<1>6. ASSUME ~ task[p].on_rq, ~ task_running(p), stray' = stray \ {p},
             NEW where \in select_task_rq(p), NEW x \in Cpus,
             task' = [task EXCEPT ![p].state = "W", ![p].cpu = where.cpu,
                                  ![p].allowed = where.allowed],
             rq' = [rq EXCEPT ![x].nr_uninterruptible = @ - Contributes(p)]
      PROVE  RQInv'
  <2>1. /\ where.cpu \in online /\ where.cpu \in Cpus
        /\ where.allowed \in SUBSET Cpus /\ where.cpu \in where.allowed
    BY <1>2, <1>6, SelectedCpu
  <2>2. TaskBecomes(p, "W", task[p].on_rq, where.cpu, where.allowed)
    <3>1. "W" \in Off
      BY DEF Off
    <3> QED BY <1>2, <1>6, <2>1, <3>1, PlaceStep
  <2>3. /\ task' \in [Tasks -> TaskRecords]
        /\ \A q \in Tasks \ {p} : task'[q] = task[q]
        /\ task'[p].state = "W" /\ ~ task'[p].on_rq /\ task'[p].cpu = where.cpu
        /\ task'[p].allowed = where.allowed
        /\ task'[p].worker = task[p].worker
    BY <1>6, <2>2 DEF TaskBecomes
  <2> DEFINE n == rq[x].nr_uninterruptible - Contributes(p)
             r == [rq[x] EXCEPT !.nr_uninterruptible = @ - Contributes(p)]
  <2>4. /\ rq[x] \in QueueRecords /\ n \in Int
        /\ n = rq[x].nr_uninterruptible
               + Count(task'[p].state = "U") - Count(task[p].state = "U")
    BY <1>2, <2>3, QueueFields DEF Contributes, Count
  <2>5. rq' = [rq EXCEPT ![x] = r]
    BY <1>6
  <2>a. r = [rq[x] EXCEPT !.nr_uninterruptible = n]
    OBVIOUS
  <2> HIDE DEF n, r
  <2>6. /\ r \in QueueRecords /\ r.nr_running = rq[x].nr_running
        /\ r.nr_uninterruptible = n /\ r.curr = rq[x].curr
        /\ r.switching = rq[x].switching /\ r.resched = rq[x].resched
    BY <2>4, <2>a DEF QueueRecords
  <2>7. QueueBecomes(x, r)
    BY <1>2, <2>5, <2>6, QueueStep
  <2>8. \A d \in Cpus : rq[d].curr # p
    BY <1>6, RunsOnce DEF task_running
  <2>9. TaskPlaced(p)'
    BY <1>3, <2>1, <2>3 DEF TaskPlaced
  <2>10. stray \ {p} \subseteq stray' /\ stray' \subseteq stray
    BY <1>6
  <2> QED
    BY <1>3, <1>6, <2>3, <2>4, <2>6, <2>7, <2>8, <2>9, <2>10, AsideKeeps
<1>7. \/ /\ task[p].on_rq
         /\ task' = [task EXCEPT ![p].state = "R"]
         /\ rq' = [rq EXCEPT ![c] = check_preempt_curr(@)]
         /\ UNCHANGED stray
      \/ /\ ~ task[p].on_rq /\ task_running(p)
         /\ task' = [task EXCEPT ![p].state = "R", ![p].on_rq = TRUE]
         /\ rq' = [rq EXCEPT ![c] = check_preempt_curr(activate_task(@, p))]
         /\ UNCHANGED stray
      \/ /\ ~ task[p].on_rq /\ ~ task_running(p)
         /\ rq' = [rq EXCEPT ![IF c \in online THEN c ELSE this].nr_uninterruptible
                     = @ - Contributes(p)]
         /\ \E where \in select_task_rq(p) :
              task' = [task EXCEPT ![p].state = "W", ![p].cpu = where.cpu,
                                   ![p].allowed = where.allowed]
         /\ stray' = stray \ {p}
  BY <1>1 DEF try_to_wake_up
<1>8. (IF c \in online THEN c ELSE this) \in Cpus
  BY <1>2
<1> QED
  BY <1>1, <1>4, <1>5, <1>6, <1>7, <1>8

LEMMA sched_forkKeeps ==
  ASSUME RQInv, NEW c \in Cpus, NEW p \in Tasks, NEW worker \in BOOLEAN,
         sched_fork(c, p, worker)
  PROVE  RQInv'
<1> DEFINE t == [state |-> "forked", on_rq |-> FALSE, cpu |-> c,
                 allowed |-> task[rq[c].curr].allowed, worker |-> worker]
<1>1. /\ rq[c].curr \in Tasks /\ task[p].state = "none"
      /\ task' = [task EXCEPT ![p] = t]
      /\ UNCHANGED <<rq, online, active, moves, stray>>
  BY DEF sched_fork
<1>2. RQTypes /\ rq[c] \in QueueRecords /\ TaskPlaced(p)
  BY QueueFields DEF RQInv
<1>3. task[rq[c].curr].allowed \in SUBSET Cpus
  BY <1>1, <1>2, TaskFields
<1>4. t \in TaskRecords /\ t.state = "forked" /\ ~ t.on_rq
  BY <1>3 DEF TaskRecords, Off
<1> HIDE DEF t
<1>5. /\ task' \in [Tasks -> TaskRecords] /\ task'[p] = t
      /\ \A q \in Tasks \ {p} : task'[q] = task[q]
  BY <1>1, <1>2, <1>4 DEF RQTypes
<1>6. ~ task[p].on_rq /\ \A d \in Cpus : rq[d].curr # p
  <2>1. ~ task[p].on_rq
    BY <1>1, <1>2 DEF TaskPlaced, Off
  <2>2. ASSUME NEW d \in Cpus, rq[d].curr = p  PROVE FALSE
    BY <1>1, <2>2, Runs DEF Off
  <2> QED BY <2>1, <2>2
<1>7. QueueBecomes(c, rq[c])
  BY <1>1, <1>2 DEF QueueBecomes, RQTypes
<1>8. rq[c].nr_uninterruptible = rq[c].nr_uninterruptible
        + Count(task'[p].state = "U") - Count(task[p].state = "U")
  BY <1>1, <1>2, <1>4, <1>5, QueueFields DEF Count
<1>9. TaskPlaced(p)'
  BY <1>4, <1>5 DEF TaskPlaced
<1>10. stray \ {p} \subseteq stray' /\ stray' \subseteq stray
  BY <1>1
<1> QED
  BY <1>1, <1>4, <1>5, <1>6, <1>7, <1>8, <1>9, <1>10, AsideKeeps

LEMMA PlaceNewTaskKeeps ==
  ASSUME RQInv, NEW p \in Tasks, PlaceNewTask(p)
  PROVE  RQInv'
<1>1. /\ task[p].state = "forked"
      /\ UNCHANGED <<rq, online, active, moves, stray>>
  BY DEF PlaceNewTask
<1>2. PICK where \in select_task_rq(p) :
        task' = [task EXCEPT ![p].state = "placed", ![p].cpu = where.cpu,
                             ![p].allowed = where.allowed]
  BY DEF PlaceNewTask
<1>3. RQTypes /\ TaskPlaced(p)
  BY DEF RQInv
<1>4. PICK c : c = task[p].cpu
  OBVIOUS
<1>5. c \in Cpus /\ rq[c] \in QueueRecords
  BY <1>3, <1>4, TaskFields, QueueFields
<1>6. /\ where.cpu \in online /\ where.cpu \in Cpus
      /\ where.allowed \in SUBSET Cpus /\ where.cpu \in where.allowed
  BY <1>3, SelectedCpu
<1>7. TaskBecomes(p, "placed", task[p].on_rq, where.cpu, where.allowed)
  <2>1. "placed" \in Off
    BY DEF Off
  <2> QED BY <1>2, <1>3, <1>6, <2>1, PlaceStep
<1>8. ~ task[p].on_rq /\ \A d \in Cpus : rq[d].curr # p
  <2>1. ~ task[p].on_rq
    BY <1>1, <1>3 DEF TaskPlaced, Off
  <2>2. ASSUME NEW d \in Cpus, rq[d].curr = p  PROVE FALSE
    BY <1>1, <2>2, Runs DEF Off
  <2> QED BY <2>1, <2>2
<1>9. /\ task' \in [Tasks -> TaskRecords]
      /\ \A q \in Tasks \ {p} : task'[q] = task[q]
      /\ task'[p].state = "placed" /\ ~ task'[p].on_rq
      /\ task'[p].cpu = where.cpu /\ task'[p].allowed = where.allowed
  BY <1>7, <1>8 DEF TaskBecomes
<1>10. QueueBecomes(c, rq[c])
  BY <1>1, <1>3, <1>5 DEF QueueBecomes, RQTypes
<1>11. rq[c].nr_uninterruptible = rq[c].nr_uninterruptible
         + Count(task'[p].state = "U") - Count(task[p].state = "U")
  BY <1>1, <1>3, <1>5, <1>9, QueueFields DEF Count
<1>12. TaskPlaced(p)'
  BY <1>1, <1>6, <1>9 DEF TaskPlaced
<1>13. stray \ {p} \subseteq stray' /\ stray' \subseteq stray
  BY <1>1
<1> QED
  BY <1>1, <1>5, <1>8, <1>9, <1>10, <1>11, <1>12, <1>13, AsideKeeps

LEMMA set_cpus_allowed_ptrKeeps ==
  ASSUME RQInv, NEW p \in Tasks, NEW mask \in SUBSET Cpus,
         set_cpus_allowed_ptr(p, mask)
  PROVE  RQInv'
<1>0. PICK c : c = task[p].cpu
  OBVIOUS
<1>1. /\ task[p].state \notin {"none", "W"} /\ ~ task[p].worker
      /\ task' = [task EXCEPT ![p].allowed = mask]
      /\ UNCHANGED <<rq, online, active, stray>>
  BY DEF set_cpus_allowed_ptr
<1>2. /\ RQTypes /\ TaskPlaced(p) /\ c \in Cpus /\ rq[c] \in QueueRecords
      /\ Running(c) /\ Told(c)
  BY <1>0, TaskFields, QueueFields DEF RQInv
<1>3. \/ /\ c \in mask \/ ~ migrate_task(p)
         /\ moves' = moves
      \/ /\ c \notin mask
         /\ \E dest \in active \cap mask : moves' = moves \cup {Request(p, dest)}
  BY <1>0 DEF set_cpus_allowed_ptr
<1>4. TaskBecomes(p, task[p].state, task[p].on_rq, task[p].cpu, mask)
  BY <1>1, <1>2, AllowedStep
<1>5. /\ task' \in [Tasks -> TaskRecords]
      /\ \A q \in Tasks \ {p} : task'[q] = task[q]
      /\ task'[p].state = task[p].state /\ task'[p].on_rq = task[p].on_rq
      /\ task'[p].cpu = c /\ task'[p].allowed = mask
      /\ task'[p].worker = task[p].worker
  BY <1>0, <1>4 DEF TaskBecomes
<1>6. /\ moves \subseteq moves' /\ moves' \subseteq Requests
      /\ c \notin mask /\ migrate_task(p) =>
           \E m \in moves' : m.task = p /\ m.at = c /\ m.dest \in mask
  <2>1. CASE moves' = moves /\ (c \in mask \/ ~ migrate_task(p))
    BY <1>2, <2>1 DEF RQTypes
  <2>2. CASE /\ c \notin mask
             /\ \E dest \in active \cap mask : moves' = moves \cup {Request(p, dest)}
    <3>1. PICK dest \in active \cap mask : moves' = moves \cup {Request(p, dest)}
      BY <2>2
    <3>2. dest \in Cpus /\ dest # c
      BY <1>2, <2>2
    <3>3. Request(p, dest) = [task |-> p, at |-> c, dest |-> dest]
      BY <1>0 DEF Request
    <3>4. Request(p, dest) \in Requests
      BY <1>2, <3>2, <3>3 DEF Requests
    <3> QED BY <1>2, <3>1, <3>3, <3>4 DEF RQTypes
  <2> QED BY <1>3, <2>1, <2>2
<1>7. \A d \in Cpus : Queued(d)' = Queued(d)
  BY <1>0, <1>5 DEF Queued
<1>8. Sleepers' = Sleepers
  BY <1>5 DEF Sleepers
<1>9. Untouched({p}, c)
  <2>1. ASSUME NEW d \in Cpus \ {c}
        PROVE  rq[d].curr # p /\ p \notin Queued(d) /\ p \notin Queued(d)'
    BY <1>0, <1>5, RunsOnce DEF Queued
  <2> QED BY <1>1, <1>2, <1>5, <1>6, <2>1 DEF Untouched
<1>10. RQTypes'
  BY <1>1, <1>2, <1>5, <1>6, NewTypes DEF RQTypes
<1>11. Counted(c)' /\ SleepersCounted'
  <2>1. QueueBecomes(c, rq[c])
    BY <1>1, <1>2 DEF RQTypes, QueueBecomes
  <2> QED BY <1>2, <1>7, <1>8, <2>1, CountsStay
<1>12. TaskPlaced(p)'
  BY <1>0, <1>1, <1>2, <1>5 DEF TaskPlaced
<1>13. Pending(p)'
  <2>1. task_running(p)' = task_running(p)
    BY <1>0, <1>1, <1>5 DEF task_running
  <2> QED BY <1>0, <1>1, <1>5, <1>6, <2>1 DEF Pending, migrate_task
<1>14. Running(c)' /\ Told(c)'
  <2>1. Running(c)'
    <3>1. rq[c].curr \in Tasks =>
            /\ task'[rq[c].curr].cpu = task[rq[c].curr].cpu
            /\ task'[rq[c].curr].state = task[rq[c].curr].state
            /\ task'[rq[c].curr].on_rq = task[rq[c].curr].on_rq
      BY <1>0, <1>5
    <3> QED BY <1>1, <1>2, <3>1 DEF Running
  <2>2. Told(c)'
    BY <1>1, <1>2, <1>7 DEF Told
  <2> QED BY <2>1, <2>2
<1>15. Restored({p}, c)
  BY <1>10, <1>11, <1>12, <1>13, <1>14 DEF Restored
<1> QED
  BY <1>9, <1>15, LocalStep

(* A step that leaves tasks and queues alone, loses no request and takes   *)
(* no CPU offline.                                                         *)
LEMMA MasksKeep ==
  ASSUME RQInv, UNCHANGED <<task, rq, stray>>, RQTypes',
         moves \subseteq moves', online \subseteq online'
  PROVE  RQInv'
<1>1. ASSUME NEW p \in Tasks  PROVE TaskPlaced(p)' /\ Pending(p)'
  <2>1. TaskPlaced(p) /\ Pending(p)
    BY DEF RQInv
  <2>2. TaskPlaced(p)'
    BY <2>1 DEF TaskPlaced
  <2>3. Pending(p)'
    BY <2>1 DEF Pending, task_running
  <2> QED BY <2>2, <2>3
<1>2. ASSUME NEW c \in Cpus  PROVE Running(c)' /\ Counted(c)' /\ Told(c)'
  <2>1. Running(c) /\ Counted(c) /\ Told(c) /\ Queued(c)' = Queued(c)
    BY DEF RQInv, Queued
  <2>2. Running(c)'
    BY <2>1 DEF Running
  <2> QED BY <2>1, <2>2 DEF Counted, Told
<1>3. SleepersCounted'
  BY DEF RQInv, SleepersCounted, Sleepers, NrSum
<1> QED
  BY <1>1, <1>2, <1>3, Zenon DEF RQInv

LEMMA sched_execKeeps ==
  ASSUME RQInv, NEW c \in Cpus, NEW dest \in Cpus, sched_exec(c, dest)
  PROVE  RQInv'
<1>1. PICK p : p = rq[c].curr
  OBVIOUS
<1>2. /\ p \in Tasks /\ dest # c /\ moves' = moves \cup {Request(p, dest)}
      /\ UNCHANGED <<task, rq, online, active, stray>>
  BY <1>1 DEF sched_exec
<1>3. task[p].cpu = c
  BY <1>1, <1>2, Runs
<1>4. Request(p, dest) \in Requests
  BY <1>2, <1>3 DEF Request, Requests
<1>5. RQTypes'
  BY <1>2, <1>4, NewTypes DEF RQTypes, RQInv
<1> QED
  BY <1>2, <1>5, MasksKeep

LEMMA CpuMasksKeep ==
  ASSUME RQInv, NEW c \in Cpus,
         sched_cpu_inactive(c) \/ sched_cpu_active(c) \/ CpuUp(c)
  PROVE  RQInv'
<1>1. RQTypes' /\ online \subseteq online' /\ moves \subseteq moves'
      /\ UNCHANGED <<task, rq, stray>>
  BY DEF RQInv, RQTypes, sched_cpu_inactive, sched_cpu_active, CpuUp
<1> QED
  BY <1>1, MasksKeep

(* A queued task that no CPU runs moves from c to d, in its mask. *)
LEMMA MoveKeeps ==
  ASSUME RQInv, NEW p \in Tasks, NEW c \in Cpus, NEW d \in Cpus, c # d,
         task[p].on_rq, task[p].cpu = c, rq[c].curr # p,
         d \in task[p].allowed, d \in active,
         task' = [task EXCEPT ![p].cpu = d], rq' = Moved(p, c, d),
         UNCHANGED <<online, active>>, moves' \subseteq moves,
         \A m \in moves : m.task # p => m \in moves',
         stray \ {p} \subseteq stray', stray' \subseteq stray
  PROVE  RQInv'
<1> DEFINE r == deactivate_task(rq[c], p)
           s == check_preempt_curr(activate_task(rq[d], p))
<1>1. /\ RQTypes /\ TaskPlaced(p) /\ SleepersCounted
      /\ rq[c] \in QueueRecords /\ rq[d] \in QueueRecords
      /\ rq \in [Cpus -> QueueRecords]
  BY QueueFields DEF RQInv, RQTypes
<1>2. /\ r \in QueueRecords /\ r.nr_running = rq[c].nr_running - 1
      /\ r.nr_uninterruptible = rq[c].nr_uninterruptible + Contributes(p)
      /\ r.curr = rq[c].curr /\ r.switching = rq[c].switching
      /\ r.resched = rq[c].resched
  BY <1>1, DeactivateFields
<1>3. /\ s \in QueueRecords /\ s.nr_running = rq[d].nr_running + 1
      /\ s.nr_uninterruptible = rq[d].nr_uninterruptible - Contributes(p)
      /\ s.curr = rq[d].curr /\ s.switching = rq[d].switching
      /\ s.curr = Idle => s.resched
  BY <1>1, WakesFields
<1>4. rq' = [rq EXCEPT ![c] = r, ![d] = s]
  BY DEF Moved
<1> HIDE DEF r, s
<1>5. /\ rq' \in [Cpus -> QueueRecords] /\ rq'[c] = r /\ rq'[d] = s
      /\ \A e \in Cpus \ {c, d} : rq'[e] = rq[e]
  BY <1>1, <1>2, <1>3, <1>4
<1>6. TaskBecomes(p, task[p].state, task[p].on_rq, d, task[p].allowed)
  BY <1>1, CpuStep
<1>7. /\ task' \in [Tasks -> TaskRecords]
      /\ \A q \in Tasks \ {p} : task'[q] = task[q]
      /\ task'[p].state = task[p].state /\ task'[p].on_rq
      /\ task'[p].cpu = d /\ task'[p].allowed = task[p].allowed
      /\ task'[p].worker = task[p].worker
  BY <1>6 DEF TaskBecomes
<1>8. \A e \in Cpus : /\ rq'[e].curr = rq[e].curr /\ rq[e].curr # p
                      /\ rq'[e].switching = rq[e].switching
  BY <1>2, <1>3, <1>5, RunsOnce
<1>9. RQTypes'
  BY <1>1, <1>5, <1>7, NewTypes DEF RQTypes
<1>10. ASSUME NEW q \in Tasks  PROVE TaskPlaced(q)' /\ Pending(q)'
  <2>1. TaskPlaced(q) /\ Pending(q) /\ online' = online
    BY DEF RQInv
  <2>2. CASE q = p
    <3>1. TaskPlaced(p)'
      BY <1>1, <1>7 DEF TaskPlaced, RQTypes
    <3>2. Pending(p)'
      BY <1>7 DEF Pending
    <3> QED BY <2>2, <3>1, <3>2
  <2>3. CASE q # p
    <3>1. task'[q] = task[q] /\ task[q].cpu \in Cpus
      BY <1>1, <1>7, <2>3, TaskFields
    <3>2. TaskPlaced(q)'
      BY <2>1, <3>1 DEF TaskPlaced
    <3>3. task_running(q)' = task_running(q)
      BY <1>8, <3>1 DEF task_running
    <3>4. Pending(q)'
      BY <2>1, <2>3, <3>1, <3>3 DEF Pending
    <3> QED BY <3>2, <3>4
  <2> QED BY <2>2, <2>3
<1>11. ASSUME NEW e \in Cpus  PROVE Running(e)' /\ Counted(e)' /\ Told(e)'
  <2>1. Running(e) /\ Counted(e) /\ Told(e) /\ online' = online
    BY DEF RQInv
  <2>2. Running(e)'
    <3>1. rq[e].curr \in Tasks => task'[rq[e].curr] = task[rq[e].curr]
      BY <1>7, <1>8
    <3> QED BY <1>8, <2>1, <3>1 DEF Running
  <2>3. /\ Cardinality(Queued(e)) \in Nat /\ Cardinality(Queued(e)') \in Nat
        /\ Cardinality(Queued(e)') = Cardinality(Queued(e))
             + Count(p \in Queued(e)') - Count(p \in Queued(e))
    BY <1>7, QueuedStep
  <2>4. /\ p \in Queued(e)' <=> e = d
        /\ p \in Queued(e) <=> e = c
    BY <1>7 DEF Queued
  <2>5. Counted(e)'
    <3>1. CASE e = c
      BY <1>2, <1>5, <2>1, <2>3, <2>4, <3>1 DEF Counted, Count
    <3>2. CASE e = d
      BY <1>3, <1>5, <2>1, <2>3, <2>4, <3>2 DEF Counted, Count
    <3>3. CASE e # c /\ e # d
      BY <1>5, <2>1, <2>3, <2>4, <3>3 DEF Counted, Count
    <3> QED BY <3>1, <3>2, <3>3
  <2>6. Told(e)'
    <3>1. CASE e = d
      BY <1>3, <1>5, <3>1 DEF Told
    <3>2. CASE e # d
      <4>1. Queued(e)' # {} => Queued(e) # {}
        BY <1>7, <3>2 DEF Queued
      <4>2. rq'[e].resched = rq[e].resched
        BY <1>2, <1>5, <3>2
      <4> QED BY <1>8, <2>1, <4>1, <4>2 DEF Told
    <3> QED BY <3>1, <3>2
  <2> QED BY <2>2, <2>5, <2>6
<1>12. SleepersCounted'
  <2>1. Sleepers' = Sleepers
    BY <1>7 DEF Sleepers
  <2> DEFINE f == rq
             g == [rq EXCEPT ![c] = r]
             h == rq'
  <2>2. /\ f \in [Cpus -> QueueRecords] /\ g \in [Cpus -> QueueRecords]
        /\ h \in [Cpus -> QueueRecords]
        /\ \A x \in Cpus \ {c} : g[x].nr_uninterruptible = f[x].nr_uninterruptible
        /\ \A x \in Cpus \ {d} : h[x].nr_uninterruptible = g[x].nr_uninterruptible
        /\ f[c] = rq[c] /\ g[c] = r /\ g[d] = rq[d] /\ h[d] = s
    BY <1>1, <1>2, <1>5
  <2>3. NrSum(rq)' = NrSum(h)
    BY DEF NrSum
  <2> HIDE DEF f, g, h
  <2>4. /\ NrSum(f) \in Int
        /\ NrSum(g) = NrSum(f) + g[c].nr_uninterruptible - f[c].nr_uninterruptible
    BY <2>2, NrSumStep
  <2>5. /\ NrSum(g) \in Int
        /\ NrSum(h) = NrSum(g) + h[d].nr_uninterruptible - g[d].nr_uninterruptible
    BY <2>2, NrSumStep
  <2>6. /\ rq[c].nr_uninterruptible \in Int /\ rq[d].nr_uninterruptible \in Int
        /\ Contributes(p) \in Int
    BY <1>1, QueueFields DEF Contributes
  <2>7. NrSum(h) = NrSum(f)
    <3> DEFINE x == Contributes(p)
               i == rq[c].nr_uninterruptible
               j == rq[d].nr_uninterruptible
    <3>1. NrSum(g) = NrSum(f) + (i + x) - i /\ NrSum(h) = NrSum(g) + (j - x) - j
      BY <1>2, <1>3, <2>2, <2>4, <2>5
    <3> HIDE DEF x, i, j
    <3>2. i \in Int /\ j \in Int /\ x \in Int
      BY <2>6 DEF i, j, x
    <3> QED BY <2>4, <2>5, <3>1, <3>2
  <2> QED BY <1>1, <2>1, <2>3, <2>7 DEF SleepersCounted, f
<1> QED
  BY <1>9, <1>10, <1>11, <1>12, Zenon DEF RQInv

LEMMA pull_taskKeeps ==
  ASSUME RQInv, NEW p \in Tasks, NEW d \in Cpus, pull_task(p, d)
  PROVE  RQInv'
<1>1. PICK c : c = task[p].cpu
  OBVIOUS
<1>2. c \in Cpus
  BY <1>1, TaskFields DEF RQInv
<1>3. /\ task[p].on_rq /\ rq[c].curr # p /\ c # d
      /\ d \in task[p].allowed /\ d \in active
      /\ task' = [task EXCEPT ![p].cpu = d] /\ rq' = Moved(p, c, d)
      /\ stray' = stray \ {p} /\ UNCHANGED <<online, active, moves>>
  BY <1>1 DEF pull_task, task_running
<1> QED
  BY <1>1, <1>2, <1>3, MoveKeeps

LEMMA migration_cpu_stopKeeps ==
  ASSUME RQInv, NEW m \in moves, migration_cpu_stop(m)
  PROVE  RQInv'
<1>1. PICK p, c, d : p = m.task /\ c = m.at /\ d = m.dest
  OBVIOUS
<1>2. /\ RQTypes /\ p \in Tasks /\ c \in Cpus /\ d \in Cpus /\ c # d
      /\ moves \subseteq Requests
  BY <1>1 DEF RQInv, RQTypes, Requests
<1>3. /\ rq[c].curr = Stop /\ moves' = moves \ {m}
      /\ UNCHANGED <<online, active>>
  BY <1>1 DEF migration_cpu_stop
<1>4. rq[c].curr # p
  BY <1>2, <1>3, RunQueueAssumption
<1>5. CASE Migrates(m)
  <2>1. /\ d \in active /\ task[p].cpu = c /\ task[p].on_rq
        /\ d \in task[p].allowed
    BY <1>1, <1>5 DEF Migrates
  <2>2. /\ task' = [task EXCEPT ![p].cpu = d] /\ rq' = Moved(p, c, d)
        /\ stray' = stray \ {p}
    BY <1>1, <1>5 DEF migration_cpu_stop
  <2>3. /\ moves' \subseteq moves /\ \A n \in moves : n.task # p => n \in moves'
        /\ stray \ {p} \subseteq stray' /\ stray' \subseteq stray
    BY <1>1, <1>3, <2>2
  <2> QED
    BY <1>2, <1>3, <1>4, <2>1, <2>2, <2>3, MoveKeeps
<1>6. CASE ~ Migrates(m)
  <2>1. /\ UNCHANGED <<task, rq>>
        /\ stray' = IF d \notin active THEN stray \cup {p} ELSE stray
    BY <1>1, <1>6 DEF migration_cpu_stop
  <2>2. ~ (/\ d \in active /\ task[p].cpu = c /\ task[p].on_rq
           /\ d \in task[p].allowed)
    BY <1>1, <1>6 DEF Migrates
  <2>3. Untouched({p}, task[p].cpu)
    <3>1. ASSUME NEW e \in Cpus \ {task[p].cpu}
          PROVE  rq[e].curr # p /\ p \notin Queued(e) /\ p \notin Queued(e)'
      BY <1>2, <2>1, RunsOnce DEF Queued
    <3>2. task[p].cpu \in Cpus
      BY <1>2, TaskFields
    <3> QED BY <1>1, <1>2, <1>3, <2>1, <3>1, <3>2 DEF Untouched
  <2>4. RQTypes'
    BY <1>2, <1>3, <2>1, NewTypes DEF RQTypes
  <2>5. ASSUME NEW e \in Cpus  PROVE Running(e)' /\ Counted(e)' /\ Told(e)'
    <3>1. /\ Running(e) /\ Counted(e) /\ Told(e) /\ Queued(e)' = Queued(e)
          /\ UNCHANGED <<task, rq, online>>
      BY <1>3, <2>1 DEF RQInv, Queued
    <3>2. Running(e)'
      BY <3>1 DEF Running
    <3> QED BY <3>1, <3>2 DEF Counted, Told
  <2>6. SleepersCounted'
    BY <2>1 DEF RQInv, SleepersCounted, Sleepers, NrSum
  <2>7. TaskPlaced(p)' /\ Pending(p)'
    <3>1. TaskPlaced(p) /\ Pending(p)
      BY <1>2 DEF RQInv
    <3>2. TaskPlaced(p)'
      BY <1>3, <2>1, <3>1 DEF TaskPlaced
    <3>3. SUFFICES ASSUME task[p].on_rq \/ task_running(p),
                          task[p].cpu \notin task[p].allowed, p \notin stray'
                   PROVE  \E n \in moves' : /\ n.task = p /\ n.at = task[p].cpu
                                            /\ n.dest \in task[p].allowed
      BY <2>1, <3>2 DEF Pending, task_running
    <3>4. p \notin stray /\ d \in active
      BY <2>1, <3>3
    <3>5. PICK n \in moves : /\ n.task = p /\ n.at = task[p].cpu
                             /\ n.dest \in task[p].allowed
      BY <3>1, <3>3, <3>4 DEF Pending
    <3>6. n # m
      <4>1. CASE task[p].cpu # c
        BY <1>1, <3>5, <4>1
      <4>2. CASE task[p].cpu = c
        <5>1. task[p].on_rq
          BY <1>4, <3>3, <4>2 DEF task_running
        <5> QED BY <1>1, <2>2, <3>4, <3>5, <4>2, <5>1
      <4> QED BY <4>1, <4>2
    <3> QED BY <1>3, <3>5, <3>6
  <2> QED
    BY <1>1, <1>2, <1>3, <2>1, <2>3, <2>4, <2>5, <2>6, <2>7, LocalStep,
       TaskFields DEF Restored
<1> QED
  BY <1>5, <1>6

-----------------------------------------------------------------------------
(* A CPU goes down. *)

(* The queue of a CPU that stays, when tasks of the dead one come to it.   *)
HeirQueue(r, n, k, new) ==
  LET t == [r EXCEPT !.nr_running = @ + n, !.nr_uninterruptible = @ + k]
  IN IF new = {} THEN t ELSE check_preempt_curr(t)

LEMMA HeirFields ==
  ASSUME NEW r \in QueueRecords, NEW n \in Int, NEW k \in Int, NEW new, NEW s,
         s = HeirQueue(r, n, k, new)
  PROVE  /\ s \in QueueRecords /\ s.nr_running = r.nr_running + n
         /\ s.nr_uninterruptible = r.nr_uninterruptible + k
         /\ s.curr = r.curr /\ s.switching = r.switching
         /\ new # {} /\ s.curr = Idle => s.resched
         /\ new = {} => s.resched = r.resched
<1> DEFINE i == r.nr_running + n
           j == r.nr_uninterruptible + k
           t == [r EXCEPT !.nr_running = @ + n, !.nr_uninterruptible = @ + k]
<1>1. i \in Int /\ j \in Int
  BY DEF QueueRecords
<1>2. t = [r EXCEPT !.nr_running = i, !.nr_uninterruptible = j]
  OBVIOUS
<1>a. s = IF new = {} THEN t ELSE check_preempt_curr(t)
  BY DEF HeirQueue
<1> HIDE DEF i, j, t
<1>3. /\ t \in QueueRecords /\ t.nr_running = i /\ t.nr_uninterruptible = j
      /\ t.curr = r.curr /\ t.switching = r.switching /\ t.resched = r.resched
  BY <1>1, <1>2 DEF QueueRecords
<1>4. CASE new # {}
  <2>1. s = check_preempt_curr(t)
    BY <1>4, <1>a
  <2>2. /\ s \in QueueRecords /\ s.nr_running = i /\ s.nr_uninterruptible = j
        /\ s.curr = r.curr /\ s.switching = r.switching
        /\ s.curr = Idle => s.resched
    BY <1>3, <2>1, PreemptFields
  <2> QED BY <1>4, <2>2 DEF i, j
<1>5. CASE new = {}
  BY <1>3, <1>5, <1>a DEF i, j
<1> QED
  BY <1>4, <1>5

(* What CpuDying(c) does, given where the tasks of c go and who inherits   *)
(* its counter.                                                            *)
Came(where, A, d) == {p \in A : where[p].cpu = d}
Awakened(A) == {p \in A : task[p].state = "U"}
Inherited(c, d, heir, A) ==
  IF d = heir THEN rq[c].nr_uninterruptible + Cardinality(Awakened(A)) ELSE 0
Dies(c, where, heir, A) ==
  /\ A = Queued(c) /\ heir \in active
  /\ \A p \in A : where[p] \in select_fallback_rq(p)
  /\ task' = [p \in Tasks |->
                IF p \notin A THEN task[p]
                ELSE [task[p] EXCEPT !.cpu = where[p].cpu,
                                     !.allowed = where[p].allowed]]
  /\ rq' \in [Cpus -> QueueRecords]
  /\ \A d \in Cpus \ {c} :
       /\ rq'[d].nr_running = rq[d].nr_running + Cardinality(Came(where, A, d))
       /\ rq'[d].nr_uninterruptible = rq[d].nr_uninterruptible
            + (Inherited(c, d, heir, A)
               - Cardinality(Came(where, A, d) \cap Awakened(A)))
       /\ rq'[d].curr = rq[d].curr /\ rq'[d].switching = rq[d].switching
       /\ Came(where, A, d) # {} /\ rq'[d].curr = Idle => rq'[d].resched
       /\ Came(where, A, d) = {} => rq'[d].resched = rq[d].resched
  /\ rq'[c] = [nr_running |-> 0, nr_uninterruptible |-> 0, curr |-> Idle,
               resched |-> FALSE, switching |-> FALSE]

LEMMA CpuDies ==
  ASSUME RQInv, NEW c \in Cpus, CpuDying(c)
  PROVE  \E where, heir, A : Dies(c, where, heir, A)
<1> DEFINE A == Queued(c)
           awake == Awakened(A)
           came(w, d) == Came(w, A, d)
           Queue(w, h, d) ==
             [rq[d] EXCEPT
                !.nr_running = @ + Cardinality(came(w, d)),
                !.nr_uninterruptible = @ - Cardinality(came(w, d) \cap awake)
                  + (IF d = h THEN rq[c].nr_uninterruptible
                                   + Cardinality(awake) ELSE 0)]
<1>2. PICK where \in [A -> [cpu : active, allowed : SUBSET Cpus]], heir \in active :
        /\ \A p \in A : where[p] \in select_fallback_rq(p)
        /\ task' = [p \in Tasks |->
                      IF p \notin A THEN task[p]
                      ELSE [task[p] EXCEPT !.cpu = where[p].cpu,
                                           !.allowed = where[p].allowed]]
        /\ rq' = [d \in Cpus |->
                    IF d = c THEN [nr_running |-> 0, nr_uninterruptible |-> 0,
                                   curr |-> Idle, resched |-> FALSE,
                                   switching |-> FALSE]
                    ELSE IF came(where, d) = {} THEN Queue(where, heir, d)
                         ELSE check_preempt_curr(Queue(where, heir, d))]
  BY DEF CpuDying, Came, Awakened
<1>1. A = Queued(c)
  OBVIOUS
<1> HIDE DEF A, came, awake, Queue
<1>3. RQTypes /\ IsFiniteSet(A) /\ A \subseteq Tasks
  BY <1>1, RunQueueAssumption, FS_Subset DEF Queued, RQInv
<1>4. Cardinality(awake) \in Nat
  BY <1>3, FS_Subset, FS_CardinalityType DEF Awakened, awake
<1>5. ASSUME NEW d \in Cpus \ {c}
      PROVE  /\ rq'[d] \in QueueRecords
             /\ rq'[d].nr_running = rq[d].nr_running + Cardinality(Came(where, A, d))
             /\ rq'[d].nr_uninterruptible = rq[d].nr_uninterruptible
                  + (Inherited(c, d, heir, A)
                     - Cardinality(Came(where, A, d) \cap Awakened(A)))
             /\ rq'[d].curr = rq[d].curr /\ rq'[d].switching = rq[d].switching
             /\ Came(where, A, d) # {} /\ rq'[d].curr = Idle => rq'[d].resched
             /\ Came(where, A, d) = {} => rq'[d].resched = rq[d].resched
  <2> DEFINE n == Cardinality(came(where, d))
             gone == Cardinality(came(where, d) \cap awake)
             i == Inherited(c, d, heir, A)
             k == i - gone
             new == came(where, d)
             r == rq[d]
             t == [r EXCEPT !.nr_running = @ + n, !.nr_uninterruptible = @ + k]
             s == rq'[d]
  <2>1. n \in Nat /\ gone \in Nat
    BY <1>3, FS_Subset, FS_CardinalityType DEF came, Came
  <2>2. i \in Int
    BY <1>3, <1>4, QueueFields DEF Inherited, awake
  <2>3. r \in QueueRecords /\ k \in Int /\ n \in Int
    BY <1>3, <2>1, <2>2, QueueFields
  <2>4. Queue(where, heir, d) = t
    <3> DEFINE x == r.nr_uninterruptible - gone + i
               y == r.nr_uninterruptible + k
    <3>1. Queue(where, heir, d) = [r EXCEPT !.nr_running = @ + n,
                                            !.nr_uninterruptible = x]
      BY DEF Queue, Inherited, awake
    <3>2. x = y
      <4>1. r.nr_uninterruptible \in Int
        BY <1>3, QueueFields
      <4> HIDE DEF r, gone, i
      <4> QED BY <2>1, <2>2, <4>1
    <3>3. t = [r EXCEPT !.nr_running = @ + n, !.nr_uninterruptible = y]
      OBVIOUS
    <3> HIDE DEF x, y, t
    <3> QED BY <3>1, <3>2, <3>3
  <2>5. s = HeirQueue(r, n, k, new)
    <3>1. s = IF new = {} THEN t ELSE check_preempt_curr(t)
      <4> HIDE DEF t
      <4> QED BY <1>2, <2>4
    <3> QED BY <3>1 DEF HeirQueue
  <2> HIDE DEF n, gone, i, r, new
  <2>6. /\ s \in QueueRecords /\ s.nr_running = r.nr_running + n
        /\ s.nr_uninterruptible = r.nr_uninterruptible + k
        /\ s.curr = r.curr /\ s.switching = r.switching
        /\ new # {} /\ s.curr = Idle => s.resched
        /\ new = {} => s.resched = r.resched
    <3> HIDE DEF s, k
    <3> QED BY <2>3, <2>5, HeirFields
  <2> HIDE DEF s, k
  <2> QED
    BY <2>6 DEF n, gone, i, k, r, s, new, came, awake
<1>6. rq'[c] = [nr_running |-> 0, nr_uninterruptible |-> 0, curr |-> Idle,
                resched |-> FALSE, switching |-> FALSE]
  BY <1>2
<1>7. rq' \in [Cpus -> QueueRecords]
  <2>1. rq'[c] \in QueueRecords
    BY <1>6 DEF QueueRecords
  <2>2. \A d \in Cpus : rq'[d] \in QueueRecords
    BY <1>5, <2>1
  <2>3. DOMAIN rq' = Cpus /\ rq' = [d \in DOMAIN rq' |-> rq'[d]]
    BY <1>2
  <2> QED BY <2>2, <2>3
<1>8. Dies(c, where, heir, A)
  BY <1>1, <1>2, <1>5, <1>6, <1>7 DEF Dies
<1> QED
  BY <1>8

LEMMA CpuDyingKeeps ==
  ASSUME RQInv, NEW c \in Cpus, CpuDying(c)
  PROVE  RQInv'
<1>1. PICK where, heir, A : Dies(c, where, heir, A)
  BY CpuDies
<1>2. /\ c \in online \ active /\ StopMachine /\ stray' = stray \ A
      /\ online' = online \ {c} /\ moves' = {m \in moves : m.at # c}
      /\ active' = active
  BY <1>1 DEF CpuDying, Dies
<1>3. /\ RQTypes /\ SleepersCounted /\ A \subseteq Tasks /\ IsFiniteSet(A)
      /\ A = Queued(c) /\ heir \in active
      /\ task \in [Tasks -> TaskRecords] /\ rq \in [Cpus -> QueueRecords]
      /\ active \subseteq Cpus /\ active \subseteq online
  BY <1>1, RunQueueAssumption, FS_Subset DEF Dies, Queued, RQInv, RQTypes
<1>4. \A p \in A : /\ where[p].cpu \in active /\ where[p].allowed \in SUBSET Cpus
                   /\ where[p].cpu \in where[p].allowed
  <2> SUFFICES ASSUME NEW p \in A
               PROVE  /\ where[p].cpu \in active /\ where[p].allowed \in SUBSET Cpus
                      /\ where[p].cpu \in where[p].allowed
    OBVIOUS
  <2>1. task[p].allowed \in SUBSET Cpus
    BY <1>3, TaskFields
  <2>2. where[p] \in select_fallback_rq(p)
    BY <1>1 DEF Dies
  <2> QED BY <1>3, <2>1, <2>2 DEF select_fallback_rq
<1>5. ASSUME NEW p \in Tasks \ A  PROVE task'[p] = task[p]
  BY <1>1 DEF Dies
<1>6. ASSUME NEW p \in A
      PROVE  /\ task'[p] \in TaskRecords /\ task'[p].state = task[p].state
             /\ task'[p].on_rq = task[p].on_rq /\ task'[p].worker = task[p].worker
             /\ task'[p].cpu = where[p].cpu /\ task'[p].allowed = where[p].allowed
             /\ task[p].on_rq /\ task[p].cpu = c
  <2> DEFINE a == where[p].cpu
             b == where[p].allowed
             t == task[p]
  <2>1. task'[p] = [t EXCEPT !.cpu = a, !.allowed = b]
    BY <1>1, <1>3 DEF Dies
  <2>2. t \in TaskRecords /\ a \in Cpus /\ b \in SUBSET Cpus
    BY <1>3, <1>4
  <2>3. t.on_rq /\ t.cpu = c
    BY <1>3 DEF Queued
  <2> HIDE DEF a, b, t
  <2>4. /\ task'[p] \in TaskRecords /\ task'[p].state = t.state
        /\ task'[p].on_rq = t.on_rq /\ task'[p].worker = t.worker
        /\ task'[p].cpu = a /\ task'[p].allowed = b
    BY <2>1, <2>2 DEF TaskRecords
  <2> QED BY <2>3, <2>4 DEF a, b, t
<1>7. task' \in [Tasks -> TaskRecords]
  <2>1. \A p \in Tasks : task'[p] \in TaskRecords
    BY <1>3, <1>5, <1>6
  <2>2. DOMAIN task' = Tasks /\ task' = [p \in DOMAIN task' |-> task'[p]]
    BY <1>1 DEF Dies
  <2> QED BY <2>1, <2>2
<1>8. \A p \in Tasks : /\ task'[p].state = task[p].state
                       /\ task'[p].on_rq = task[p].on_rq
                       /\ task'[p].worker = task[p].worker
  BY <1>5, <1>6
<1>9. ASSUME NEW d \in Cpus \ {c}
      PROVE  /\ rq'[d].nr_running = rq[d].nr_running + Cardinality(Came(where, A, d))
             /\ rq'[d].nr_uninterruptible = rq[d].nr_uninterruptible
                  + (Inherited(c, d, heir, A)
                     - Cardinality(Came(where, A, d) \cap Awakened(A)))
             /\ rq'[d].curr = rq[d].curr /\ rq'[d].switching = rq[d].switching
             /\ Came(where, A, d) # {} /\ rq'[d].curr = Idle => rq'[d].resched
             /\ Came(where, A, d) = {} => rq'[d].resched = rq[d].resched
  BY <1>1 DEF Dies
<1>10. /\ rq'[c].nr_running = 0 /\ rq'[c].nr_uninterruptible = 0
       /\ rq'[c].curr = Idle /\ ~ rq'[c].switching
       /\ rq' \in [Cpus -> QueueRecords]
  <2>1. /\ rq'[c] = [nr_running |-> 0, nr_uninterruptible |-> 0, curr |-> Idle,
                     resched |-> FALSE, switching |-> FALSE]
        /\ rq' \in [Cpus -> QueueRecords]
    BY <1>1 DEF Dies
  <2> QED BY <2>1
<1>11. RQTypes'
  <2>1. active' # {} /\ active' \subseteq online' /\ online' \subseteq Cpus
    BY <1>2, <1>3 DEF RQTypes
  <2>2. moves' \subseteq Requests /\ stray' \subseteq Tasks
    BY <1>2, <1>3 DEF RQTypes
  <2> QED BY <1>7, <1>10, <2>1, <2>2 DEF RQTypes
<1>12. ASSUME NEW p \in Tasks  PROVE TaskPlaced(p)' /\ Pending(p)'
  <2>1. TaskPlaced(p) /\ Pending(p) /\ task[p].state \notin {"W", "placed"}
    BY <1>2 DEF RQInv, StopMachine
  <2>2. CASE p \in A
    <3>1. task'[p].cpu \in task'[p].allowed /\ task'[p].cpu \in online'
      BY <1>2, <1>3, <1>4, <1>6, <2>2
    <3> QED BY <1>8, <2>1, <3>1 DEF TaskPlaced, Pending
  <2>3. CASE p \notin A
    <3>1. task'[p] = task[p]
      BY <1>5, <2>3
    <3>2. task[p].on_rq => task[p].cpu # c
      BY <1>3, <2>3 DEF Queued
    <3>3. TaskPlaced(p)'
      BY <1>2, <2>1, <3>1, <3>2 DEF TaskPlaced
    <3>4. task_running(p)' => task_running(p) /\ task[p].cpu # c
      <4>1. task[p].cpu \in Cpus
        BY <1>3, TaskFields
      <4>2. CASE task[p].cpu = c
        BY <1>10, <3>1, <4>2, RunQueueAssumption DEF task_running
      <4>3. CASE task[p].cpu # c
        BY <1>9, <3>1, <4>1, <4>3 DEF task_running
      <4> QED BY <4>2, <4>3
    <3>5. Pending(p)'
      <4> SUFFICES ASSUME task[p].on_rq \/ task_running(p)',
                          task[p].cpu \notin task[p].allowed, p \notin stray'
                   PROVE  \E n \in moves' : /\ n.task = p /\ n.at = task[p].cpu
                                            /\ n.dest \in task[p].allowed
        BY <3>1 DEF Pending
      <4>1. p \notin stray
        BY <1>2, <2>3
      <4>2. PICK n \in moves : /\ n.task = p /\ n.at = task[p].cpu
                               /\ n.dest \in task[p].allowed
        BY <2>1, <3>4, <4>1 DEF Pending
      <4>3. n.at # c
        BY <3>2, <3>4, <4>2
      <4> QED BY <1>2, <4>2, <4>3
    <3> QED BY <3>3, <3>5
  <2> QED BY <2>2, <2>3
<1>13. ASSUME NEW d \in Cpus  PROVE Running(d)' /\ Counted(d)' /\ Told(d)'
  <2>1. /\ Running(d) /\ Counted(d) /\ Told(d)
        /\ ~ rq[d].switching /\ rq[d].nr_running \in Int
    BY <1>2, <1>3, QueueFields DEF RQInv, StopMachine
  <2>2. CASE d = c
    <3>1. Queued(c)' = {}
      BY <1>2, <1>3, <1>4, <1>5, <1>6 DEF Queued
    <3>2. Running(c)'
      BY <1>10, RunQueueAssumption DEF Running
    <3>3. Counted(c)'
      <4>1. Cardinality(Queued(c)') = 0
        BY <3>1, FS_EmptySet
      <4> QED BY <1>10, <4>1 DEF Counted
    <3>4. Told(c)'
      BY <3>1 DEF Told
    <3> QED BY <2>2, <3>2, <3>3, <3>4
  <2>3. CASE d # c
    <3> DEFINE came == Came(where, A, d)
    <3>1. Queued(d)' = Queued(d) \cup came /\ Queued(d) \cap came = {}
      BY <1>3, <1>5, <1>6, <2>3 DEF Queued, Came
    <3>2. IsFiniteSet(Queued(d)) /\ IsFiniteSet(came)
      BY <1>3, RunQueueAssumption, FS_Subset DEF Queued, Came
    <3>3. Running(d)'
      <4>1. rq[d].curr \in Tasks => task'[rq[d].curr] = task[rq[d].curr]
        BY <1>3, <1>5, <2>1, <2>3 DEF Running, Queued
      <4> QED BY <1>9, <2>1, <2>3, <4>1 DEF Running
    <3>4. Counted(d)'
      <4> DEFINE Q == Queued(d)
      <4> HIDE DEF came, Q
      <4>1. Cardinality(Q \cup came) = Cardinality(Q) + Cardinality(came)
                                         - Cardinality(Q \cap came)
        BY <3>2, FS_Union DEF Q
      <4>2. Cardinality({}) = 0 /\ Cardinality(Q) \in Nat /\ Cardinality(came) \in Nat
        BY <3>2, FS_EmptySet, FS_CardinalityType DEF Q
      <4>a. Queued(d)' = Q \cup came /\ Q \cap came = {}
        BY <3>1 DEF Q
      <4>b. Cardinality(Queued(d)') = Cardinality(Q) + Cardinality(came) - Cardinality({})
        BY <4>1, <4>a
      <4>3. Cardinality(Queued(d)') = Cardinality(Queued(d)) + Cardinality(came)
        BY <4>2, <4>b DEF Q
      <4> QED BY <1>9, <2>1, <2>3, <4>3 DEF Counted, came
    <3>5. Told(d)'
      <4>1. CASE came = {}
        BY <1>9, <2>1, <2>3, <3>1, <4>1 DEF Told
      <4>2. CASE came # {}
        BY <1>9, <2>3, <4>2 DEF Told
      <4> QED BY <4>1, <4>2
    <3> QED BY <3>3, <3>4, <3>5
  <2> QED BY <2>2, <2>3
<1>14. SleepersCounted'
  <2> DEFINE U == Awakened(A)
             u == Cardinality(U)
             n == rq[c].nr_uninterruptible
             w == [p \in U |-> where[p].cpu]
             f == [d \in Cpus |-> rq[d].nr_uninterruptible]
             g == [f EXCEPT ![c] = 0]
             h == [g EXCEPT ![heir] = f[heir] + n + u]
             k == [d \in Cpus |-> h[d] - Cardinality({p \in U : w[p] = d})]
             new == [d \in Cpus |-> rq'[d].nr_uninterruptible]
  <2>1. Sleepers' = Sleepers
    BY <1>8 DEF Sleepers
  <2>2. IsFiniteSet(U) /\ u \in Nat /\ w \in [U -> Cpus]
    <3>1. IsFiniteSet(U) /\ U \subseteq A
      BY <1>3, FS_Subset DEF Awakened
    <3> QED BY <1>3, <1>4, <3>1, FS_CardinalityType
  <2>3. f \in [Cpus -> Int] /\ n \in Int /\ n = f[c]
    BY <1>3, QueueFields
  <2>4. heir \in Cpus /\ heir # c
    BY <1>2, <1>3
  <2>5. \A d \in Cpus : {p \in U : w[p] = d} = Came(where, A, d) \cap U
    BY DEF Came, Awakened
  <2>6. \A d \in Cpus : new[d] = k[d]
    <3> SUFFICES ASSUME NEW d \in Cpus
                 PROVE  rq'[d].nr_uninterruptible = h[d] - Cardinality(Came(where, A, d) \cap U)
      BY <2>5
    <3> DEFINE gone == Cardinality(Came(where, A, d) \cap U)
    <3>1. gone \in Nat
      BY <2>2, FS_Subset, FS_CardinalityType
    <3>2. CASE d = c
      <4>1. Came(where, A, d) \cap U = {}
        BY <1>2, <1>4, <3>2 DEF Came
      <4>2. gone = 0
        BY <4>1, FS_EmptySet
      <4>3. h[d] = 0
        BY <2>3, <2>4, <3>2
      <4> QED BY <1>10, <3>2, <4>2, <4>3
    <3>3. CASE d = heir
      <4>1. rq'[d].nr_uninterruptible = f[d] + ((n + u) - gone)
        BY <1>9, <2>4, <3>3 DEF Inherited
      <4>2. h[d] = f[d] + n + u
        BY <2>3, <2>4, <3>3
      <4>3. f[d] \in Int
        BY <2>3
      <4> HIDE DEF h, f, n, u, gone
      <4> QED BY <2>2, <2>3, <3>1, <4>1, <4>2, <4>3 DEF gone
    <3>4. CASE d # c /\ d # heir
      <4>1. rq'[d].nr_uninterruptible = f[d] + (0 - gone)
        BY <1>9, <3>4 DEF Inherited
      <4>2. h[d] = f[d]
        BY <2>3, <3>4
      <4>3. f[d] \in Int
        BY <2>3
      <4> HIDE DEF h, f, gone
      <4> QED BY <3>1, <4>1, <4>2, <4>3 DEF gone
    <3> QED BY <3>2, <3>3, <3>4
  <2>7. new = k
    <3> HIDE DEF h, w, U
    <3> QED BY <2>6
  <2>8. NrSum(rq) = SumFunction(f) /\ NrSum(rq)' = SumFunction(new)
    BY DEF NrSum
  <2>9. /\ g \in [Cpus -> Int] /\ \A d \in Cpus \ {c} : g[d] = f[d]
        /\ g[c] = 0 /\ g[heir] = f[heir]
    BY <2>3, <2>4
  <2>10. /\ h \in [Cpus -> Int] /\ \A d \in Cpus \ {heir} : h[d] = g[d]
         /\ h[heir] = f[heir] + n + u
    <3>1. f[heir] + n + u \in Int
      BY <2>2, <2>3, <2>4
    <3> HIDE DEF f, g, n, u
    <3> QED BY <2>4, <2>9, <3>1
  <2>11. f[heir] \in Int
    BY <2>3, <2>4
  <2> HIDE DEF f, g, h, n, u, w, U, new
  <2>12. SumFunction(f) \in Int /\ SumFunction(g) = SumFunction(f) + g[c] - f[c]
    BY <2>3, <2>9, RunQueueAssumption, SumStep
  <2>13. SumFunction(h) = SumFunction(g) + h[heir] - g[heir]
    BY <2>4, <2>9, <2>10, RunQueueAssumption, SumStep
  <2>14. SumFunction(h) = SumFunction(f) + u
    BY <2>2, <2>3, <2>9, <2>10, <2>11, <2>12, <2>13
  <2>15. SumFunction(k) = SumFunction(h) - u
    <3>1. SumFunction(k) = SumFunction(h) - Cardinality(U)
      BY <2>2, <2>10, RunQueueAssumption, SpreadSum
    <3> QED BY <3>1 DEF u
  <2>16. SumFunction(k) = SumFunction(f)
    <3> HIDE DEF k
    <3> QED BY <2>2, <2>12, <2>14, <2>15
  <2>17. NrSum(rq)' = NrSum(rq)
    BY <2>7, <2>8, <2>16
  <2> QED
    BY <1>3, <2>1, <2>17 DEF SleepersCounted
<1> QED
  BY <1>11, <1>12, <1>13, <1>14, Zenon DEF RQInv

-----------------------------------------------------------------------------
LEMMA RQInitHolds == RQInit => RQInv
<1> SUFFICES ASSUME RQInit  PROVE RQInv
  OBVIOUS
<1>1. PICK p \in Tasks, c \in Cpus, worker \in BOOLEAN :
        /\ task = [t \in Tasks |->
                     IF t = p THEN [state |-> "R", on_rq |-> TRUE, cpu |-> c,
                                    allowed |-> Cpus, worker |-> worker]
                              ELSE NoTask]
        /\ rq = [d \in Cpus |-> [nr_running |-> IF d = c THEN 1 ELSE 0,
                                 nr_uninterruptible |-> 0,
                                 curr |-> IF d = c THEN p ELSE Idle,
                                 resched |-> FALSE, switching |-> FALSE]]
        /\ online = Cpus /\ active = Cpus /\ moves = {} /\ stray = {}
  BY DEF RQInit
<1>2. /\ NoTask \in TaskRecords /\ NoTask.state = "none"
      /\ NoTask.on_rq = FALSE /\ NoTask.worker = FALSE
  BY RunQueueAssumption DEF NoTask, TaskRecords, Off
<1>3. /\ task[p] \in TaskRecords /\ task[p].state = "R" /\ task[p].on_rq
      /\ task[p].cpu = c /\ task[p].allowed = Cpus
      /\ \A q \in Tasks \ {p} : task[q] = NoTask
      /\ task \in [Tasks -> TaskRecords]
  BY <1>1, <1>2 DEF TaskRecords
<1>4. \A d \in Cpus : /\ rq[d] \in QueueRecords
                      /\ rq[d].nr_running = IF d = c THEN 1 ELSE 0
                      /\ rq[d].nr_uninterruptible = 0
                      /\ rq[d].curr = IF d = c THEN p ELSE Idle
                      /\ ~ rq[d].switching
  BY <1>1 DEF QueueRecords
<1>5. RQTypes
  <2>1. rq \in [Cpus -> QueueRecords]
    BY <1>1, <1>4
  <2> QED BY <1>1, <1>3, <2>1, RunQueueAssumption DEF RQTypes
<1>6. ASSUME NEW q \in Tasks  PROVE TaskPlaced(q) /\ Pending(q)
  <2>1. CASE q = p
    BY <1>1, <1>3, <2>1 DEF TaskPlaced, Pending, Off
  <2>2. CASE q # p
    <3>1. task[q] = NoTask
      BY <1>3, <2>2
    <3>2. TaskPlaced(q)
      BY <1>2, <3>1 DEF TaskPlaced
    <3>3. ~ task_running(q)
      <4>1. task[q].cpu \in Cpus
        BY <1>5, TaskFields
      <4> QED BY <1>4, <2>2, <4>1, RunQueueAssumption DEF task_running
    <3> QED BY <1>2, <3>1, <3>2, <3>3 DEF Pending
  <2> QED BY <2>1, <2>2
<1>7. ASSUME NEW d \in Cpus  PROVE Running(d) /\ Counted(d) /\ Told(d)
  <2>1. CASE d = c
    <3>1. Queued(c) = {p}
      BY <1>2, <1>3 DEF Queued
    <3>2. Counted(c)
      <4>1. Cardinality(Queued(c)) = 1
        BY <3>1, FS_Singleton
      <4> QED BY <1>4, <4>1 DEF Counted
    <3> QED BY <1>3, <1>4, <2>1, <3>2, RunQueueAssumption DEF Running, Told, Off
  <2>2. CASE d # c
    <3>1. Queued(d) = {}
      BY <1>2, <1>3, <2>2 DEF Queued
    <3>2. Counted(d)
      <4>1. Cardinality(Queued(d)) = 0
        BY <3>1, FS_EmptySet
      <4> QED BY <1>4, <2>2, <4>1 DEF Counted
    <3> QED BY <1>4, <2>2, <3>1, <3>2, RunQueueAssumption DEF Running, Told
  <2> QED BY <2>1, <2>2
<1>8. SleepersCounted
  <2>1. Sleepers = {}
    BY <1>2, <1>3 DEF Sleepers
  <2>2. Cardinality(Sleepers) = 0
    BY <2>1, FS_EmptySet
  <2> DEFINE f == [d \in Cpus |-> rq[d].nr_uninterruptible]
  <2>3. f \in [Cpus -> Int] /\ \A d \in Cpus : f[d] = 0
    BY <1>4
  <2>4. NrSum(rq) = SumFunction(f)
    BY DEF NrSum
  <2> HIDE DEF f
  <2>5. SumFunction(f) = 0
    BY <2>3, RunQueueAssumption, ZeroSum
  <2> QED BY <2>2, <2>4, <2>5 DEF SleepersCounted
<1> QED
  BY <1>5, <1>6, <1>7, <1>8, Zenon DEF RQInv

LEMMA RQNextKeeps == RQInv /\ [RQNext]_rqVars => RQInv'
<1> SUFFICES ASSUME RQInv, [RQNext]_rqVars  PROVE RQInv'
  OBVIOUS
<1>1. CASE UNCHANGED rqVars
  <2>1. UNCHANGED <<task, rq, stray>> /\ moves \subseteq moves' /\ online \subseteq online'
    BY <1>1 DEF rqVars
  <2>2. RQTypes'
    BY <1>1 DEF RQInv, RQTypes, rqVars
  <2> QED BY <2>1, <2>2, MasksKeep
<1>2. ASSUME NEW c \in Cpus,
             \/ Preempt(c) \/ ScheduleSignalled(c) \/ ScheduleSleeps(c)
             \/ ScheduleSwitches(c) \/ StopTaskRuns(c)
             \/ sched_cpu_inactive(c) \/ sched_cpu_active(c) \/ CpuUp(c) \/ CpuDying(c)
             \/ \E s \in {"R", "I", "U", "dead"} : SetState(c, s)
             \/ \E p \in Tasks, worker \in BOOLEAN : sched_fork(c, p, worker)
             \/ \E d \in Cpus : sched_exec(c, d)
      PROVE  RQInv'
  <2>1. CASE Preempt(c) \/ StopTaskRuns(c)
    BY <2>1, PreemptKeeps
  <2>2. CASE ScheduleSignalled(c)
    BY <2>2, ScheduleSignalledKeeps
  <2>3. CASE ScheduleSleeps(c)
    BY <2>3, ScheduleSleepsKeeps
  <2>4. CASE ScheduleSwitches(c)
    BY <2>4, ScheduleSwitchesKeeps
  <2>5. CASE sched_cpu_inactive(c) \/ sched_cpu_active(c) \/ CpuUp(c)
    BY <2>5, CpuMasksKeep
  <2>6. CASE CpuDying(c)
    BY <2>6, CpuDyingKeeps
  <2>7. CASE \E s \in {"R", "I", "U", "dead"} : SetState(c, s)
    BY <2>7, SetStateKeeps
  <2>8. CASE \E p \in Tasks, worker \in BOOLEAN : sched_fork(c, p, worker)
    BY <2>8, sched_forkKeeps
  <2>9. CASE \E d \in Cpus : sched_exec(c, d)
    BY <2>9, sched_execKeeps
  <2> QED BY <1>2, <2>1, <2>2, <2>3, <2>4, <2>5, <2>6, <2>7, <2>8, <2>9
<1>3. ASSUME NEW p \in Tasks,
             \/ ttwu_activate(p) \/ PlaceNewTask(p) \/ ActivateNewTask(p)
             \/ \E c \in Cpus : try_to_wake_up(p, c) \/ pull_task(p, c)
             \/ \E mask \in SUBSET Cpus : set_cpus_allowed_ptr(p, mask)
      PROVE  RQInv'
  BY <1>3, ttwu_activateKeeps, PlaceNewTaskKeeps, ActivateNewTaskKeeps,
     try_to_wake_upKeeps, pull_taskKeeps, set_cpus_allowed_ptrKeeps
<1>4. ASSUME NEW m \in moves, migration_cpu_stop(m)
      PROVE  RQInv'
  BY <1>4, migration_cpu_stopKeeps
<1> QED
  BY <1>1, <1>2, <1>3, <1>4 DEF RQNext

LEMMA RunQueueInvariant == RQSpec => []RQInv
BY RQInitHolds, RQNextKeeps, PTL DEF RQSpec

(* The counters of the queues tell the truth (activate_task and            *)
(* deactivate_task, __migrate_task, migrate_nr_uninterruptible): nr_running *)
(* of each queue, and the sum of nr_uninterruptible over all of them.      *)
THEOREM CountersTellTruth == RQSpec => []QueueAccounts
<1>1. RQInv => QueueAccounts
  BY DEF RQInv, Running, Counted, SleepersCounted, NrSum, Sleepers, QueueAccounts
<1> QED
  BY <1>1, RunQueueInvariant, PTL

(* No wake-up is lost (try_to_wake_up, ttwu_activate, wake_up_new_task,    *)
(* migrate_tasks): a task that is awake is on the queue of an online CPU,  *)
(* and a CPU that has a task does not idle without need_resched.           *)
THEOREM AwakeTasksRun == RQSpec => []AwakeRuns
<1>1. RQInv => AwakeRuns
  BY DEF RQInv, TaskPlaced, Told, AwakeRuns
<1> QED
  BY <1>1, RunQueueInvariant, PTL

(* A task queued outside its mask has a request to the stop task of its    *)
(* CPU (set_cpus_allowed_ptr, migration_cpu_stop), unless one of the two   *)
(* paths left it there.                                                    *)
THEOREM AffinityIsPending == RQSpec => []AffinityPending
<1>1. RQInv => AffinityPending
  BY DEF RQInv, Pending, AffinityPending
<1> QED
  BY <1>1, RunQueueInvariant, PTL
=============================================================================
