---------------------------- MODULE PolicyProofs ----------------------------
(***************************************************************************)
(* Proofs about the policies and priorities of tasks (TaskPriority) and    *)
(* about the real-time bandwidth of groups (RtGroups), for any number of   *)
(* tasks and of groups.                                                    *)
(***************************************************************************)
EXTENDS TaskPriority, RtGroups, CountingProofs

-----------------------------------------------------------------------------
(* The fields of a task, and how they go together at any moment.           *)
Fields == [policy : Policies, rt_priority : 0 .. MAX_RT_PRIO - 1,
           static_prio : StaticPrios, normal_prio : Nat, prio : Nat,
           class : {"rt", "fair"}, reset_on_fork : BOOLEAN]

Sound(t) ==
  /\ t \in Fields
  /\ (rt_policy(t.policy) => t.rt_priority # 0)
  /\ t.normal_prio = normal_prio(t)

(* The class is that of the priority, which is no worse than its own.      *)
Classed(t) ==
  /\ t.class = ClassOf(t.prio)
  /\ (rt_prio(t.normal_prio) => rt_prio(t.prio))

(* prio is what a task with the boost b and the priority normal is to have. *)
Fits(prio, b, normal) ==
  LET best == Better(b, normal)
  IN (rt_prio(prio) <=> rt_prio(best)) /\ (rt_prio(best) => prio = best)

Boosts == (0 .. MAX_RT_PRIO - 1) \cup {NoPrio}

Calls == [task : Procs, policy : Policies, prio : 0 .. MAX_RT_PRIO - 1,
          keep : BOOLEAN, reset : BOOLEAN]

TPTypes ==
  /\ proc \in [Procs -> Fields \cup {None}]
  /\ boost \in [Procs -> Boosts]
  /\ setting \in [Procs -> Nat]
  /\ calls \subseteq Calls /\ leaked \subseteq Procs

(* The copies of tasks that fork, as they were when they were made.        *)
Copies == [task : Fields, leaked : BOOLEAN]

CopiesSound ==
  /\ copied \in [Procs -> Copies \cup {None}]
  /\ \A p \in Procs : Forking(p) =>
       /\ Exists(p) /\ Sound(copied[p].task)
       /\ (~ copied[p].leaked => Classed(copied[p].task))

(* While rt_mutex_setprio is about to set a priority it is that priority   *)
(* that fits, whatever set_user_nice does meanwhile, else the task's own.  *)
TPInv ==
  /\ TPTypes /\ CopiesSound
  /\ \A p \in Procs : Exists(p) => Sound(proc[p])
  /\ \A p \in Procs : Exists(p) /\ p \notin leaked => Classed(proc[p])
  /\ \A p \in Procs : ~ Exists(p) => boost[p] = NoPrio /\ setting[p] = NoPrio
  /\ \A p \in Procs : Free(p) /\ p \notin leaked =>
                        Fits(proc[p].prio, boost[p], proc[p].normal_prio)
  /\ \A p \in Procs : setting[p] # NoPrio =>
                        Fits(setting[p], boost[p], proc[p].normal_prio)
  /\ \A c \in calls : Exists(c.task) /\ (rt_policy(c.policy) <=> c.prio # 0)

-----------------------------------------------------------------------------
(* The operators on the fields of a task. *)

LEMMA Numbers ==
  /\ MAX_RT_PRIO \in Nat /\ MAX_RT_PRIO > 0 /\ NoPrio \in Nat /\ NoPrio > MAX_RT_PRIO
  /\ Nice0 \in StaticPrios
  /\ \A n \in StaticPrios : n \in Nat /\ n >= MAX_RT_PRIO /\ n < NoPrio
BY PriorityAssumption

(* A priority is real time exactly if the policy is. *)
LEMMA NormalIsOwn ==
  ASSUME NEW t \in Fields, rt_policy(t.policy) => t.rt_priority # 0
  PROVE  /\ normal_prio(t) \in Nat /\ normal_prio(t) < NoPrio
         /\ (rt_prio(normal_prio(t)) <=> rt_policy(t.policy))
BY Numbers DEF Fields, normal_prio, rt_prio

LEMMA ClassType == \A prio \in Nat : ClassOf(prio) \in {"rt", "fair"}
BY DEF ClassOf

LEMMA WithPrioFields ==
  ASSUME NEW t \in Fields, NEW prio \in Nat
  PROVE  LET w == WithPrio(t, prio)
         IN /\ w \in Fields /\ w.prio = prio /\ w.class = ClassOf(prio)
            /\ w.policy = t.policy /\ w.rt_priority = t.rt_priority
            /\ w.static_prio = t.static_prio /\ w.normal_prio = t.normal_prio
            /\ w.reset_on_fork = t.reset_on_fork
<1> DEFINE c == ClassOf(prio)
<1>1. c \in {"rt", "fair"} BY ClassType
<1>2. WithPrio(t, prio) = [t EXCEPT !.prio = prio, !.class = c] BY DEF WithPrio
<1> HIDE DEF c
<1> QED BY <1>1, <1>2 DEF Fields, c

LEMMA BetterBoost ==
  ASSUME NEW b \in Boosts, NEW n \in Nat, n < NoPrio
  PROVE  /\ Better(b, n) \in Nat /\ Better(b, n) # NoPrio
         /\ (rt_prio(Better(b, n)) <=> b # NoPrio \/ rt_prio(n))
BY Numbers DEF Boosts, Better, rt_prio

(* __setscheduler leaves a sound task at the priority that fits.           *)
LEMMA SetschedulerSound ==
  ASSUME NEW t \in Fields, NEW b \in Boosts, NEW policy \in Policies,
         NEW prio \in 0 .. MAX_RT_PRIO - 1, rt_policy(policy) => prio # 0
  PROVE  LET d == do_setscheduler(t, b, policy, prio)
         IN /\ Sound(d) /\ Classed(d) /\ Fits(d.prio, b, d.normal_prio)
            /\ d.policy = policy
<1> DEFINE n == [t EXCEPT !.policy = policy, !.rt_priority = prio]
           own == normal_prio(n)
           m == [n EXCEPT !.normal_prio = own]
           best == Better(b, own)
           d == WithPrio(m, best)
<1>1. n \in Fields /\ n.policy = policy /\ n.rt_priority = prio BY DEF Fields
<1>2. own \in Nat /\ own < NoPrio /\ (rt_prio(own) <=> rt_policy(policy))
  <2> HIDE DEF n
  <2> QED BY <1>1, NormalIsOwn
<1>3. /\ m \in Fields /\ m.policy = policy /\ m.rt_priority = prio
      /\ m.normal_prio = own /\ m.static_prio = n.static_prio
  <2> HIDE DEF n, own
  <2> QED BY <1>1, <1>2 DEF Fields
<1>4. normal_prio(m) = own
  <2> HIDE DEF m
  <2> QED BY <1>1, <1>3 DEF normal_prio
<1>5. best \in Nat /\ (rt_prio(own) => rt_prio(best))
  <2> HIDE DEF own
  <2> QED BY <1>2, BetterBoost
<1>6. /\ d \in Fields /\ d.prio = best /\ d.class = ClassOf(best)
      /\ d.policy = policy /\ d.rt_priority = prio /\ d.normal_prio = own
      /\ d.static_prio = m.static_prio
  <2> HIDE DEF m, best
  <2> QED BY <1>3, <1>5, WithPrioFields
<1>7. normal_prio(d) = own
  <2> HIDE DEF d
  <2> QED BY <1>3, <1>4, <1>6 DEF normal_prio
<1>8. do_setscheduler(t, b, policy, prio) = d BY DEF do_setscheduler
<1>9. best = Better(b, own) OBVIOUS
<1> HIDE DEF d, best, own
<1>10. Sound(d) /\ Classed(d) BY <1>2, <1>5, <1>6, <1>7 DEF Sound, Classed
<1>11. Fits(d.prio, b, d.normal_prio) BY <1>6, <1>9 DEF Fits
<1> QED BY <1>6, <1>8, <1>10, <1>11

(* set_user_nice keeps a task sound, and what fits it fits it still: only  *)
(* priorities that are not real time change.                               *)
LEMMA RenicedSound ==
  ASSUME NEW t, Sound(t), NEW static \in StaticPrios, NEW b \in Boosts
  PROVE  LET r == Reniced(t, static)
         IN /\ Sound(r) /\ r.policy = t.policy /\ (Classed(t) => Classed(r))
            /\ \A s \in Nat : Fits(s, b, t.normal_prio) => Fits(s, b, r.normal_prio)
            /\ Fits(t.prio, b, t.normal_prio) => Fits(r.prio, b, r.normal_prio)
<1> DEFINE n == [t EXCEPT !.static_prio = static]
<1>1. /\ t \in Fields /\ (rt_policy(t.policy) => t.rt_priority # 0)
      /\ t.normal_prio = normal_prio(t) /\ t.prio \in Nat
  BY DEF Sound, Fields
<1>2. /\ n \in Fields /\ n.static_prio = static /\ n.policy = t.policy
      /\ n.rt_priority = t.rt_priority /\ n.normal_prio = t.normal_prio
      /\ n.prio = t.prio /\ n.class = t.class
  BY <1>1 DEF Fields
<1> HIDE DEF n
<1>3. CASE rt_policy(t.policy)
  <2>1. Reniced(t, static) = n BY <1>3 DEF Reniced, n
  <2>2. normal_prio(n) = normal_prio(t) BY <1>2, <1>3 DEF normal_prio
  <2>3. Sound(n) /\ (Classed(t) => Classed(n))
    BY <1>1, <1>2, <2>2 DEF Sound, Classed
  <2> QED BY <1>2, <2>1, <2>3
<1>4. CASE ~ rt_policy(t.policy)
  <2> DEFINE m == [n EXCEPT !.normal_prio = static]
             e == IF rt_prio(t.prio) THEN t.prio ELSE static
             r == [m EXCEPT !.prio = e]
  <2>1. normal_prio(n) = static BY <1>2, <1>4 DEF normal_prio
  <2>2. static \in Nat /\ ~ rt_prio(static) /\ static < NoPrio
    BY Numbers DEF rt_prio
  <2>3. ~ rt_prio(t.normal_prio) /\ t.normal_prio \in Nat /\ t.normal_prio < NoPrio
    BY <1>1, <1>4, NormalIsOwn
  <2>4. effective_prio(n) = e BY <1>2, <2>1 DEF effective_prio
  <2>5. Reniced(t, static) = [n EXCEPT !.normal_prio = normal_prio(n),
                                       !.prio = effective_prio(n)]
    BY <1>4 DEF Reniced, n
  <2>6. Reniced(t, static) = r
    <3> HIDE DEF e
    <3> QED BY <2>1, <2>4, <2>5
  <2>7. e \in Nat /\ (rt_prio(e) <=> rt_prio(t.prio)) /\ (rt_prio(e) => e = t.prio)
    BY <1>1, <2>2
  <2>8. /\ r \in Fields /\ r.policy = t.policy /\ r.static_prio = static
        /\ r.rt_priority = t.rt_priority /\ r.normal_prio = static
        /\ r.prio = e /\ r.class = t.class
    <3> HIDE DEF e
    <3> QED BY <1>2, <2>2, <2>7 DEF Fields
  <2> HIDE DEF r, e
  <2>9. ClassOf(e) = ClassOf(t.prio) BY <2>7 DEF ClassOf
  <2>10. normal_prio(r) = static BY <1>4, <2>8 DEF normal_prio
  <2>11. Sound(r) /\ (Classed(t) => Classed(r))
    BY <1>1, <1>4, <2>2, <2>8, <2>9, <2>10 DEF Sound, Classed
  <2>12. ASSUME NEW s \in Nat, Fits(s, b, t.normal_prio)
         PROVE  Fits(s, b, static)
    BY <2>2, <2>3, <2>12, Numbers DEF Fits, Better, rt_prio, Boosts
  <2>13. ASSUME Fits(t.prio, b, t.normal_prio)  PROVE Fits(e, b, static)
    <3>1. Fits(t.prio, b, static) BY <1>1, <2>12, <2>13
    <3> QED BY <2>7, <3>1 DEF Fits
  <2> QED BY <2>6, <2>8, <2>11, <2>12, <2>13
<1> QED BY <1>3, <1>4

(* A child is sound; and unless its priority has leaked to it, it is in    *)
(* the class of its priority, which is its own.                            *)
LEMMA ResetFields ==
  ASSUME NEW t, Sound(t)
  PROVE  LET m == Reset(t)
         IN /\ m \in Fields /\ m.policy = "NORMAL" /\ m.normal_prio = m.static_prio
            /\ m.class = t.class
<1> DEFINE n == IF rt_policy(t.policy)
                THEN [t EXCEPT !.policy = "NORMAL", !.normal_prio = t.static_prio]
                ELSE t
           m == IF n.static_prio < Nice0
                THEN [n EXCEPT !.static_prio = Nice0, !.normal_prio = Nice0] ELSE n
<1>1. /\ t \in Fields /\ t.normal_prio = normal_prio(t)
      /\ t.static_prio \in StaticPrios /\ t.policy \in Policies
  BY DEF Sound, Fields
<1>2. n \in Fields /\ n.policy = "NORMAL" /\ n.normal_prio = n.static_prio /\ n.class = t.class
  <2>1. CASE rt_policy(t.policy) BY <1>1, <2>1, Numbers DEF Fields, Policies
  <2>2. CASE ~ rt_policy(t.policy)
    BY <1>1, <2>2 DEF normal_prio, Policies, rt_policy
  <2> QED BY <2>1, <2>2
<1>3. m \in Fields /\ m.policy = "NORMAL" /\ m.normal_prio = m.static_prio /\ m.class = t.class
  <2> HIDE DEF n
  <2>1. CASE n.static_prio < Nice0 BY <1>2, <2>1, Numbers DEF Fields
  <2>2. CASE ~ (n.static_prio < Nice0) BY <1>2, <2>2
  <2> QED BY <2>1, <2>2
<1>4. Reset(t) = [m EXCEPT !.reset_on_fork = FALSE] BY DEF Reset
<1> HIDE DEF m
<1> QED BY <1>3, <1>4 DEF Fields

LEMMA ChildSound ==
  ASSUME NEW copy, Sound(copy.task), ~ copy.leaked => Classed(copy.task),
         NEW parents \in Nat, parents < NoPrio
  PROVE  LET c == Child(copy.task, parents)
         IN /\ Sound(c)
            /\ ~ Leaks(copy, parents)
                 => Classed(c) /\ Fits(c.prio, NoPrio, c.normal_prio)
<1> DEFINE t == copy.task
           n == Own(t)
           class == IF rt_prio(parents) THEN n.class ELSE "fair"
           c == [n EXCEPT !.prio = parents, !.class = class]
<1>1. /\ t \in Fields /\ (rt_policy(t.policy) => t.rt_priority # 0)
      /\ t.normal_prio = normal_prio(t) /\ Sound(t)
  BY DEF Sound
<1>2. /\ n \in Fields /\ (rt_policy(n.policy) => n.rt_priority # 0)
      /\ n.normal_prio = normal_prio(n)
      /\ (rt_policy(n.policy) => n = t)
  <2>1. CASE t.reset_on_fork
    <3>1. /\ n \in Fields /\ n.policy = "NORMAL" /\ n.normal_prio = n.static_prio
      <4> HIDE DEF t
      <4> QED BY <1>1, <2>1, ResetFields DEF Own
    <3> HIDE DEF n
    <3> QED BY <3>1 DEF normal_prio, rt_policy
  <2>2. CASE ~ t.reset_on_fork
    BY <1>1, <2>2 DEF Own
  <2> QED BY <2>1, <2>2
<1>3. /\ n.normal_prio \in Nat /\ n.normal_prio < NoPrio
      /\ (rt_prio(n.normal_prio) <=> rt_policy(n.policy))
  <2> HIDE DEF n
  <2> QED BY <1>2, NormalIsOwn
<1>4. Child(t, parents) = c BY DEF Child
<1>5. class \in {"rt", "fair"}
  <2> HIDE DEF n
  <2> QED BY <1>2 DEF Fields
<1>6. ASSUME ~ Leaks(copy, parents)
      PROVE  /\ rt_prio(n.normal_prio) \/ rt_prio(parents) => n.normal_prio = parents
             /\ class = ClassOf(parents)
  <2>1. /\ rt_prio(n.normal_prio) \/ rt_prio(parents) => n.normal_prio = parents
        /\ rt_prio(parents) => ~ copy.leaked
    BY <1>6 DEF Leaks
  <2>2. ASSUME rt_prio(parents)  PROVE class = ClassOf(parents)
    <3>1. n = t /\ rt_prio(t.normal_prio) /\ Classed(t)
      BY <1>2, <1>3, <2>1, <2>2
    <3>2. rt_prio(t.prio) /\ n.class = ClassOf(t.prio)
      BY <3>1 DEF Classed
    <3> QED BY <2>2, <3>2 DEF ClassOf
  <2> QED BY <2>1, <2>2 DEF ClassOf
<1> HIDE DEF n, class, t
<1>7. /\ c \in Fields /\ c.prio = parents /\ c.class = class
      /\ c.policy = n.policy /\ c.rt_priority = n.rt_priority
      /\ c.static_prio = n.static_prio /\ c.normal_prio = n.normal_prio
  BY <1>2, <1>5 DEF Fields
<1>8. normal_prio(c) = normal_prio(n)
  <2> HIDE DEF c
  <2> QED BY <1>7 DEF normal_prio
<1> HIDE DEF c
<1>9. Sound(c) BY <1>2, <1>7, <1>8 DEF Sound
<1>10. ASSUME ~ Leaks(copy, parents)
       PROVE  Classed(c) /\ Fits(c.prio, NoPrio, c.normal_prio)
  <2>1. Better(NoPrio, n.normal_prio) = n.normal_prio
    BY <1>3, Numbers DEF Better
  <2>2. Classed(c) BY <1>6, <1>7, <1>10 DEF Classed
  <2>3. Fits(c.prio, NoPrio, c.normal_prio)
    BY <1>6, <1>7, <1>10, <2>1 DEF Fits
  <2> QED BY <2>2, <2>3
<1> QED BY <1>4, <1>9, <1>10 DEF t

-----------------------------------------------------------------------------
(* The steps of TaskPriority *)

LEMMA TPFacts ==
  ASSUME TPInv, NEW p \in Procs, Exists(p)
  PROVE  /\ Sound(proc[p]) /\ proc[p] \in Fields /\ boost[p] \in Boosts
         /\ setting[p] \in Nat
         /\ (p \notin leaked => Classed(proc[p]))
         /\ (Free(p) /\ p \notin leaked
               => Fits(proc[p].prio, boost[p], proc[p].normal_prio))
         /\ (setting[p] # NoPrio => Fits(setting[p], boost[p], proc[p].normal_prio))
BY DEF TPInv, TPTypes, Sound

LEMMA FieldsExist == \A t \in Fields : t # None
BY DEF Fields, None, Policies

(* A field of a function that a step assigns what it has. *)
LEMMA SameValue ==
  ASSUME NEW S, NEW T, NEW f \in [S -> T], NEW x \in S
  PROVE  f = [f EXCEPT ![x] = f[x]]
OBVIOUS

(* What forks have copied lasts while no task that forks goes away.        *)
LEMMA CopiesFrame ==
  ASSUME CopiesSound, copied' = copied, \A p \in Procs : Forking(p) => Exists(p)'
  PROVE  CopiesSound'
BY DEF CopiesSound, Forking

(* A step that changes one task, which is there and stays sound.           *)
LEMMA OneTask ==
  ASSUME TPInv, NEW p \in Procs, Exists(p),
         NEW t, Sound(t), proc' = [proc EXCEPT ![p] = t],
         NEW b \in Boosts, boost' = [boost EXCEPT ![p] = b],
         NEW s \in Nat, setting' = [setting EXCEPT ![p] = s],
         leaked' \subseteq Procs, \A q \in Procs \ {p} : q \in leaked' <=> q \in leaked,
         p \notin leaked' => Classed(t), copied' = copied,
         s = NoPrio /\ p \notin leaked' => Fits(t.prio, b, t.normal_prio),
         s # NoPrio => Fits(s, b, t.normal_prio),
         calls' \subseteq calls
  PROVE  TPInv'
<1>1. t \in Fields /\ t # None BY FieldsExist DEF Sound
<1>2. /\ proc' \in [Procs -> Fields \cup {None}] /\ boost' \in [Procs -> Boosts]
      /\ setting' \in [Procs -> Nat]
      /\ proc'[p] = t /\ boost'[p] = b /\ setting'[p] = s
      /\ \A q \in Procs \ {p} : /\ proc'[q] = proc[q] /\ boost'[q] = boost[q]
                                /\ setting'[q] = setting[q]
  BY <1>1 DEF TPInv, TPTypes
<1>3. \A q \in Procs : Exists(q)' <=> Exists(q)
  BY <1>1, <1>2 DEF Exists
<1>4. TPTypes' BY <1>2 DEF TPInv, TPTypes
<1>5. /\ \A q \in Procs : Exists(q)' => Sound(proc'[q])
      /\ \A q \in Procs : Exists(q)' /\ q \notin leaked' => Classed(proc'[q])
      /\ CopiesSound'
  <2>1. CopiesSound' BY <1>3, CopiesFrame DEF TPInv, CopiesSound
  <2> QED BY <1>2, <1>3, <2>1 DEF TPInv
<1>6. \A q \in Procs : ~ Exists(q)' => boost'[q] = NoPrio /\ setting'[q] = NoPrio
  BY <1>2, <1>3 DEF TPInv
<1>7. ASSUME NEW q \in Procs, Free(q)', q \notin leaked'
      PROVE  Fits(proc'[q].prio, boost'[q], proc'[q].normal_prio)
  <2>1. Exists(q) /\ setting'[q] = NoPrio BY <1>3, <1>7 DEF Free
  <2>2. CASE q = p BY <1>2, <1>7, <2>1, <2>2
  <2>3. CASE q # p BY <1>2, <1>7, <2>1, <2>3 DEF TPInv, Free
  <2> QED BY <2>2, <2>3
<1>8. ASSUME NEW q \in Procs, setting'[q] # NoPrio
      PROVE  Fits(setting'[q], boost'[q], proc'[q].normal_prio)
  <2>1. CASE q = p BY <1>2, <1>8, <2>1
  <2>2. CASE q # p BY <1>2, <1>8, <2>2 DEF TPInv
  <2> QED BY <2>1, <2>2
<1>9. \A c \in calls' : Exists(c.task)' /\ (rt_policy(c.policy) <=> c.prio # 0)
  BY <1>3 DEF TPInv, TPTypes, Calls
<1> QED BY <1>4, <1>5, <1>6, <1>7, <1>8, <1>9 DEF TPInv

(* A step that changes the calls alone.                                    *)
LEMMA CallsOnly ==
  ASSUME TPInv, UNCHANGED <<proc, boost, setting, leaked, forkVars>>,
         \A c \in calls' : c \notin calls =>
           /\ c \in Calls /\ Exists(c.task) /\ (rt_policy(c.policy) <=> c.prio # 0)
  PROVE  TPInv'
<1>1. calls' \subseteq Calls BY DEF TPInv, TPTypes
<1>2. \A c \in calls' : Exists(c.task) /\ (rt_policy(c.policy) <=> c.prio # 0)
  BY DEF TPInv
<1>3. /\ proc' = proc /\ boost' = boost /\ setting' = setting /\ leaked' = leaked
      /\ copied' = copied
  BY DEF forkVars
<1>4. TPTypes' BY <1>1, <1>3 DEF TPInv, TPTypes
<1>5. CopiesSound' BY <1>3, CopiesFrame DEF TPInv, CopiesSound, Exists
<1> QED BY <1>2, <1>3, <1>4, <1>5 DEF TPInv, Exists, Free

LEMMA TPChecks ==
  ASSUME TPInv, NEW p \in Procs, NEW policy \in Policies \cup {"keep"},
         NEW prio \in 0 .. MAX_RT_PRIO - 1, NEW reset \in BOOLEAN,
         setscheduler_checks(p, policy, prio, reset)
  PROVE  TPInv'
<1> DEFINE new == IF policy = "keep" THEN proc[p].policy ELSE policy
           rs == IF policy = "keep" THEN proc[p].reset_on_fork ELSE reset
           c == [task |-> p, policy |-> new, prio |-> prio,
                 keep |-> policy = "keep", reset |-> rs]
<1>1. /\ Exists(p) /\ (rt_policy(new) <=> prio # 0) /\ calls' = calls \cup {c}
      /\ UNCHANGED <<proc, boost, setting, leaked, forkVars>>
  BY DEF setscheduler_checks
<1>2. new \in Policies /\ rs \in BOOLEAN BY <1>1, TPFacts DEF Fields
<1>3. c \in Calls /\ c.task = p /\ c.policy = new /\ c.prio = prio
  <2> HIDE DEF new, rs
  <2> QED BY <1>2 DEF Calls
<1> HIDE DEF c, new
<1> QED BY <1>1, <1>3, CallsOnly

LEMMA TPCall ==
  ASSUME TPInv, NEW c \in calls,
         setscheduler_locked(c) \/ setscheduler_nothing(c) \/ setscheduler_again(c)
  PROVE  TPInv'
<1>1. /\ c \in Calls /\ c.task \in Procs /\ c.policy \in Policies
      /\ c.prio \in 0 .. MAX_RT_PRIO - 1 /\ c.reset \in BOOLEAN /\ Exists(c.task)
      /\ (rt_policy(c.policy) <=> c.prio # 0)
  BY DEF TPInv, TPTypes, Calls
<1>2. CASE setscheduler_locked(c)
  <2> DEFINE p == c.task
             t == [proc[p] EXCEPT !.reset_on_fork = c.reset]
             d == do_setscheduler(t, boost[p], c.policy, c.prio)
  <2>1. /\ Free(p) /\ calls' = calls \ {c} /\ leaked' = leaked \ {p}
        /\ proc' = [proc EXCEPT ![p] = d] /\ UNCHANGED <<boost, setting, copied>>
    BY <1>2 DEF setscheduler_locked, forkVars
  <2>2. proc[p] \in Fields /\ boost[p] \in Boosts BY <1>1, TPFacts
  <2>3. t \in Fields BY <1>1, <2>2 DEF Fields
  <2> HIDE DEF t
  <2>4. Sound(d) /\ Classed(d) /\ Fits(d.prio, boost[p], d.normal_prio)
    BY <1>1, <2>2, <2>3, SetschedulerSound
  <2> HIDE DEF d
  <2>5. p \in Procs /\ Exists(p) BY <1>1
  <2> HIDE DEF p
  <2>6. /\ boost' = [boost EXCEPT ![p] = boost[p]] /\ setting[p] \in Nat
        /\ setting' = [setting EXCEPT ![p] = setting[p]] /\ setting[p] = NoPrio
        /\ leaked' \subseteq Procs /\ calls' \subseteq calls
        /\ \A q \in Procs \ {p} : q \in leaked' <=> q \in leaked
    BY <2>1, <2>5, SameValue DEF TPInv, TPTypes, Free
  <2> QED BY <2>1, <2>2, <2>4, <2>5, <2>6, OneTask
<1>3. CASE setscheduler_nothing(c)
  BY <1>3, CallsOnly DEF setscheduler_nothing
<1>4. CASE setscheduler_again(c)
  <2> DEFINE now == proc[c.task]
             d == [c EXCEPT !.policy = now.policy, !.reset = now.reset_on_fork]
  <2>1. /\ UNCHANGED <<proc, boost, setting, leaked, forkVars>>
        /\ calls' = IF rt_policy(now.policy) <=> c.prio # 0
                    THEN (calls \ {c}) \cup {d} ELSE calls \ {c}
    BY <1>4 DEF setscheduler_again
  <2>2. now.policy \in Policies /\ now.reset_on_fork \in BOOLEAN
    BY <1>1, TPFacts DEF Fields
  <2>3. d \in Calls /\ d.task = c.task /\ d.policy = now.policy /\ d.prio = c.prio
    <3> HIDE DEF now
    <3> QED BY <1>1, <2>2 DEF Calls
  <2> HIDE DEF d, now
  <2> QED BY <1>1, <2>1, <2>3, CallsOnly
<1> QED BY <1>2, <1>3, <1>4

LEMMA TPNice ==
  ASSUME TPInv, NEW p \in Procs, NEW static \in StaticPrios, set_user_nice(p, static)
  PROVE  TPInv'
<1> DEFINE r == Reniced(proc[p], static)
<1>1. /\ Exists(p) /\ proc' = [proc EXCEPT ![p] = r]
      /\ UNCHANGED <<boost, setting, calls, leaked, copied>>
  BY DEF set_user_nice, forkVars
<1>2. /\ Sound(proc[p]) /\ proc[p] \in Fields /\ boost[p] \in Boosts /\ setting[p] \in Nat
      /\ (p \notin leaked => Classed(proc[p]))
      /\ (setting[p] = NoPrio /\ p \notin leaked
            => Fits(proc[p].prio, boost[p], proc[p].normal_prio))
      /\ (setting[p] # NoPrio => Fits(setting[p], boost[p], proc[p].normal_prio))
  BY <1>1, TPFacts DEF Free
<1>3. /\ Sound(r) /\ (Classed(proc[p]) => Classed(r))
      /\ \A s \in Nat : Fits(s, boost[p], proc[p].normal_prio)
                          => Fits(s, boost[p], r.normal_prio)
      /\ (Fits(proc[p].prio, boost[p], proc[p].normal_prio)
            => Fits(r.prio, boost[p], r.normal_prio))
  BY <1>2, RenicedSound
<1>4. /\ boost' = [boost EXCEPT ![p] = boost[p]]
      /\ setting' = [setting EXCEPT ![p] = setting[p]]
      /\ leaked' = leaked /\ leaked \subseteq Procs /\ calls' = calls
  BY <1>1, SameValue DEF TPInv, TPTypes
<1> HIDE DEF r
<1> QED BY <1>1, <1>2, <1>3, <1>4, OneTask

(* normalize_rt_tasks renices, or will change the task under the locks.    *)
LEMMA TPNormalize ==
  ASSUME TPInv, NEW p \in Procs, normalize_rt_tasks(p)
  PROVE  TPInv'
<1> DEFINE r == Reniced(proc[p], Nice0)
<1>1. /\ Exists(p) /\ UNCHANGED <<boost, setting, calls, leaked, copied>>
      /\ (proc' = proc \/ proc' = [proc EXCEPT ![p] = r])
  BY DEF normalize_rt_tasks
<1>2. /\ Sound(proc[p]) /\ proc[p] \in Fields /\ boost[p] \in Boosts /\ setting[p] \in Nat
      /\ (p \notin leaked => Classed(proc[p]))
      /\ (setting[p] = NoPrio /\ p \notin leaked
            => Fits(proc[p].prio, boost[p], proc[p].normal_prio))
      /\ (setting[p] # NoPrio => Fits(setting[p], boost[p], proc[p].normal_prio))
  BY <1>1, TPFacts DEF Free
<1>3. /\ Sound(r) /\ (Classed(proc[p]) => Classed(r))
      /\ \A s \in Nat : Fits(s, boost[p], proc[p].normal_prio)
                          => Fits(s, boost[p], r.normal_prio)
      /\ (Fits(proc[p].prio, boost[p], proc[p].normal_prio)
            => Fits(r.prio, boost[p], r.normal_prio))
  BY <1>2, Numbers, RenicedSound
<1>4. /\ boost' = [boost EXCEPT ![p] = boost[p]]
      /\ setting' = [setting EXCEPT ![p] = setting[p]]
      /\ leaked' = leaked /\ leaked \subseteq Procs /\ calls' = calls
  BY <1>1, SameValue DEF TPInv, TPTypes
<1> HIDE DEF r
<1>5. CASE proc' = [proc EXCEPT ![p] = r]
  BY <1>1, <1>2, <1>3, <1>4, <1>5, OneTask
<1>6. CASE proc' = proc
  <2> DEFINE t == proc[p]
  <2>1. proc' = [proc EXCEPT ![p] = t]
    BY <1>6, SameValue DEF TPInv, TPTypes
  <2> HIDE DEF t
  <2> QED BY <1>1, <1>2, <1>4, <2>1, OneTask DEF t
<1> QED BY <1>1, <1>5, <1>6

LEMMA TPNormalizeTask ==
  ASSUME TPInv, NEW p \in Procs, normalize_task(p)
  PROVE  TPInv'
<1> DEFINE d == do_setscheduler(proc[p], boost[p], "NORMAL", 0)
<1>1. /\ Exists(p) /\ setting[p] = NoPrio /\ proc' = [proc EXCEPT ![p] = d]
      /\ leaked' = leaked \ {p} /\ UNCHANGED <<boost, setting, calls, copied>>
  BY DEF normalize_task, Free
<1>2. proc[p] \in Fields /\ boost[p] \in Boosts BY <1>1, TPFacts
<1>3. "NORMAL" \in Policies /\ 0 \in 0 .. MAX_RT_PRIO - 1 /\ ~ rt_policy("NORMAL")
  BY Numbers DEF Policies, rt_policy
<1>4. Sound(d) /\ Classed(d) /\ Fits(d.prio, boost[p], d.normal_prio)
  BY <1>2, <1>3, SetschedulerSound
<1>5. /\ boost' = [boost EXCEPT ![p] = boost[p]] /\ setting[p] \in Nat
      /\ setting' = [setting EXCEPT ![p] = setting[p]]
      /\ leaked' \subseteq Procs /\ calls' = calls
      /\ \A q \in Procs \ {p} : q \in leaked' <=> q \in leaked
  BY <1>1, SameValue DEF TPInv, TPTypes
<1> HIDE DEF d
<1> QED BY <1>1, <1>2, <1>4, <1>5, OneTask

LEMMA TPWaiters ==
  ASSUME TPInv, NEW p \in Procs, NEW b \in Boosts, WaitersChange(p, b)
  PROVE  TPInv'
<1> DEFINE t == proc[p]
           s == Better(b, t.normal_prio)
<1>1. /\ Exists(p) /\ boost' = [boost EXCEPT ![p] = b]
      /\ setting' = [setting EXCEPT ![p] = s] /\ UNCHANGED <<proc, calls, leaked, copied>>
  BY DEF WaitersChange, Free, forkVars
<1>2. Sound(t) /\ (p \notin leaked => Classed(t)) BY <1>1, TPFacts
<1>3. t.normal_prio \in Nat /\ t.normal_prio < NoPrio BY <1>2, NormalIsOwn DEF Sound
<1>4. s \in Nat /\ s # NoPrio
  <2> HIDE DEF t
  <2> QED BY <1>3, BetterBoost
<1>5. Fits(s, b, t.normal_prio) BY DEF Fits
<1>6. proc' = [proc EXCEPT ![p] = t] /\ leaked \subseteq Procs
  BY <1>1, SameValue DEF TPInv, TPTypes
<1> HIDE DEF s, t
<1> QED BY <1>1, <1>2, <1>4, <1>5, <1>6, OneTask

LEMMA TPSetprio ==
  ASSUME TPInv, NEW p \in Procs, rt_mutex_setprio(p)
  PROVE  TPInv'
<1> DEFINE t == proc[p]
           w == WithPrio(t, setting[p])
<1>1. /\ Exists(p) /\ setting[p] # NoPrio /\ proc' = [proc EXCEPT ![p] = w]
      /\ setting' = [setting EXCEPT ![p] = NoPrio] /\ leaked' = leaked \ {p}
      /\ UNCHANGED <<boost, calls, copied>>
  BY DEF rt_mutex_setprio, forkVars
<1>2. /\ Sound(t) /\ t \in Fields /\ boost[p] \in Boosts /\ setting[p] \in Nat
      /\ Fits(setting[p], boost[p], t.normal_prio)
  BY <1>1, TPFacts
<1> HIDE DEF t
<1>3. /\ w \in Fields /\ w.prio = setting[p] /\ w.class = ClassOf(setting[p])
      /\ w.policy = t.policy /\ w.rt_priority = t.rt_priority
      /\ w.static_prio = t.static_prio /\ w.normal_prio = t.normal_prio
  BY <1>2, WithPrioFields
<1>4. t.normal_prio \in Nat /\ t.normal_prio < NoPrio BY <1>2, NormalIsOwn DEF Sound
<1>5. rt_prio(t.normal_prio) => rt_prio(setting[p])
  BY <1>2, <1>4, BetterBoost DEF Fits
<1> HIDE DEF w
<1>6. normal_prio(w) = normal_prio(t) BY <1>3 DEF normal_prio
<1>7. Sound(w) /\ Classed(w) BY <1>2, <1>3, <1>5, <1>6 DEF Sound, Classed
<1>8. Fits(w.prio, boost[p], w.normal_prio) BY <1>2, <1>3
<1>9. /\ boost' = [boost EXCEPT ![p] = boost[p]] /\ leaked' \subseteq Procs
      /\ NoPrio \in Nat /\ \A q \in Procs \ {p} : q \in leaked' <=> q \in leaked
  BY <1>1, SameValue, Numbers DEF TPInv, TPTypes
<1> QED BY <1>1, <1>2, <1>7, <1>8, <1>9, OneTask

LEMMA TPDup ==
  ASSUME TPInv, NEW p \in Procs, dup_task_struct(p)
  PROVE  TPInv'
<1> DEFINE t == proc[p]
           l == p \in leaked
           copy == [task |-> t, leaked |-> l]
<1>1. /\ Exists(p) /\ copied' = [copied EXCEPT ![p] = copy]
      /\ UNCHANGED <<proc, boost, setting, calls, leaked>>
  BY DEF dup_task_struct
<1>2. /\ t \in Fields /\ Sound(t) /\ (~ l => Classed(t)) /\ l \in BOOLEAN
  BY <1>1, TPFacts
<1> HIDE DEF t, l
<1>3. copy \in Copies /\ copy.task = t /\ copy.leaked = l BY <1>2 DEF Copies
<1> HIDE DEF copy
<1>4. CopiesSound'
  <2>1. CopiesSound BY DEF TPInv
  <2>2. /\ copied' \in [Procs -> Copies \cup {None}] /\ copied'[p] = copy
        /\ \A q \in Procs \ {p} : copied'[q] = copied[q]
    BY <1>1, <1>3, <2>1 DEF CopiesSound
  <2>3. \A q \in Procs : Exists(q)' <=> Exists(q) BY <1>1 DEF Exists
  <2> QED BY <1>1, <1>2, <1>3, <2>1, <2>2, <2>3 DEF CopiesSound, Forking
<1>5. TPTypes' BY <1>1 DEF TPInv, TPTypes
<1> QED BY <1>1, <1>4, <1>5 DEF TPInv, Exists, Free

LEMMA TPFork ==
  ASSUME TPInv, NEW p \in Procs, NEW q \in Procs, sched_fork(p, q)
  PROVE  TPInv'
<1> DEFINE copy == copied[p]
           parents == proc[p].normal_prio
           c == Child(copy.task, parents)
<1>1. /\ Forking(p) /\ ~ Exists(q) /\ proc' = [proc EXCEPT ![q] = c]
      /\ leaked' = IF Leaks(copy, parents) THEN leaked \cup {q} ELSE leaked
      /\ copied' = [copied EXCEPT ![p] = None]
      /\ boost' = boost /\ setting' = setting /\ calls' = calls
  BY DEF sched_fork
<1>2. /\ Exists(p) /\ Sound(copy.task) /\ (~ copy.leaked => Classed(copy.task))
  BY <1>1 DEF TPInv, CopiesSound
<1>3. boost[q] = NoPrio /\ setting[q] = NoPrio BY <1>1 DEF TPInv
<1>4. parents \in Nat /\ parents < NoPrio
  <2>1. Sound(proc[p]) BY <1>2, TPFacts
  <2> QED BY <2>1, NormalIsOwn DEF Sound
<1>5. Sound(c) /\ c \in Fields /\ c # None
      /\ (q \notin leaked' => Classed(c) /\ Fits(c.prio, NoPrio, c.normal_prio))
  <2> HIDE DEF copy, parents
  <2> QED BY <1>1, <1>2, <1>4, ChildSound, FieldsExist DEF Sound
<1> HIDE DEF c, copy, parents
<1>6. /\ proc' \in [Procs -> Fields \cup {None}] /\ proc'[q] = c
      /\ \A r \in Procs \ {q} : proc'[r] = proc[r]
  BY <1>1, <1>5 DEF TPInv, TPTypes
<1>7. \A r \in Procs : Exists(r)' <=> Exists(r) \/ r = q
  BY <1>5, <1>6 DEF Exists
<1>8. leaked' \subseteq Procs /\ \A r \in Procs \ {q} : r \in leaked' <=> r \in leaked
  BY <1>1 DEF TPInv, TPTypes
<1>9. TPTypes' BY <1>1, <1>6, <1>8 DEF TPInv, TPTypes
<1>10. /\ \A r \in Procs : Exists(r)' => Sound(proc'[r])
       /\ \A r \in Procs : Exists(r)' /\ r \notin leaked' => Classed(proc'[r])
  BY <1>5, <1>6, <1>7, <1>8 DEF TPInv
<1>11. CopiesSound'
  <2>1. CopiesSound BY DEF TPInv
  <2>2. /\ copied' \in [Procs -> Copies \cup {None}] /\ copied'[p] = None
        /\ \A r \in Procs \ {p} : copied'[r] = copied[r]
    BY <1>1, <2>1 DEF CopiesSound
  <2> QED BY <1>7, <2>1, <2>2 DEF CopiesSound, Forking
<1>12. \A r \in Procs : ~ Exists(r)' => boost'[r] = NoPrio /\ setting'[r] = NoPrio
  BY <1>1, <1>7 DEF TPInv
<1>13. ASSUME NEW r \in Procs, Free(r)', r \notin leaked'
       PROVE  Fits(proc'[r].prio, boost'[r], proc'[r].normal_prio)
  <2>1. CASE r = q BY <1>1, <1>3, <1>5, <1>6, <1>13, <2>1
  <2>2. CASE r # q
    <3>1. Exists(r) /\ setting[r] = NoPrio BY <1>1, <1>7, <1>13, <2>2 DEF Free
    <3> QED BY <1>1, <1>6, <1>8, <1>13, <2>2, <3>1 DEF TPInv, Free
  <2> QED BY <2>1, <2>2
<1>14. ASSUME NEW r \in Procs, setting'[r] # NoPrio
       PROVE  Fits(setting'[r], boost'[r], proc'[r].normal_prio)
  BY <1>1, <1>3, <1>6, <1>14 DEF TPInv
<1>15. \A k \in calls' : Exists(k.task)' /\ (rt_policy(k.policy) <=> k.prio # 0)
  BY <1>1, <1>7 DEF TPInv, TPTypes, Calls
<1> QED BY <1>9, <1>10, <1>11, <1>12, <1>13, <1>14, <1>15 DEF TPInv

LEMMA TPExit ==
  ASSUME TPInv, NEW p \in Procs, Exit(p)
  PROVE  TPInv'
<1>1. /\ Exists(p) /\ setting[p] = NoPrio /\ boost[p] = NoPrio
      /\ (\A c \in calls : c.task # p)
      /\ proc' = [proc EXCEPT ![p] = None] /\ leaked' = leaked \ {p}
      /\ boost' = boost /\ setting' = setting /\ calls' = calls
      /\ copied' = copied /\ ~ Forking(p)
  BY DEF Exit, Free, forkVars
<1>2. /\ proc' \in [Procs -> Fields \cup {None}] /\ proc'[p] = None
      /\ \A r \in Procs \ {p} : proc'[r] = proc[r]
  BY <1>1 DEF TPInv, TPTypes
<1>3. \A r \in Procs : Exists(r)' <=> Exists(r) /\ r # p
  BY <1>2 DEF Exists
<1>4. leaked' \subseteq Procs /\ \A r \in Procs \ {p} : r \in leaked' <=> r \in leaked
  BY <1>1 DEF TPInv, TPTypes
<1>5. TPTypes' BY <1>1, <1>2, <1>4 DEF TPInv, TPTypes
<1>6. /\ \A r \in Procs : Exists(r)' => Sound(proc'[r])
      /\ \A r \in Procs : Exists(r)' /\ r \notin leaked' => Classed(proc'[r])
      /\ CopiesSound'
  <2>1. CopiesSound' BY <1>1, <1>3, CopiesFrame DEF TPInv, CopiesSound
  <2> QED BY <1>2, <1>3, <1>4, <2>1 DEF TPInv
<1>7. \A r \in Procs : ~ Exists(r)' => boost'[r] = NoPrio /\ setting'[r] = NoPrio
  BY <1>1, <1>3 DEF TPInv
<1>8. ASSUME NEW r \in Procs, Free(r)', r \notin leaked'
      PROVE  Fits(proc'[r].prio, boost'[r], proc'[r].normal_prio)
  <2>1. Exists(r) /\ r # p /\ setting[r] = NoPrio BY <1>1, <1>3, <1>8 DEF Free
  <2> QED BY <1>1, <1>2, <1>4, <1>8, <2>1 DEF TPInv, Free
<1>9. ASSUME NEW r \in Procs, setting'[r] # NoPrio
      PROVE  Fits(setting'[r], boost'[r], proc'[r].normal_prio)
  BY <1>1, <1>2, <1>9 DEF TPInv
<1>10. \A k \in calls' : Exists(k.task)' /\ (rt_policy(k.policy) <=> k.prio # 0)
  BY <1>1, <1>3 DEF TPInv, TPTypes, Calls
<1> QED BY <1>5, <1>6, <1>7, <1>8, <1>9, <1>10 DEF TPInv

LEMMA TPStarts == TPInit => TPInv
<1> SUFFICES ASSUME TPInit PROVE TPInv OBVIOUS
<1>1. PICK p \in Procs : proc = [q \in Procs |-> IF q = p THEN Default ELSE None]
  BY DEF TPInit
<1>2. /\ Default \in Fields /\ Default.policy = "NORMAL"
      /\ Default.normal_prio = Nice0 /\ Default.static_prio = Nice0
      /\ Default.prio = Nice0 /\ Default.class = "fair"
  BY Numbers DEF Default, Fields, Policies
<1>3. Nice0 \in Nat /\ ~ rt_prio(Nice0) /\ Nice0 < NoPrio /\ NoPrio \in Nat
  BY Numbers DEF rt_prio
<1>4. Sound(Default) /\ Classed(Default)
  BY <1>2, <1>3 DEF Sound, Classed, normal_prio, rt_policy, ClassOf
<1>5. Fits(Default.prio, NoPrio, Default.normal_prio)
  BY <1>2, <1>3 DEF Fits, Better
<1>6. /\ boost = [q \in Procs |-> NoPrio] /\ setting = [q \in Procs |-> NoPrio]
      /\ calls = {} /\ leaked = {} /\ copied = [q \in Procs |-> None]
  BY DEF TPInit
<1>7. proc[p] = Default /\ \A q \in Procs \ {p} : proc[q] = None
  BY <1>1
<1> HIDE DEF Default
<1>8. TPTypes BY <1>1, <1>2, <1>3, <1>6 DEF TPTypes, Boosts
<1>9. \A q \in Procs : Exists(q) => q = p BY <1>7 DEF Exists
<1>10. CopiesSound BY <1>6 DEF CopiesSound, Forking
<1> QED BY <1>4, <1>5, <1>6, <1>7, <1>8, <1>9, <1>10 DEF TPInv, Free

LEMMA TPStep == TPInv /\ [TPNext]_tpVars => TPInv'
<1> SUFFICES ASSUME TPInv, [TPNext]_tpVars PROVE TPInv' OBVIOUS
<1>1. CASE UNCHANGED tpVars
  <2>1. /\ proc' = proc /\ boost' = boost /\ setting' = setting /\ calls' = calls
        /\ leaked' = leaked /\ copied' = copied
    BY <1>1 DEF tpVars, forkVars
  <2>2. CopiesSound' BY <2>1, CopiesFrame DEF TPInv, CopiesSound, Exists
  <2> QED BY <2>1, <2>2 DEF TPInv, TPTypes, Exists, Free
<1>2. ASSUME NEW c \in calls, \/ setscheduler_locked(c) \/ setscheduler_nothing(c)
                              \/ setscheduler_again(c)
      PROVE  TPInv'
  BY <1>2, TPCall
<1>3. ASSUME NEW p \in Procs,
             \/ rt_mutex_setprio(p) \/ normalize_rt_tasks(p) \/ normalize_task(p)
             \/ Exit(p) \/ dup_task_struct(p)
      PROVE  TPInv'
  BY <1>3, TPSetprio, TPNormalize, TPNormalizeTask, TPExit, TPDup
<1>4. ASSUME NEW p \in Procs, NEW q \in Procs, sched_fork(p, q)  PROVE TPInv'
  BY <1>4, TPFork
<1>5. ASSUME NEW p \in Procs, NEW b \in Boosts, WaitersChange(p, b)  PROVE TPInv'
  BY <1>5, TPWaiters
<1>6. ASSUME NEW p \in Procs, NEW static \in StaticPrios, set_user_nice(p, static)
      PROVE  TPInv'
  BY <1>6, TPNice
<1>7. ASSUME NEW p \in Procs, NEW policy \in Policies \cup {"keep"},
             NEW prio \in 0 .. MAX_RT_PRIO - 1, NEW reset \in BOOLEAN,
             setscheduler_checks(p, policy, prio, reset)
      PROVE  TPInv'
  BY <1>7, TPChecks
<1> QED BY <1>1, <1>2, <1>3, <1>4, <1>5, <1>6, <1>7 DEF TPNext, Boosts

LEMMA TPInvHolds == TPSpec => []TPInv
BY TPStarts, TPStep, PTL DEF TPSpec

(* At every moment at which its pi_lock is free a task has the priority of *)
(* its own that its policy asks for, and is in the class, and if that is   *)
(* the real-time one at the priority, that its policy and its waiters ask  *)
(* for, whatever happens to its parent between the copy of it that is its  *)
(* child and sched_fork (__setscheduler, rt_mutex_setprio, set_user_nice). *)
(* `leaked`, children whose priority was not their own when sched_fork     *)
(* took it from the parent, are excepted until their priority is next set. *)
THEOREM PolicyGivesClass == TPSpec => []ClassFollowsPolicy
<1>1. TPInv => ClassFollowsPolicy
  BY DEF TPInv, ClassFollowsPolicy, Sound, Classed, Fits, Free
<1> QED BY <1>1, TPInvHolds, PTL

(* sched_setparam never changes a policy: when the one it read is no longer *)
(* the task's under the locks, __sched_setscheduler starts again.          *)
THEOREM SetparamLeavesPolicy == TPSpec => SetparamKeepsPolicy
<1>1. TPInv /\ [TPNext]_tpVars
        => [\A c \in calls : c.keep /\ setscheduler_locked(c) =>
              proc'[c.task].policy = proc[c.task].policy]_tpVars
  <2> SUFFICES ASSUME TPInv, NEW c \in calls, c.keep, setscheduler_locked(c)
               PROVE  proc'[c.task].policy = proc[c.task].policy
    OBVIOUS
  <2> DEFINE p == c.task
             t == [proc[p] EXCEPT !.reset_on_fork = c.reset]
             d == do_setscheduler(t, boost[p], c.policy, c.prio)
  <2>1. /\ p \in Procs /\ Exists(p) /\ c.policy \in Policies /\ c.reset \in BOOLEAN
        /\ c.prio \in 0 .. MAX_RT_PRIO - 1 /\ (rt_policy(c.policy) <=> c.prio # 0)
    BY DEF TPInv, TPTypes, Calls
  <2>2. proc' = [proc EXCEPT ![p] = d] /\ c.policy = proc[p].policy
    BY DEF setscheduler_locked, Stale
  <2>3. proc[p] \in Fields /\ boost[p] \in Boosts BY <2>1, TPFacts
  <2>4. t \in Fields BY <2>1, <2>3 DEF Fields
  <2> HIDE DEF t
  <2>5. d.policy = c.policy BY <2>1, <2>3, <2>4, SetschedulerSound
  <2>6. proc'[p] = d
    <3> HIDE DEF d, p
    <3> QED BY <2>1, <2>2 DEF TPInv, TPTypes
  <2> QED BY <2>2, <2>5, <2>6
<1> QED BY <1>1, TPInvHolds, PTL DEF TPSpec, SetparamKeepsPolicy

-----------------------------------------------------------------------------
(***************************************************************************)
(* Groups (RtGroups).                                                      *)
(***************************************************************************)
Enabled(s) == s.runtime # RuntimeInf
Sane(s) == s.period > 0 /\ ~ Exceeds(s)

RuntimeValues == Nat \cup {RuntimeInf}
Limits == [period : Nat, runtime : RuntimeValues]
Bandwidths == [period : Nat \ {0}, runtime : RuntimeValues]
Requests == [tg : Groups, period : Nat \ {0}, runtime : RuntimeValues]
Attachments == [tg : Groups, check : SUBSET RtTasks, move : SUBSET RtTasks]

(* What a test that was passed has seen.                                   *)
Sightings == {s \in [enabled : BOOLEAN, has : BOOLEAN] : s.enabled => s.has}

RGTypes ==
  /\ parent \in [Groups -> Groups \cup {Idling}]
  /\ bandwidth \in [Groups -> Bandwidths]
  /\ sysctl \in Limits /\ def_period \in Nat \ {0}
  /\ call \in Requests \cup {Idling} /\ checked \subseteq Requests
  /\ handler \in [old : Limits, at : {"written", "passed", "refused"}] \cup {Idling}
  /\ task_group \in [RtTasks -> Groups]
  /\ rt_task \subseteq RtTasks /\ slipped \subseteq RtTasks
  /\ seen \in [RtTasks -> Sightings \cup {Idling}]
  /\ attaching \in Attachments \cup {Idling}

(* Whatever is in use or about to be is not removed.                       *)
InUse ==
  /\ parent[Root] = Root
  /\ \A g \in Live : parent[g] \in Live
  /\ \A t \in RtTasks : task_group[t] \in Live
  /\ call # Idling => call.tg \in Live
  /\ \A c \in checked : c.tg \in Live
  /\ attaching # Idling => attaching.tg \in Live

(* Each group of L has what it gives its children, by the tree in par.     *)
Portion(K, b) == SumFunction([h \in K |-> to_ratio(b[h])])
ChildrenIn(L, par, g) == {h \in L \ {Root} : par[h] = g}
Allotted(L, par, b) ==
  \A g \in L : /\ ~ Exceeds(b[g])
              /\ Portion(ChildrenIn(L, par, g), b) <= to_ratio(b[g])

(* What a check has passed still fits when it is stored.                   *)
AllFits ==
  /\ Allotted(Live, parent, bandwidth)
  /\ \A c \in checked : Allotted(Live, parent, With(c))
  /\ \A c, d \in checked : c = d

(* The handler changes one of the two limits, and takes it back if what it *)
(* wrote is not sane; to take a limit away is never refused.               *)
HandlerKeeps ==
  IF handler = Idling THEN Sane(sysctl)
  ELSE /\ Sane(handler.old)
       /\ handler.old.period = sysctl.period \/ handler.old.runtime = sysctl.runtime
       /\ handler.at = "passed" => Sane(sysctl)
       /\ handler.at = "refused" /\ Enabled(handler.old) => Enabled(sysctl)

(* The limit is on and has been checked against the tasks there are.       *)
Enforced ==
  /\ Enabled(sysctl)
  /\ handler # Idling => handler.at = "passed" \/ Enabled(handler.old)

TasksHaveTime ==
  /\ Enforced =>
       /\ \A t \in rt_task \ slipped : bandwidth[task_group[t]].runtime # 0
       /\ \A c \in checked : c.runtime = 0 =>
            \A t \in rt_task \ slipped : task_group[t] # c.tg
  /\ attaching # Idling => \A t \in attaching.move \cap (rt_task \ slipped) :
       bandwidth[attaching.tg].runtime # 0

RGInv == RGTypes /\ InUse /\ AllFits /\ HandlerKeeps /\ TasksHaveTime

-----------------------------------------------------------------------------
(* Shares of the real-time bandwidth. *)

LEMMA Quotients ==
  /\ \A r \in Nat, p \in Nat \ {0} : r \div p \in Nat
  /\ \A p \in Nat \ {0} : 0 \div p = 0
OBVIOUS

LEMMA QuotientBound ==
  ASSUME NEW r \in Nat, NEW p \in Nat \ {0}, NEW u \in Nat, r <= p
  PROVE  (r * u) \div p <= u
<1>1. r * u \in Nat /\ p * u \in Nat /\ r * u <= p * u
  OBVIOUS
<1> DEFINE m == r * u
           q == m \div p
<1>2. m \in Nat /\ m <= p * u
  BY <1>1
<1>3. q \in Nat /\ p * q <= m
  <2> HIDE DEF m
  <2> QED BY <1>2
<1> HIDE DEF q, m
<1>4. q > u => p * q >= p * (u + 1)
  BY <1>3
<1>5. p * (u + 1) = p * u + p
  OBVIOUS
<1>6. p * q \in Nat /\ p * u \in Nat
  BY <1>3
<1>7. q <= u
  BY <1>2, <1>3, <1>4, <1>5, <1>6
<1> QED
  BY <1>7 DEF q, m

LEMMA RatioType ==
  ASSUME NEW b, b.runtime \in RuntimeValues, b.period \in Nat \ {0}
  PROVE  /\ to_ratio(b) \in Nat
         /\ b.runtime = 0 => to_ratio(b) = 0 /\ ~ Exceeds(b)
         /\ ~ Exceeds(b) => to_ratio(b) <= RatioUnit
<1>1. RatioUnit \in Nat /\ RuntimeInf \notin Nat
  BY GroupsAssumption
<1>2. CASE b.runtime = RuntimeInf
  <2>1. to_ratio(b) = RatioUnit
    BY <1>2 DEF to_ratio
  <2> QED BY <1>1, <1>2, <2>1
<1>3. CASE b.runtime # RuntimeInf
  <2> DEFINE r == b.runtime
             p == b.period
             m == r * RatioUnit
  <2>1. r \in Nat /\ p \in Nat \ {0}
    BY <1>3 DEF RuntimeValues
  <2>2. to_ratio(b) = m \div p /\ (Exceeds(b) <=> r > p)
    BY <1>3 DEF to_ratio, Exceeds
  <2> HIDE DEF r, p
  <2>3. m \in Nat /\ (r = 0 => m = 0)
    BY <1>1, <2>1
  <2>4. r <= p => m \div p <= RatioUnit
    BY <1>1, <2>1, QuotientBound
  <2> HIDE DEF m
  <2>5. m \div p \in Nat /\ (r = 0 => m \div p = 0)
    BY <2>1, <2>3, Quotients
  <2>6. /\ r = 0 => ~ (r > p)
        /\ ~ (r > p) => r <= p
    BY <2>1
  <2> QED BY <2>2, <2>4, <2>5, <2>6 DEF r
<1> QED
  BY <1>2, <1>3

LEMMA GroupRatio ==
  ASSUME NEW b \in [Groups -> Bandwidths], NEW g \in Groups
  PROVE  /\ to_ratio(b[g]) \in Nat
         /\ b[g].runtime = 0 => to_ratio(b[g]) = 0 /\ ~ Exceeds(b[g])
         /\ ~ Exceeds(b[g]) => to_ratio(b[g]) <= RatioUnit
<1>1. b[g].runtime \in RuntimeValues /\ b[g].period \in Nat \ {0}
  BY DEF Bandwidths
<1> QED
  BY <1>1, RatioType

LEMMA PortionType ==
  ASSUME NEW K \in SUBSET Groups, NEW b \in [Groups -> Bandwidths]
  PROVE  Portion(K, b) \in Int /\ (K = {} => Portion(K, b) = 0)
<1> DEFINE f == [h \in K |-> to_ratio(b[h])]
<1>1. f \in [K -> Int]
  BY GroupRatio
<1>2. IsFiniteSet(K)
  BY GroupsAssumption, FS_Subset
<1>3. Portion(K, b) = SumFunction(f)
  BY DEF Portion
<1> HIDE DEF f
<1> QED
  BY <1>1, <1>2, <1>3, SumType

LEMMA PortionSame ==
  ASSUME NEW K, NEW b, NEW c, \A h \in K : c[h] = b[h]
  PROVE  Portion(K, c) = Portion(K, b)
<1>1. [h \in K |-> to_ratio(c[h])] = [h \in K |-> to_ratio(b[h])]
  OBVIOUS
<1> QED
  BY <1>1, Zenon DEF Portion

(* A child more. *)
LEMMA PortionAdds ==
  ASSUME NEW K \in SUBSET Groups, NEW x \in Groups \ K, NEW b \in [Groups -> Bandwidths]
  PROVE  Portion(K \cup {x}, b) = Portion(K, b) + to_ratio(b[x])
<1> DEFINE T == K \cup {x}
           f == [h \in K |-> to_ratio(b[h])]
           g == [h \in T |-> to_ratio(b[h])]
<1>1. f \in [K -> Int] /\ g \in [T -> Int]
  BY GroupRatio
<1>2. \A h \in K : g[h] = f[h]
  OBVIOUS
<1>3. g[x] = to_ratio(b[x])
  OBVIOUS
<1>4. IsFiniteSet(K)
  BY GroupsAssumption, FS_Subset
<1>5. Portion(K, b) = SumFunction(f) /\ Portion(T, b) = SumFunction(g)
  BY DEF Portion
<1>6. x \notin K
  OBVIOUS
<1> HIDE DEF f, g
<1>7. OneTermMore(f, g, K, x)
  BY <1>1, <1>2, <1>4, <1>6 DEF OneTermMore
<1>8. SumFunction(g) = SumFunction(f) + g[x]
  <2> HIDE DEF T
  <2> QED BY <1>7, SumAdds
<1> QED
  BY <1>3, <1>5, <1>8

(* A group without runtime may be created anywhere, *)
LEMMA AllottedMore ==
  ASSUME NEW L \in SUBSET Groups, NEW par, NEW q,
         NEW b \in [Groups -> Bandwidths], NEW c \in [Groups -> Bandwidths],
         NEW g \in Groups \ L, g # Root,
         \A h \in L : par[h] \in L /\ q[h] = par[h] /\ c[h] = b[h],
         q[g] \in L, c[g].runtime = 0, Allotted(L, par, b)
  PROVE  Allotted(L \cup {g}, q, c)
<1> SUFFICES ASSUME NEW p \in L \cup {g}
             PROVE  /\ ~ Exceeds(c[p])
                    /\ Portion(ChildrenIn(L \cup {g}, q, p), c) <= to_ratio(c[p])
  BY DEF Allotted
<1> DEFINE K == ChildrenIn(L, par, p)
           M == ChildrenIn(L \cup {g}, q, p)
<1>1. K \in SUBSET Groups /\ K \subseteq L /\ g \notin K
  BY DEF ChildrenIn
<1>2. M = IF q[g] = p THEN K \cup {g} ELSE K
  BY DEF ChildrenIn
<1>3. to_ratio(c[g]) = 0 /\ ~ Exceeds(c[g])
  BY GroupRatio
<1>4. Portion(K, c) = Portion(K, b)
  <2> HIDE DEF K
  <2> QED BY <1>1, PortionSame
<1>5. Portion(M, c) = Portion(K, b)
  <2> HIDE DEF K, M
  <2>1. CASE q[g] = p
    <3>1. Portion(K \cup {g}, c) = Portion(K, c) + to_ratio(c[g])
      BY <1>1, PortionAdds
    <3>2. Portion(K, c) \in Int
      BY <1>1, PortionType
    <3> QED BY <1>2, <1>3, <1>4, <2>1, <3>1, <3>2
  <2> QED BY <1>2, <1>4, <2>1
<1>6. CASE p \in L
  <2>1. ~ Exceeds(b[p]) /\ Portion(K, b) <= to_ratio(b[p]) /\ c[p] = b[p]
    BY <1>6 DEF Allotted
  <2> HIDE DEF K, M
  <2> QED BY <1>5, <2>1 DEF M
<1>7. CASE p = g
  <2>1. K = {}
    BY <1>7 DEF ChildrenIn
  <2>2. Portion(K, b) = 0
    <3> HIDE DEF K
    <3> QED BY <1>1, <2>1, PortionType
  <2> HIDE DEF K, M
  <2> QED BY <1>3, <1>5, <1>7, <2>2 DEF M
<1> QED
  BY <1>6, <1>7

(* and removed if it has no children. *)
LEMMA AllottedLess ==
  ASSUME NEW L \in SUBSET Groups, NEW par, NEW q,
         NEW b \in [Groups -> Bandwidths], NEW c \in [Groups -> Bandwidths],
         NEW g \in L, g # Root,
         \A h \in L \ {g} : q[h] = par[h] /\ c[h] = b[h],
         Allotted(L, par, b)
  PROVE  Allotted(L \ {g}, q, c)
<1> SUFFICES ASSUME NEW p \in L \ {g}
             PROVE  /\ ~ Exceeds(c[p])
                    /\ Portion(ChildrenIn(L \ {g}, q, p), c) <= to_ratio(c[p])
  BY DEF Allotted
<1> DEFINE K == ChildrenIn(L \ {g}, q, p)
           M == ChildrenIn(L, par, p)
<1>1. K \in SUBSET Groups /\ K \subseteq L \ {g} /\ g \notin K /\ g \in Groups
  BY DEF ChildrenIn
<1>2. M = IF par[g] = p THEN K \cup {g} ELSE K
  BY DEF ChildrenIn
<1>3. to_ratio(b[g]) \in Nat
  BY GroupRatio
<1>4. Portion(K, c) = Portion(K, b) /\ Portion(K, b) \in Int
  <2> HIDE DEF K
  <2> QED BY <1>1, PortionSame, PortionType
<1>5. Portion(K, b) <= Portion(M, b)
  <2> HIDE DEF K, M
  <2>1. CASE par[g] = p
    <3>1. Portion(K \cup {g}, b) = Portion(K, b) + to_ratio(b[g])
      BY <1>1, PortionAdds
    <3> QED BY <1>2, <1>3, <1>4, <2>1, <3>1
  <2> QED BY <1>2, <1>4, <2>1
<1>6. ~ Exceeds(b[p]) /\ Portion(M, b) <= to_ratio(b[p]) /\ c[p] = b[p]
  BY DEF Allotted
<1>7. M \in SUBSET Groups /\ Portion(M, b) \in Int /\ to_ratio(b[p]) \in Int
  <2>1. M \in SUBSET Groups
    BY DEF ChildrenIn
  <2> HIDE DEF M
  <2> QED BY <2>1, PortionType, GroupRatio
<1> HIDE DEF K, M
<1> QED
  BY <1>4, <1>5, <1>6, <1>7 DEF K

-----------------------------------------------------------------------------
(* What a check establishes. *)

LEMMA LiveGroups == Live \in SUBSET Groups
BY DEF Live

LEMMA RootLive == InUse /\ RGTypes => Root \in Live
<1>1. Root \in Groups /\ Root # Idling
  BY GroupsAssumption
<1> QED
  BY <1>1 DEF InUse, Live

LEMMA NotIdling ==
  /\ \A c \in Requests : c # Idling
  /\ \A a \in Attachments : a # Idling
  /\ \A a \in Sightings : a # Idling
  /\ \A h : h.at \in {"written", "passed", "refused"} => h # Idling
<1>1. \A c \in Requests : "period" \in DOMAIN c
  BY DEF Requests
<1>2. /\ \A a \in Attachments : "move" \in DOMAIN a
      /\ \A a \in Sightings : "has" \in DOMAIN a
  BY DEF Attachments, Sightings
<1>3. DOMAIN Idling = {"at"} /\ Idling.at = "idle"
  BY DEF Idling
<1> QED
  BY <1>1, <1>2, <1>3

LEMMA SchedulableFits ==
  ASSUME NEW b, rt_schedulable(b)
  PROVE  /\ Allotted(Live, parent, b)
         /\ Enabled(sysctl) =>
              \A t \in rt_task : task_group[t] \in Live => b[task_group[t]].runtime # 0
<1>1. \A g \in Live : tg_schedulable(g, b)
  BY DEF rt_schedulable
<1>2. \A g : ChildrenSum(g, b) = Portion(ChildrenIn(Live, parent, g), b)
  BY Zenon DEF ChildrenSum, Portion, Children, ChildrenIn
<1>3. Allotted(Live, parent, b)
  BY <1>1, <1>2 DEF Allotted, tg_schedulable
<1>4. ASSUME Enabled(sysctl), NEW t \in rt_task, task_group[t] \in Live
      PROVE  b[task_group[t]].runtime # 0
  BY <1>1, <1>4 DEF tg_schedulable, tg_has_rt_tasks, rt_bandwidth_enabled, Enabled
<1> QED
  BY <1>3, <1>4

(* Without a global limit what fits is schedulable. *)
LEMMA FitsIsSchedulable ==
  ASSUME NEW b \in [Groups -> Bandwidths], Allotted(Live, parent, b),
         ~ Enabled(sysctl)
  PROVE  rt_schedulable(b)
<1>1. \A g : ChildrenSum(g, b) = Portion(ChildrenIn(Live, parent, g), b)
  BY Zenon DEF ChildrenSum, Portion, Children, ChildrenIn
<1>2. to_ratio(sysctl) = RatioUnit /\ ~ rt_bandwidth_enabled
  BY DEF Enabled, to_ratio, rt_bandwidth_enabled
<1>3. \A g \in Live : ~ Exceeds(b[g]) => to_ratio(b[g]) <= RatioUnit
  BY LiveGroups, GroupRatio
<1> QED
  BY <1>1, <1>2, <1>3 DEF rt_schedulable, tg_schedulable, Allotted

LEMMA WithType ==
  ASSUME bandwidth \in [Groups -> Bandwidths], NEW c \in Requests
  PROVE  /\ With(c) \in [Groups -> Bandwidths]
         /\ With(c)[c.tg].runtime = c.runtime
         /\ \A g \in Groups \ {c.tg} : With(c)[g] = bandwidth[g]
<1>1. [period |-> c.period, runtime |-> c.runtime] \in Bandwidths /\ c.tg \in Groups
  BY DEF Requests, Bandwidths
<1> QED
  BY <1>1 DEF With

-----------------------------------------------------------------------------
(* RGInv holds at the start and in every step. *)

LEMMA RGStarts == RGInit => RGInv
<1> SUFFICES ASSUME RGInit  PROVE RGInv
  OBVIOUS
<1>1. /\ Root \in Groups /\ Idling \notin Groups /\ Root # Idling /\ RuntimeInf \notin Nat
      /\ SysctlPeriods \subseteq Nat /\ SysctlRuntimes \subseteq RuntimeValues
  BY GroupsAssumption DEF RuntimeValues
<1>2. /\ sysctl \in Limits /\ sysctl \in Bandwidths /\ sysctl.period > 0
      /\ ~ Exceeds(sysctl)
  BY <1>1 DEF RGInit, Limits, Bandwidths
<1>3. NoBandwidth \in Bandwidths /\ NoBandwidth.runtime = 0
  BY DEF NoBandwidth, Bandwidths, RuntimeValues
<1>4. Live = {Root} /\ parent[Root] = Root
  BY <1>1 DEF RGInit, Live
<1>5. RGTypes
  <2>1. bandwidth \in [Groups -> Bandwidths]
    BY <1>2, <1>3 DEF RGInit
  <2>2. def_period \in Nat \ {0}
    BY <1>2 DEF RGInit, Limits
  <2>3. parent \in [Groups -> Groups \cup {Idling}]
    BY <1>1 DEF RGInit
  <2> QED BY <1>1, <1>2, <2>1, <2>2, <2>3 DEF RGInit, RGTypes
<1>6. InUse
  BY <1>1, <1>4 DEF RGInit, InUse
<1>7. AllFits
  <2>1. ChildrenIn(Live, parent, Root) = {}
    BY <1>4 DEF ChildrenIn
  <2>2. bandwidth \in [Groups -> Bandwidths] /\ bandwidth[Root] = sysctl
    BY <1>1, <1>5 DEF RGTypes, RGInit
  <2>3. Portion(ChildrenIn(Live, parent, Root), bandwidth) = 0
    BY <2>1, <2>2, PortionType
  <2>4. to_ratio(bandwidth[Root]) \in Nat
    BY <1>1, <2>2, GroupRatio
  <2>5. Allotted(Live, parent, bandwidth)
    BY <1>2, <1>4, <2>2, <2>3, <2>4 DEF Allotted
  <2> QED BY <2>5 DEF AllFits, RGInit
<1>8. HandlerKeeps
  BY <1>2 DEF RGInit, HandlerKeeps, Sane
<1>9. TasksHaveTime
  BY DEF RGInit, TasksHaveTime
<1> QED
  BY <1>5, <1>6, <1>7, <1>8, <1>9 DEF RGInv

(* What only groups, calls and attaching tasks are changed for.            *)
LEMMA HandlerFrame ==
  ASSUME HandlerKeeps, UNCHANGED <<sysctl, handler>>
  PROVE  HandlerKeeps' /\ (Enforced' <=> Enforced)
BY Zenon DEF HandlerKeeps, Enforced, Sane, Exceeds, Enabled

LEMMA FitsFrame ==
  ASSUME AllFits, UNCHANGED <<parent, bandwidth>>, checked' \subseteq checked
  PROVE  AllFits'
<1>1. Live' = Live /\ \A c : With(c)' = With(c)
  BY DEF Live, With
<1> QED
  BY <1>1 DEF AllFits

LEMMA CreateKeeps ==
  ASSUME RGInv, NEW g \in Groups, NEW p \in Groups, sched_create_group(g, p)
  PROVE  RGInv'
<1> DEFINE new == [period |-> def_period, runtime |-> 0]
<1>1. /\ g \notin Live /\ p \in Live
      /\ parent' = [parent EXCEPT ![g] = p] /\ bandwidth' = [bandwidth EXCEPT ![g] = new]
      /\ UNCHANGED <<sysctl, handler>>
      /\ UNCHANGED <<call, checked, task_group, rt_task, seen, attaching, slipped, def_period>>
  BY DEF sched_create_group
<1>2. RGTypes /\ InUse /\ AllFits /\ HandlerKeeps /\ TasksHaveTime
  BY DEF RGInv
<1>3. Root \in Live /\ Idling \notin Groups /\ RuntimeInf \notin Nat
  BY <1>2, RootLive, GroupsAssumption
<1>4. new \in Bandwidths /\ new.runtime = 0
  BY <1>2 DEF RGTypes, Bandwidths, RuntimeValues
<1> HIDE DEF new
<1>5. /\ parent \in [Groups -> Groups \cup {Idling}]
      /\ bandwidth \in [Groups -> Bandwidths]
  BY <1>2 DEF RGTypes
<1>6. /\ bandwidth' \in [Groups -> Bandwidths]
      /\ bandwidth'[g] = new /\ \A h \in Live : bandwidth'[h] = bandwidth[h]
  BY <1>1, <1>4, <1>5, LiveGroups
<1>7. /\ parent' \in [Groups -> Groups \cup {Idling}]
      /\ parent'[g] = p /\ \A h \in Groups \ {g} : parent'[h] = parent[h]
  BY <1>1, <1>5
<1>8. Live' = Live \cup {g} /\ g # Root
  BY <1>1, <1>3, <1>7 DEF Live
<1>9. RGTypes'
  BY <1>1, <1>2, <1>6, <1>7 DEF RGTypes
<1>10. InUse'
  <2>1. parent'[Root] = Root
    BY <1>2, <1>7, <1>8, GroupsAssumption DEF InUse
  <2>2. \A h \in Live' : parent'[h] \in Live'
    BY <1>1, <1>2, <1>7, <1>8, LiveGroups DEF InUse
  <2> QED BY <1>1, <1>2, <1>8, <2>1, <2>2 DEF InUse
<1>11. ASSUME NEW b \in [Groups -> Bandwidths], NEW c \in [Groups -> Bandwidths],
              \A h \in Live : c[h] = b[h], c[g].runtime = 0,
              Allotted(Live, parent, b)
       PROVE  Allotted(Live', parent', c)
  <2> DEFINE L == Live
             q == parent'
  <2>1. L \in SUBSET Groups /\ g \in Groups \ L
    BY <1>1, LiveGroups
  <2>2. /\ \A h \in L : parent[h] \in L /\ q[h] = parent[h] /\ c[h] = b[h]
        /\ q[g] \in L
    BY <1>1, <1>2, <1>7, <1>11, LiveGroups DEF InUse
  <2>3. Allotted(L, parent, b)
    BY <1>11
  <2> HIDE DEF L, q
  <2>4. Allotted(L \cup {g}, q, c)
    BY <1>8, <1>11, <2>1, <2>2, <2>3, AllottedMore
  <2> QED BY <1>8, <2>4 DEF L, q
<1>12. AllFits'
  <2>1. Allotted(Live', parent', bandwidth')
    <3> DEFINE b == bandwidth'
    <3>1. b \in [Groups -> Bandwidths] /\ b[g].runtime = 0
      BY <1>4, <1>6
    <3>2. \A h \in Live : b[h] = bandwidth[h]
      BY <1>6
    <3>3. Allotted(Live, parent, bandwidth)
      BY <1>2 DEF AllFits
    <3> HIDE DEF b
    <3>4. Allotted(Live', parent', b)
      BY <1>5, <1>11, <3>1, <3>2, <3>3
    <3> QED BY <3>4 DEF b
  <2>2. ASSUME NEW c \in checked  PROVE Allotted(Live', parent', With(c)')
    <3> DEFINE b == With(c)
               d == With(c)'
    <3>1. c \in Requests /\ c.tg \in Live
      BY <1>2 DEF RGTypes, InUse
    <3>2. b \in [Groups -> Bandwidths] /\ \A h \in Groups \ {c.tg} : b[h] = bandwidth[h]
      BY <1>5, <3>1, WithType
    <3>3. d = [b EXCEPT ![g] = new]
      <4>1. c.tg # g
        BY <1>1, <3>1
      <4>2. [[bandwidth EXCEPT ![g] = new] EXCEPT ![c.tg] = [period |-> c.period, runtime |-> c.runtime]]
              = [[bandwidth EXCEPT ![c.tg] = [period |-> c.period, runtime |-> c.runtime]] EXCEPT ![g] = new]
        BY <1>5, <4>1
      <4> QED BY <1>1, <4>2 DEF With
    <3>4. Allotted(Live, parent, b)
      BY <1>2 DEF AllFits
    <3> HIDE DEF b, d
    <3>5. /\ d \in [Groups -> Bandwidths] /\ d[g].runtime = 0
          /\ \A h \in Live : d[h] = b[h]
      BY <1>1, <1>4, <3>2, <3>3, LiveGroups
    <3>6. Allotted(Live', parent', d)
      BY <1>11, <3>2, <3>4, <3>5
    <3> QED BY <3>6 DEF d
  <2> QED BY <1>1, <1>2, <2>1, <2>2 DEF AllFits
<1>13. HandlerKeeps' /\ (Enforced' <=> Enforced)
  BY <1>1, <1>2, HandlerFrame
<1>14. TasksHaveTime'
  <2>1. \A t \in rt_task : /\ task_group[t] \in Live
                           /\ bandwidth'[task_group[t]] = bandwidth[task_group[t]]
    BY <1>2, <1>6 DEF RGTypes, InUse
  <2>2. attaching # Idling => bandwidth'[attaching.tg] = bandwidth[attaching.tg]
    BY <1>2, <1>6 DEF InUse
  <2> QED BY <1>1, <1>2, <1>13, <2>1, <2>2 DEF TasksHaveTime
<1> QED
  BY <1>9, <1>10, <1>12, <1>13, <1>14 DEF RGInv

LEMMA DestroyKeeps ==
  ASSUME RGInv, NEW g \in Groups, sched_destroy_group(g)
  PROVE  RGInv'
<1>1. /\ g \in Live /\ g # Root /\ Children(g) = {} /\ attaching = Idling
      /\ \A t \in RtTasks : task_group[t] # g
      /\ \A c \in ({call} \ {Idling}) \cup checked : c.tg # g
      /\ parent' = [parent EXCEPT ![g] = Idling]
      /\ bandwidth' = [bandwidth EXCEPT ![g] = NoBandwidth]
      /\ UNCHANGED <<sysctl, handler>>
      /\ UNCHANGED <<call, checked, task_group, rt_task, seen, attaching, slipped, def_period>>
  BY DEF sched_destroy_group
<1>2. RGTypes /\ InUse /\ AllFits /\ HandlerKeeps /\ TasksHaveTime
  BY DEF RGInv
<1>3. Idling \notin Groups
  BY GroupsAssumption
<1>4. NoBandwidth \in Bandwidths
  BY DEF NoBandwidth, Bandwidths, RuntimeValues
<1>5. /\ parent \in [Groups -> Groups \cup {Idling}]
      /\ bandwidth \in [Groups -> Bandwidths]
  BY <1>2 DEF RGTypes
<1>6. /\ bandwidth' \in [Groups -> Bandwidths]
      /\ \A h \in Groups \ {g} : bandwidth'[h] = bandwidth[h]
  BY <1>1, <1>4, <1>5
<1>7. /\ parent' \in [Groups -> Groups \cup {Idling}]
      /\ parent'[g] = Idling /\ \A h \in Groups \ {g} : parent'[h] = parent[h]
  BY <1>1, <1>5
<1>8. Live' = Live \ {g}
  BY <1>7 DEF Live
<1>9. RGTypes'
  BY <1>1, <1>2, <1>6, <1>7 DEF RGTypes
<1>10. InUse'
  <2>1. parent'[Root] = Root
    BY <1>1, <1>2, <1>7, GroupsAssumption DEF InUse
  <2>2. \A h \in Live' : parent'[h] \in Live'
    <3>1. \A h \in Live \ {g} : parent[h] \in Live /\ parent[h] # g
      BY <1>1, <1>2 DEF InUse, Children
    <3> QED BY <1>7, <1>8, <3>1, LiveGroups
  <2>3. \A t \in RtTasks : task_group'[t] \in Live'
    BY <1>1, <1>2, <1>8 DEF InUse
  <2>4. call' # Idling => call'.tg \in Live'
    BY <1>1, <1>2, <1>8 DEF InUse
  <2>5. \A c \in checked' : c.tg \in Live'
    BY <1>1, <1>2, <1>8 DEF InUse
  <2> QED BY <1>1, <2>1, <2>2, <2>3, <2>4, <2>5 DEF InUse
<1>11. ASSUME NEW b \in [Groups -> Bandwidths], NEW c \in [Groups -> Bandwidths],
              \A h \in Live \ {g} : c[h] = b[h],
              Allotted(Live, parent, b)
       PROVE  Allotted(Live', parent', c)
  <2> DEFINE L == Live
             q == parent'
  <2>1. L \in SUBSET Groups /\ g \in L
    BY <1>1, LiveGroups
  <2>2. \A h \in L \ {g} : q[h] = parent[h] /\ c[h] = b[h]
    BY <1>7, <1>11, LiveGroups
  <2>3. Allotted(L, parent, b) /\ g # Root
    BY <1>1, <1>11
  <2> HIDE DEF L, q
  <2>4. Allotted(L \ {g}, q, c)
    BY <1>11, <2>1, <2>2, <2>3, AllottedLess
  <2> QED BY <1>8, <2>4 DEF L, q
<1>12. AllFits'
  <2>1. Allotted(Live', parent', bandwidth')
    <3> DEFINE b == bandwidth'
    <3>1. b \in [Groups -> Bandwidths] /\ \A h \in Live \ {g} : b[h] = bandwidth[h]
      BY <1>6, LiveGroups
    <3>2. Allotted(Live, parent, bandwidth)
      BY <1>2 DEF AllFits
    <3> HIDE DEF b
    <3>3. Allotted(Live', parent', b)
      BY <1>5, <1>11, <3>1, <3>2
    <3> QED BY <3>3 DEF b
  <2>2. ASSUME NEW c \in checked  PROVE Allotted(Live', parent', With(c)')
    <3> DEFINE b == With(c)
               d == With(c)'
    <3>1. c \in Requests /\ c.tg # g
      BY <1>1, <1>2 DEF RGTypes
    <3>2. b \in [Groups -> Bandwidths]
      BY <1>5, <3>1, WithType
    <3>3. d = [b EXCEPT ![g] = NoBandwidth]
      <4>1. [[bandwidth EXCEPT ![g] = NoBandwidth]
                EXCEPT ![c.tg] = [period |-> c.period, runtime |-> c.runtime]]
              = [[bandwidth EXCEPT ![c.tg] = [period |-> c.period, runtime |-> c.runtime]]
                   EXCEPT ![g] = NoBandwidth]
        BY <1>5, <3>1
      <4> QED BY <1>1, <4>1 DEF With
    <3>4. Allotted(Live, parent, b)
      BY <1>2 DEF AllFits
    <3> HIDE DEF b, d
    <3>5. d \in [Groups -> Bandwidths] /\ \A h \in Live \ {g} : d[h] = b[h]
      BY <1>4, <3>2, <3>3, LiveGroups
    <3>6. Allotted(Live', parent', d)
      BY <1>11, <3>2, <3>4, <3>5
    <3> QED BY <3>6 DEF d
  <2> QED BY <1>1, <1>2, <2>1, <2>2 DEF AllFits
<1>13. HandlerKeeps' /\ (Enforced' <=> Enforced)
  BY <1>1, <1>2, HandlerFrame
<1>14. TasksHaveTime'
  <2>1. \A t \in rt_task : bandwidth'[task_group[t]] = bandwidth[task_group[t]]
    BY <1>1, <1>2, <1>6 DEF RGTypes
  <2> QED BY <1>1, <1>2, <1>13, <2>1 DEF TasksHaveTime
<1> QED
  BY <1>9, <1>10, <1>12, <1>13, <1>14 DEF RGInv

LEMMA SetCallKeeps ==
  ASSUME RGInv, NEW g \in Groups,
         \/ \E r \in Runtimes : sched_group_set_rt_runtime(g, r)
         \/ \E p \in Periods : sched_group_set_rt_period(g, p)
  PROVE  RGInv'
<1>1. /\ g \in Live
      /\ call' \in [tg : {g}, period : Periods \cup {bandwidth[g].period},
                    runtime : Runtimes \cup {bandwidth[g].runtime}]
      /\ UNCHANGED <<parent, bandwidth>> /\ UNCHANGED <<sysctl, handler>>
      /\ UNCHANGED <<checked, task_group, rt_task, seen, attaching, slipped, def_period>>
  BY DEF sched_group_set_rt_runtime, sched_group_set_rt_period
<1>2. RGTypes /\ InUse /\ AllFits /\ HandlerKeeps /\ TasksHaveTime
  BY DEF RGInv
<1>3. bandwidth[g] \in Bandwidths
  BY <1>2 DEF RGTypes
<1>4. call' \in Requests /\ call'.tg = g
  <2>1. Periods \subseteq Nat \ {0} /\ Runtimes \subseteq RuntimeValues
    BY GroupsAssumption DEF RuntimeValues
  <2>2. bandwidth[g].period \in Nat \ {0} /\ bandwidth[g].runtime \in RuntimeValues
    BY <1>3 DEF Bandwidths
  <2> QED BY <1>1, <2>1, <2>2 DEF Requests
<1>5. RGTypes'
  BY <1>1, <1>2, <1>4 DEF RGTypes
<1>6. InUse'
  BY <1>1, <1>2, <1>4 DEF InUse, Live
<1>7. AllFits' /\ HandlerKeeps' /\ (Enforced' <=> Enforced)
  BY <1>1, <1>2, HandlerFrame, FitsFrame
<1>8. TasksHaveTime'
  BY <1>1, <1>2, <1>7 DEF TasksHaveTime
<1> QED
  BY <1>5, <1>6, <1>7, <1>8 DEF RGInv

LEMMA ChecksKeep ==
  ASSUME RGInv, tg_set_bandwidth_checks
  PROVE  RGInv'
<1>1. /\ call # Idling /\ checked = {} /\ call' = Idling
      /\ checked' = {c \in {call} : rt_schedulable(With(c))}
      /\ UNCHANGED <<parent, bandwidth>> /\ UNCHANGED <<sysctl, handler>>
      /\ UNCHANGED <<task_group, rt_task, seen, attaching, slipped, def_period>>
  BY DEF tg_set_bandwidth_checks, MutexFree
<1>2. RGTypes /\ InUse /\ AllFits /\ HandlerKeeps /\ TasksHaveTime
  BY DEF RGInv
<1>3. call \in Requests /\ call.tg \in Live /\ bandwidth \in [Groups -> Bandwidths]
  BY <1>1, <1>2 DEF RGTypes, InUse
<1>4. RGTypes'
  BY <1>1, <1>2, <1>3 DEF RGTypes
<1>5. InUse'
  BY <1>1, <1>2, <1>3 DEF InUse, Live
<1>6. HandlerKeeps' /\ (Enforced' <=> Enforced)
  BY <1>1, <1>2, HandlerFrame
<1>7. CASE checked' = {}
  <2>1. AllFits'
    BY <1>1, <1>2, <1>7, FitsFrame
  <2>2. TasksHaveTime'
    BY <1>1, <1>2, <1>6, <1>7 DEF TasksHaveTime
  <2> QED BY <1>4, <1>5, <1>6, <2>1, <2>2 DEF RGInv
<1>8. CASE checked' # {}
  <2> DEFINE b == With(call)
  <2>1. checked' = {call} /\ rt_schedulable(b)
    BY <1>1, <1>8
  <2>2. Live' = Live
    BY <1>1 DEF Live
  <2>3. /\ Allotted(Live, parent, b)
        /\ Enabled(sysctl) =>
              \A t \in rt_task : task_group[t] \in Live => b[task_group[t]].runtime # 0
    <3> HIDE DEF b
    <3> QED BY <2>1, SchedulableFits
  <2>4. AllFits'
    <3>1. \A c \in checked' : c = call
      BY <2>1
    <3>2. Allotted(Live, parent, bandwidth)
      BY <1>2 DEF AllFits
    <3>3. \A c : With(c)' = With(c)
      BY <1>1 DEF With
    <3> QED BY <1>1, <2>2, <2>3, <3>1, <3>2, <3>3 DEF AllFits
  <2>5. TasksHaveTime'
    <3>1. ASSUME Enforced, call.runtime = 0, NEW t \in rt_task
          PROVE  task_group[t] # call.tg
      <4>1. t \in RtTasks /\ task_group[t] \in Live
        BY <1>2 DEF RGTypes, InUse
      <4>2. b[task_group[t]].runtime # 0
        BY <2>3, <3>1, <4>1 DEF Enforced
      <4>3. b[call.tg].runtime = 0
        BY <1>3, <3>1, WithType
      <4> HIDE DEF b
      <4> QED BY <4>2, <4>3
    <3> QED BY <1>1, <1>2, <1>6, <2>1, <3>1 DEF TasksHaveTime
  <2> QED BY <1>4, <1>5, <1>6, <2>4, <2>5 DEF RGInv
<1> QED
  BY <1>7, <1>8

LEMMA StoresKeep ==
  ASSUME RGInv, NEW c \in checked, tg_set_bandwidth_stores(c)
  PROVE  RGInv'
<1>1. /\ bandwidth' = With(c) /\ checked' = checked \ {c}
      /\ slipped' = IF /\ attaching # Idling /\ c.runtime = 0
                       /\ attaching.tg = c.tg
                      THEN slipped \cup (attaching.move \cap rt_task) ELSE slipped
      /\ UNCHANGED <<sysctl, handler>>
      /\ UNCHANGED <<parent, call, task_group, rt_task, seen, attaching, def_period>>
  BY DEF tg_set_bandwidth_stores
<1>2. RGTypes /\ InUse /\ AllFits /\ HandlerKeeps /\ TasksHaveTime
  BY DEF RGInv
<1>3. c \in Requests /\ bandwidth \in [Groups -> Bandwidths]
  BY <1>2 DEF RGTypes
<1>4. checked' = {}
  BY <1>1, <1>2 DEF AllFits
<1>5. /\ bandwidth' \in [Groups -> Bandwidths]
      /\ bandwidth'[c.tg].runtime = c.runtime
      /\ \A g \in Groups \ {c.tg} : bandwidth'[g] = bandwidth[g]
  BY <1>1, <1>3, WithType
<1>6. slipped' \subseteq RtTasks /\ slipped \subseteq slipped'
  BY <1>1, <1>2 DEF RGTypes
<1>7. RGTypes'
  BY <1>1, <1>2, <1>4, <1>5, <1>6 DEF RGTypes
<1>8. InUse'
  BY <1>1, <1>2, <1>4 DEF InUse, Live
<1>9. AllFits'
  <2>1. Live' = Live
    BY <1>1 DEF Live
  <2>2. Allotted(Live, parent, With(c))
    BY <1>2 DEF AllFits
  <2>3. Allotted(Live', parent', bandwidth')
    BY <1>1, <2>1, <2>2
  <2> QED BY <1>4, <2>3 DEF AllFits
<1>10. HandlerKeeps' /\ (Enforced' <=> Enforced)
  BY <1>1, <1>2, HandlerFrame
<1>11. TasksHaveTime'
  <2>1. ASSUME Enforced, NEW t \in rt_task \ slipped'
        PROVE  bandwidth'[task_group[t]].runtime # 0
    <3>1. /\ bandwidth[task_group[t]].runtime # 0
          /\ c.runtime = 0 => task_group[t] # c.tg
          /\ task_group[t] \in Groups
      BY <1>2, <1>6, <2>1 DEF RGTypes, TasksHaveTime
    <3> QED BY <1>5, <3>1
  <2>2. ASSUME attaching # Idling, NEW t \in attaching.move \cap (rt_task \ slipped')
        PROVE  bandwidth'[attaching.tg].runtime # 0
    <3>1. bandwidth[attaching.tg].runtime # 0 /\ attaching.tg \in Groups
      BY <1>2, <1>6, <2>2 DEF RGTypes, TasksHaveTime, Attachments
    <3>2. ~ (c.runtime = 0 /\ attaching.tg = c.tg)
      BY <1>1, <2>2
    <3> QED BY <1>5, <3>1, <3>2
  <2> QED BY <1>1, <1>4, <1>10, <2>1, <2>2 DEF TasksHaveTime
<1> QED
  BY <1>7, <1>8, <1>9, <1>10, <1>11 DEF RGInv

LEMMA WritesKeep ==
  ASSUME RGInv, NEW new \in [period : SysctlPeriods, runtime : SysctlRuntimes],
         sched_rt_handler_writes(new)
  PROVE  RGInv'
<1>1. /\ handler = Idling
      /\ new.period = sysctl.period \/ new.runtime = sysctl.runtime
      /\ handler' = [old |-> sysctl, at |-> "written"]
      /\ sysctl' = new
      /\ UNCHANGED <<parent, bandwidth>>
      /\ UNCHANGED <<def_period, call, checked, task_group, rt_task, seen, attaching, slipped>>
  BY DEF sched_rt_handler_writes
<1>2. RGTypes /\ InUse /\ AllFits /\ HandlerKeeps /\ TasksHaveTime
  BY DEF RGInv
<1>3. new \in Limits
  BY GroupsAssumption DEF Limits, RuntimeValues
<1>4. /\ handler'.at = "written" /\ handler'.old = sysctl
      /\ handler' \in [old : Limits, at : {"written", "passed", "refused"}]
  BY <1>1, <1>2 DEF RGTypes
<1>5. handler' # Idling
  BY <1>4, NotIdling
<1>6. RGTypes'
  BY <1>1, <1>2, <1>3, <1>4 DEF RGTypes
<1>7. InUse'
  BY <1>1, <1>2 DEF InUse, Live
<1>8. AllFits'
  BY <1>1, <1>2, FitsFrame
<1>9. HandlerKeeps'
  <2>1. Sane(sysctl)
    BY <1>1, <1>2 DEF HandlerKeeps
  <2>2. Sane(handler'.old)
    BY <1>4, <2>1
  <2> QED BY <1>1, <1>4, <1>5, <2>2 DEF HandlerKeeps, Sane, Exceeds
<1>10. Enforced' => Enforced
  BY <1>1, <1>4, <1>5 DEF Enforced, Enabled
<1>11. TasksHaveTime'
  BY <1>1, <1>2, <1>10 DEF TasksHaveTime
<1> QED
  BY <1>6, <1>7, <1>8, <1>9, <1>11 DEF RGInv

(* A limit that is taken away passes the check.                            *)
LEMMA ConstraintsKeep ==
  ASSUME RGInv, sched_rt_global_constraints
  PROVE  RGInv'
<1> DEFINE sane == Sane(sysctl)
           passes == sane /\ rt_schedulable(bandwidth)
<1>1. /\ handler # Idling /\ handler.at = "written"
      /\ sane => checked = {}
      /\ handler' = [handler EXCEPT !.at = IF passes THEN "passed" ELSE "refused"]
      /\ UNCHANGED <<parent, bandwidth>>
      /\ UNCHANGED <<sysctl, def_period, call, checked, task_group, rt_task, seen,
                     attaching, slipped>>
  BY DEF sched_rt_global_constraints, Sane, MutexFree
<1>2. RGTypes /\ InUse /\ AllFits /\ HandlerKeeps /\ TasksHaveTime
  BY DEF RGInv
<1> HIDE DEF passes
<1>3. /\ handler'.at = (IF passes THEN "passed" ELSE "refused")
      /\ handler'.old = handler.old
      /\ handler' \in [old : Limits, at : {"written", "passed", "refused"}]
  <2>1. handler \in [old : Limits, at : {"written", "passed", "refused"}]
    BY <1>1, <1>2 DEF RGTypes
  <2> QED BY <1>1, <2>1
<1>4. handler' # Idling
  BY <1>3, NotIdling
<1>5. RGTypes'
  BY <1>1, <1>2, <1>3 DEF RGTypes
<1>6. InUse'
  BY <1>1, <1>2 DEF InUse, Live
<1>7. AllFits'
  BY <1>1, <1>2, FitsFrame
<1>8. passes => sane
  BY DEF passes
<1>9. ASSUME Enabled(handler.old), ~ Enabled(sysctl)
      PROVE  passes
  <2>1. handler.old.period = sysctl.period /\ Sane(handler.old)
    BY <1>1, <1>2, <1>9 DEF HandlerKeeps, Enabled
  <2>2. sane
    BY <1>9, <2>1 DEF Sane, Exceeds, Enabled
  <2>3. rt_schedulable(bandwidth)
    <3>1. bandwidth \in [Groups -> Bandwidths] /\ Allotted(Live, parent, bandwidth)
      BY <1>2 DEF RGTypes, AllFits
    <3> DEFINE b == bandwidth
    <3>2. b \in [Groups -> Bandwidths] /\ Allotted(Live, parent, b)
      BY <3>1
    <3> HIDE DEF b
    <3>3. rt_schedulable(b)
      BY <1>9, <3>2, FitsIsSchedulable
    <3> QED BY <3>3 DEF b
  <2> QED BY <2>2, <2>3 DEF passes
<1>10. HandlerKeeps'
  <2>1. Sane(handler.old)
        /\ (handler.old.period = sysctl.period \/ handler.old.runtime = sysctl.runtime)
    BY <1>1, <1>2 DEF HandlerKeeps
  <2>2. /\ Sane(handler'.old)
        /\ (handler'.old.period = sysctl.period \/ handler'.old.runtime = sysctl.runtime)
    BY <1>3, <2>1
  <2>3. handler'.at = "passed" => Sane(sysctl)
    BY <1>3, <1>8
  <2>4. handler'.at = "refused" /\ Enabled(handler'.old) => Enabled(sysctl)
    BY <1>3, <1>9
  <2> QED BY <1>1, <1>4, <2>2, <2>3, <2>4 DEF HandlerKeeps, Sane, Exceeds, Enabled
<1>11. TasksHaveTime'
  <2>1. CASE Enforced
    BY <1>1, <1>2, <2>1 DEF TasksHaveTime
  <2>2. CASE Enforced' /\ ~ Enforced
    <3>1. passes /\ Enabled(sysctl)
      BY <1>1, <1>3, <1>4, <2>2 DEF Enforced, Enabled
    <3>2. checked = {} /\ rt_schedulable(bandwidth)
      BY <1>1, <1>8, <3>1 DEF passes
    <3> DEFINE b == bandwidth
    <3>3. rt_schedulable(b)
      BY <3>2
    <3> HIDE DEF b
    <3>4. \A t \in rt_task : task_group[t] \in Live => b[task_group[t]].runtime # 0
      BY <3>1, <3>3, SchedulableFits
    <3>5. \A t \in rt_task : bandwidth[task_group[t]].runtime # 0
      BY <1>2, <3>4 DEF RGTypes, InUse, b
    <3> QED BY <1>1, <1>2, <3>2, <3>5 DEF TasksHaveTime
  <2>3. CASE ~ Enforced'
    BY <1>1, <1>2, <2>3 DEF TasksHaveTime
  <2> QED BY <2>1, <2>2, <2>3
<1> QED
  BY <1>5, <1>6, <1>7, <1>10, <1>11 DEF RGInv

LEMMA EndsKeep ==
  ASSUME RGInv, sched_rt_handler_ends
  PROVE  RGInv'
<1>1. /\ handler # Idling /\ handler.at # "written" /\ handler' = Idling
      /\ IF handler.at = "refused"
           THEN sysctl' = handler.old /\ UNCHANGED def_period
           ELSE def_period' = sysctl.period /\ UNCHANGED sysctl
      /\ UNCHANGED <<parent, bandwidth>>
      /\ UNCHANGED <<call, checked, task_group, rt_task, seen, attaching, slipped>>
  BY DEF sched_rt_handler_ends
<1>2. RGTypes /\ InUse /\ AllFits /\ HandlerKeeps /\ TasksHaveTime
  BY DEF RGInv
<1>3. /\ handler \in [old : Limits, at : {"written", "passed", "refused"}]
      /\ handler.old \in Limits
      /\ handler.at = "refused" \/ handler.at = "passed"
  BY <1>1, <1>2 DEF RGTypes
<1>4. Sane(handler.old) /\ (handler.at = "passed" => Sane(sysctl))
  BY <1>1, <1>2 DEF HandlerKeeps
<1>5. RGTypes'
  <2>1. sysctl' \in Limits
    BY <1>1, <1>2, <1>3 DEF RGTypes
  <2>2. def_period' \in Nat \ {0}
    BY <1>1, <1>2, <1>3, <1>4 DEF RGTypes, Sane, Limits
  <2> QED BY <1>1, <1>2, <2>1, <2>2 DEF RGTypes
<1>6. InUse'
  BY <1>1, <1>2 DEF InUse, Live
<1>7. AllFits'
  BY <1>1, <1>2, FitsFrame
<1>8. HandlerKeeps'
  <2>1. sysctl' = IF handler.at = "refused" THEN handler.old ELSE sysctl
    BY <1>1
  <2>2. Sane(sysctl)'
    BY <1>3, <1>4, <2>1 DEF Sane, Exceeds
  <2> QED BY <1>1, <2>2 DEF HandlerKeeps
<1>9. Enforced' => Enforced
  <2>1. CASE handler.at = "passed"
    BY <1>1, <2>1 DEF Enforced, Enabled
  <2>2. CASE handler.at = "refused"
    <3>1. Enforced' => Enabled(handler.old)
      BY <1>1, <2>2 DEF Enforced, Enabled
    <3>2. Enabled(handler.old) => Enabled(sysctl)
      BY <1>1, <1>2, <2>2 DEF HandlerKeeps
    <3> QED BY <3>1, <3>2 DEF Enforced
  <2> QED BY <1>3, <2>1, <2>2
<1>10. TasksHaveTime'
  BY <1>1, <1>2, <1>9 DEF TasksHaveTime
<1> QED
  BY <1>5, <1>6, <1>7, <1>8, <1>10 DEF RGInv

(* A task turns real time; who has checked that it is not real time, or    *)
(* tested its group, either still sees what it saw or lets it slip.        *)
LEMMA TurnsKeep ==
  ASSUME RGInv, NEW t \in RtTasks, NEW unnoticed, TurnsRealTime(t, unnoticed),
         Enabled(sysctl) /\ ~ unnoticed => bandwidth[task_group[t]].runtime # 0,
         seen' \in [RtTasks -> Sightings \cup {Idling}]
  PROVE  RGInv'
<1>1. /\ t \notin rt_task /\ rt_task' = rt_task \cup {t}
      /\ slipped' = IF unnoticed \/ LosingRuntime(task_group[t]) \/ Moving(t)
                      THEN slipped \cup {t} ELSE slipped
      /\ UNCHANGED <<parent, bandwidth>> /\ UNCHANGED <<sysctl, handler>>
      /\ UNCHANGED <<def_period, call, checked, task_group, attaching>>
  BY DEF TurnsRealTime
<1>2. RGTypes /\ InUse /\ AllFits /\ HandlerKeeps /\ TasksHaveTime
  BY DEF RGInv
<1>3. slipped' \subseteq RtTasks /\ slipped \subseteq slipped' /\ rt_task' \subseteq RtTasks
  BY <1>1, <1>2 DEF RGTypes
<1>4. RGTypes'
  BY <1>1, <1>2, <1>3 DEF RGTypes
<1>5. InUse'
  BY <1>1, <1>2 DEF InUse, Live
<1>6. AllFits' /\ HandlerKeeps' /\ (Enforced' <=> Enforced)
  BY <1>1, <1>2, HandlerFrame, FitsFrame
<1>7. TasksHaveTime'
  <2>1. ASSUME Enforced, NEW u \in rt_task' \ slipped'
        PROVE  bandwidth[task_group[u]].runtime # 0
    <3>1. CASE u = t
      <4>1. ~ unnoticed
        BY <1>1, <2>1, <3>1
      <4> QED BY <2>1, <3>1, <4>1 DEF Enforced
    <3>2. CASE u # t
      <4>1. u \in rt_task \ slipped
        BY <1>1, <1>3, <2>1, <3>2
      <4> QED BY <1>2, <2>1, <4>1 DEF TasksHaveTime
    <3> QED BY <3>1, <3>2
  <2>2. ASSUME Enforced, NEW c \in checked, c.runtime = 0, NEW u \in rt_task' \ slipped'
        PROVE  task_group[u] # c.tg
    <3>1. CASE u = t
      <4>1. ~ LosingRuntime(task_group[t])
        BY <1>1, <2>2, <3>1
      <4> QED BY <2>2, <3>1, <4>1 DEF LosingRuntime
    <3>2. CASE u # t
      <4>1. u \in rt_task \ slipped
        BY <1>1, <1>3, <2>2, <3>2
      <4> QED BY <1>2, <2>2, <4>1 DEF TasksHaveTime
    <3> QED BY <3>1, <3>2
  <2>3. ASSUME attaching # Idling, NEW u \in attaching.move \cap (rt_task' \ slipped')
        PROVE  bandwidth[attaching.tg].runtime # 0
    <3>1. u # t
      BY <1>1, <2>3 DEF Moving
    <3>2. u \in rt_task \ slipped
      BY <1>1, <1>3, <2>3, <3>1
    <3> QED BY <1>2, <2>3, <3>2 DEF TasksHaveTime
  <2> QED BY <1>1, <1>6, <2>1, <2>2, <2>3 DEF TasksHaveTime
<1> QED
  BY <1>4, <1>5, <1>6, <1>7 DEF RGInv

LEMMA RealTimeKeeps ==
  ASSUME RGInv, NEW t \in RtTasks, RunsRealTime(t) \/ RunsRealTimeUntested(t)
  PROVE  RGInv'
<1>1. seen \in [RtTasks -> Sightings \cup {Idling}]
  BY DEF RGInv, RGTypes
<1>2. CASE RunsRealTime(t)
  <2>1. /\ seen[t] # Idling /\ seen' = [seen EXCEPT ![t] = Idling]
        /\ TurnsRealTime(t, seen[t] # Seen(t))
    BY <1>2 DEF RunsRealTime
  <2>2. seen[t].enabled => seen[t].has
    BY <1>1, <2>1 DEF Sightings
  <2>3. Seen(t).enabled = Enabled(sysctl) /\ Seen(t).has = (bandwidth[task_group[t]].runtime # 0)
    BY Zenon DEF Seen, HasTime, rt_bandwidth_enabled, Enabled
  <2>4. Enabled(sysctl) /\ ~ (seen[t] # Seen(t)) => bandwidth[task_group[t]].runtime # 0
    BY <2>2, <2>3, Zenon
  <2>5. seen' \in [RtTasks -> Sightings \cup {Idling}]
    BY <1>1, <2>1
  <2> DEFINE unnoticed == seen[t] # Seen(t)
  <2>6. TurnsRealTime(t, unnoticed) /\ (Enabled(sysctl) /\ ~ unnoticed => bandwidth[task_group[t]].runtime # 0)
    BY <2>1, <2>4
  <2> HIDE DEF unnoticed
  <2> QED BY <2>5, <2>6, TurnsKeep
<1>3. CASE RunsRealTimeUntested(t)
  <2> DEFINE unnoticed == rt_bandwidth_enabled /\ ~ HasTime(task_group[t])
  <2>1. TurnsRealTime(t, unnoticed) /\ seen' = seen
    BY <1>3 DEF RunsRealTimeUntested
  <2>2. Enabled(sysctl) /\ ~ unnoticed => bandwidth[task_group[t]].runtime # 0
    BY DEF HasTime, rt_bandwidth_enabled, Enabled
  <2> HIDE DEF unnoticed
  <2> QED BY <1>1, <2>1, <2>2, TurnsKeep
<1> QED
  BY <1>2, <1>3

LEMMA TestKeeps ==
  ASSUME RGInv, NEW t \in RtTasks, TestsRuntime(t) \/ StartsAgain(t)
  PROVE  RGInv'
<1>1. /\ UNCHANGED <<parent, bandwidth>> /\ UNCHANGED <<sysctl, handler>>
      /\ UNCHANGED <<def_period, call, checked, task_group, rt_task, attaching, slipped>>
  BY DEF TestsRuntime, StartsAgain
<1>2. RGTypes /\ InUse /\ AllFits /\ HandlerKeeps /\ TasksHaveTime
  BY DEF RGInv
<1>3. seen' \in [RtTasks -> Sightings \cup {Idling}]
  <2>1. seen \in [RtTasks -> Sightings \cup {Idling}]
    BY <1>2 DEF RGTypes
  <2>2. CASE StartsAgain(t)
    BY <2>1, <2>2 DEF StartsAgain
  <2>3. CASE TestsRuntime(t)
    <3>1. /\ rt_bandwidth_enabled => HasTime(task_group[t])
          /\ seen' = [seen EXCEPT ![t] = Seen(t)]
      BY <2>3 DEF TestsRuntime
    <3>2. rt_bandwidth_enabled \in BOOLEAN /\ HasTime(task_group[t]) \in BOOLEAN
      BY Zenon DEF rt_bandwidth_enabled, HasTime
    <3>3. Seen(t) \in Sightings
      BY <3>1, <3>2, Zenon DEF Seen, Sightings
    <3> QED BY <2>1, <3>1, <3>3
  <2> QED BY <2>2, <2>3
<1>4. RGTypes'
  BY <1>1, <1>2, <1>3 DEF RGTypes
<1>5. InUse'
  BY <1>1, <1>2 DEF InUse, Live
<1>6. AllFits' /\ HandlerKeeps' /\ (Enforced' <=> Enforced)
  BY <1>1, <1>2, HandlerFrame, FitsFrame
<1>7. TasksHaveTime'
  BY <1>1, <1>2, <1>6 DEF TasksHaveTime
<1> QED
  BY <1>4, <1>5, <1>6, <1>7 DEF RGInv

LEMMA FairKeeps ==
  ASSUME RGInv, NEW t \in RtTasks, RunsFair(t)
  PROVE  RGInv'
<1>1. /\ rt_task' = rt_task \ {t} /\ slipped' = slipped \ {t}
      /\ UNCHANGED <<parent, bandwidth>> /\ UNCHANGED <<sysctl, handler>>
      /\ UNCHANGED <<def_period, call, checked, task_group, seen, attaching>>
  BY DEF RunsFair
<1>2. RGTypes /\ InUse /\ AllFits /\ HandlerKeeps /\ TasksHaveTime
  BY DEF RGInv
<1>3. RGTypes'
  BY <1>1, <1>2 DEF RGTypes
<1>4. InUse'
  BY <1>1, <1>2 DEF InUse, Live
<1>5. AllFits' /\ HandlerKeeps' /\ (Enforced' <=> Enforced)
  BY <1>1, <1>2, HandlerFrame, FitsFrame
<1>6. rt_task' \ slipped' \subseteq rt_task \ slipped
  BY <1>1
<1>7. TasksHaveTime'
  BY <1>1, <1>2, <1>5, <1>6 DEF TasksHaveTime
<1> QED
  BY <1>3, <1>4, <1>5, <1>7 DEF RGInv

(* Nothing that moves real-time tasks but what a check has let through.    *)
LEMMA CanAttachKeeps ==
  ASSUME RGInv,
         \/ \E S \in SUBSET RtTasks, g \in Groups : cpu_cgroup_can_attach(S, g)
         \/ \E t \in RtTasks : cpu_cgroup_can_attach_task(t)
  PROVE  RGInv'
<1>1. /\ UNCHANGED <<parent, bandwidth>> /\ UNCHANGED <<sysctl, handler>>
      /\ UNCHANGED <<def_period, call, checked, task_group, rt_task, seen, slipped>>
  BY Zenon DEF cpu_cgroup_can_attach, cpu_cgroup_can_attach_task
<1>2. RGTypes /\ InUse /\ AllFits /\ HandlerKeeps /\ TasksHaveTime
  BY DEF RGInv
<1>3. attaching' # Idling =>
        /\ attaching' \in Attachments /\ attaching'.tg \in Live
        /\ \A u \in attaching'.move \cap (rt_task \ slipped) :
             bandwidth[attaching'.tg].runtime # 0
  <2>1. ASSUME NEW S \in SUBSET RtTasks, NEW g \in Groups, cpu_cgroup_can_attach(S, g)
        PROVE  /\ attaching' \in Attachments /\ attaching'.tg \in Live
               /\ attaching'.move = {}
    BY <2>1 DEF cpu_cgroup_can_attach, Attachments
  <2>2. ASSUME NEW t \in RtTasks, cpu_cgroup_can_attach_task(t), attaching' # Idling
        PROVE  /\ attaching' \in Attachments /\ attaching'.tg \in Live
               /\ \A u \in attaching'.move \cap (rt_task \ slipped) :
                    bandwidth[attaching'.tg].runtime # 0
    <3>1. /\ attaching # Idling /\ sched_rt_can_attach(t, attaching.tg)
          /\ attaching' = [attaching EXCEPT !.check = @ \ {t}, !.move = @ \cup {t}]
      <4>1. /\ attaching # Idling
            /\ attaching' = IF sched_rt_can_attach(t, attaching.tg)
                 THEN [attaching EXCEPT !.check = @ \ {t}, !.move = @ \cup {t}]
                 ELSE Idling
        BY <2>2, Zenon DEF cpu_cgroup_can_attach_task
      <4> QED BY <2>2, <4>1, Zenon
    <3>2. attaching \in Attachments
      BY <1>2, <3>1 DEF RGTypes
    <3>3. attaching' \in Attachments /\ attaching'.tg = attaching.tg
          /\ attaching'.move = attaching.move \cup {t}
      BY <3>1, <3>2 DEF Attachments
    <3>4. t \in rt_task => bandwidth[attaching.tg].runtime # 0
      BY <3>1 DEF sched_rt_can_attach, HasTime
    <3>5. attaching.tg \in Live
      BY <1>2, <3>1 DEF InUse
    <3>6. \A u \in attaching.move \cap (rt_task \ slipped) : bandwidth[attaching.tg].runtime # 0
      BY <1>2, <3>1 DEF TasksHaveTime
    <3> QED BY <3>3, <3>4, <3>5, <3>6
  <2> QED BY <2>1, <2>2
<1>4. RGTypes'
  BY <1>1, <1>2, <1>3 DEF RGTypes
<1>5. InUse'
  BY <1>1, <1>2, <1>3 DEF InUse, Live
<1>6. AllFits' /\ HandlerKeeps' /\ (Enforced' <=> Enforced)
  BY <1>1, <1>2, HandlerFrame, FitsFrame
<1>7. TasksHaveTime'
  BY <1>1, <1>2, <1>3, <1>6 DEF TasksHaveTime
<1> QED
  BY <1>4, <1>5, <1>6, <1>7 DEF RGInv

LEMMA AttachKeeps ==
  ASSUME RGInv, NEW t \in RtTasks, cpu_cgroup_attach(t)
  PROVE  RGInv'
<1> DEFINE g == attaching.tg
<1>1. /\ attaching # Idling /\ t \in attaching.move
      /\ task_group' = [task_group EXCEPT ![t] = g]
      /\ attaching' = IF attaching.move = {t} THEN Idling
                        ELSE [attaching EXCEPT !.move = @ \ {t}]
      /\ slipped' = IF LosingRuntime(g)
                      THEN slipped \cup ({t} \cap rt_task) ELSE slipped
      /\ UNCHANGED <<parent, bandwidth>> /\ UNCHANGED <<sysctl, handler>>
      /\ UNCHANGED <<def_period, call, checked, rt_task, seen>>
  BY DEF cpu_cgroup_attach, Moving
<1>2. RGTypes /\ InUse /\ AllFits /\ HandlerKeeps /\ TasksHaveTime
  BY DEF RGInv
<1>3. attaching \in Attachments /\ g \in Groups /\ g \in Live
  BY <1>1, <1>2 DEF RGTypes, InUse, Attachments
<1>4. \A u \in attaching.move \cap (rt_task \ slipped) : bandwidth[g].runtime # 0
  BY <1>1, <1>2 DEF TasksHaveTime
<1>5. attaching' # Idling =>
        /\ attaching' \in Attachments /\ attaching'.tg = g
        /\ attaching'.move \subseteq attaching.move
  BY <1>1, <1>3 DEF Attachments
<1> HIDE DEF g
<1>6. /\ task_group' \in [RtTasks -> Groups] /\ task_group'[t] = g
      /\ \A u \in RtTasks \ {t} : task_group'[u] = task_group[u]
  BY <1>1, <1>2, <1>3 DEF RGTypes
<1>7. slipped' \subseteq RtTasks /\ slipped \subseteq slipped' /\ rt_task \subseteq RtTasks
  BY <1>1, <1>2, <1>3 DEF RGTypes
<1>8. RGTypes'
  BY <1>1, <1>2, <1>5, <1>6, <1>7 DEF RGTypes
<1>9. InUse'
  BY <1>1, <1>2, <1>3, <1>5, <1>6 DEF InUse, Live
<1>10. AllFits' /\ HandlerKeeps' /\ (Enforced' <=> Enforced)
  BY <1>1, <1>2, HandlerFrame, FitsFrame
<1>11. TasksHaveTime'
  <2>1. ASSUME Enforced, NEW u \in rt_task \ slipped'
        PROVE  bandwidth[task_group'[u]].runtime # 0
    BY <1>1, <1>2, <1>4, <1>6, <1>7, <2>1 DEF TasksHaveTime
  <2>2. ASSUME Enforced, NEW c \in checked, c.runtime = 0, NEW u \in rt_task \ slipped'
        PROVE  task_group'[u] # c.tg
    <3>1. CASE u = t
      <4>1. ~ LosingRuntime(g)
        BY <1>1, <2>2, <3>1
      <4> QED BY <1>6, <2>2, <3>1, <4>1 DEF LosingRuntime
    <3>2. CASE u # t
      BY <1>2, <1>6, <1>7, <2>2, <3>2 DEF TasksHaveTime
    <3> QED BY <3>1, <3>2
  <2>3. attaching' # Idling => \A u \in attaching'.move \cap (rt_task \ slipped') :
          bandwidth[attaching'.tg].runtime # 0
    BY <1>4, <1>5, <1>7
  <2> QED BY <1>1, <1>10, <2>1, <2>2, <2>3 DEF TasksHaveTime
<1> QED
  BY <1>8, <1>9, <1>10, <1>11 DEF RGInv

LEMMA RGStep ==
  ASSUME RGInv, [RGNext]_rgVars
  PROVE  RGInv'
<1>1. CASE UNCHANGED rgVars
  <2>1. /\ UNCHANGED <<parent, bandwidth>> /\ UNCHANGED <<sysctl, handler>>
        /\ UNCHANGED <<def_period, call, checked, task_group, rt_task, seen, attaching, slipped>>
    BY <1>1 DEF rgVars
  <2>2. RGTypes /\ InUse /\ AllFits /\ HandlerKeeps /\ TasksHaveTime
    BY DEF RGInv
  <2>3. RGTypes' /\ InUse'
    BY <2>1, <2>2 DEF RGTypes, InUse, Live
  <2>4. AllFits' /\ HandlerKeeps' /\ (Enforced' <=> Enforced)
    BY <2>1, <2>2, HandlerFrame, FitsFrame
  <2>5. TasksHaveTime'
    BY <2>1, <2>2, <2>4 DEF TasksHaveTime
  <2> QED BY <2>3, <2>4, <2>5 DEF RGInv
<1>2. CASE \E g \in Groups : sched_destroy_group(g)
  BY <1>2, DestroyKeeps
<1>3. CASE \E g \in Groups : \E p \in Groups : sched_create_group(g, p)
  BY <1>3, CreateKeeps
<1>4. CASE \E g \in Groups :
             \/ \E r \in Runtimes : sched_group_set_rt_runtime(g, r)
             \/ \E p \in Periods : sched_group_set_rt_period(g, p)
  BY <1>4, SetCallKeeps
<1>5. CASE \/ \E g \in Groups : \E S \in SUBSET RtTasks : cpu_cgroup_can_attach(S, g)
           \/ \E t \in RtTasks : cpu_cgroup_can_attach_task(t)
  BY <1>5, CanAttachKeeps
<1>6. CASE \E t \in RtTasks : \/ TestsRuntime(t) \/ RunsRealTime(t) \/ StartsAgain(t)
                              \/ RunsRealTimeUntested(t) \/ RunsFair(t)
                              \/ cpu_cgroup_attach(t)
  BY <1>6, RealTimeKeeps, TestKeeps, FairKeeps, AttachKeeps
<1>7. CASE \E new \in [period : SysctlPeriods, runtime : SysctlRuntimes] :
             sched_rt_handler_writes(new)
  BY <1>7, WritesKeep
<1>8. CASE tg_set_bandwidth_checks
  BY <1>8, ChecksKeep
<1>9. CASE \E c \in checked : tg_set_bandwidth_stores(c)
  BY <1>9, StoresKeep
<1>10. CASE sched_rt_global_constraints \/ sched_rt_handler_ends
  BY <1>10, ConstraintsKeep, EndsKeep
<1> QED
  BY <1>1, <1>2, <1>3, <1>4, <1>5, <1>6, <1>7, <1>8, <1>9, <1>10, Zenon DEF RGNext

(* Real time stays schedulable, for any number of groups and tasks and any *)
(* runtimes and periods: the children of a group never have more than the  *)
(* group, and no group loses or lacks the time of a real-time task that    *)
(* whoever decided could see (tg_set_bandwidth, sched_rt_handler, the test *)
(* of __sched_setscheduler, cpu_cgroup_can_attach); tasks that turned real *)
(* time untested, or between such a check and its use, are excepted.       *)
THEOREM RealTimeStaysSchedulable == RGSpec => []RtSchedulable
<1>1. RGInv => RtSchedulable
  <2> SUFFICES ASSUME RGInv  PROVE RtSchedulable
    OBVIOUS
  <2>1. \A g : ChildrenSum(g, bandwidth) = Portion(ChildrenIn(Live, parent, g), bandwidth)
    BY Zenon DEF ChildrenSum, Portion, Children, ChildrenIn
  <2>2. ChildrenFit
    BY <2>1 DEF RGInv, AllFits, Allotted, ChildrenFit
  <2>3. rt_bandwidth_enabled /\ handler = Idling => Enforced
    BY DEF rt_bandwidth_enabled, Enforced, Enabled
  <2>4. TimeForRtTasks
    BY <2>3 DEF RGInv, TasksHaveTime, TimeForRtTasks
  <2> QED BY <2>2, <2>4 DEF RtSchedulable
<1>2. RGInv /\ [RGNext]_rgVars => RGInv'
  BY RGStep
<1> QED
  BY <1>1, <1>2, RGStarts, PTL DEF RGSpec
=============================================================================
