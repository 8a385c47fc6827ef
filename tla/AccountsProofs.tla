--------------------------- MODULE AccountsProofs ---------------------------
(***************************************************************************)
(* Proofs about completions and sleep_on (Completion) and about the load   *)
(* statistics (LoadAverage), for every set of tasks and of CPUs.           *)
(***************************************************************************)
EXTENDS Completion, LoadAverage, CountingProofs

-----------------------------------------------------------------------------
(***************************************************************************)
(* Completions.  The invariant: a queue has a task once, and exactly while *)
(* the task is inside the function that queued it; so the entry that a     *)
(* function takes off is its own, and taking a completion removes one      *)
(* awake waiter together with one completion.                              *)
(***************************************************************************)
Calling == [at : {"wait", "begins", "sleep_on"}, state : WaitStates,
            timed : BOOLEAN]

CTypes ==
  /\ done \in Nat
  /\ queue \in Seq(Tasks) /\ sleepers \in Seq(Tasks)
  /\ state \in [Tasks -> {{}} \cup WaitStates]
  /\ call \in [Tasks -> {None} \cup Calling]

Entries ==
  /\ Distinct(queue) /\ Distinct(sleepers)
  /\ Elements(queue) = {p \in Tasks : call[p].at = "wait"}
  /\ Elements(sleepers) = {p \in Tasks : call[p].at = "sleep_on"}

CInv == CTypes /\ Entries /\ NoLostCompletion

LEMMA WaitingIsElements == \A q : Waiting(q) = Elements(q)
  BY DEF Waiting, Elements

(* list_del takes the one entry of p off the queue it is in. *)
LEMMA LeaveProperties ==
  ASSUME NEW q \in Seq(Tasks), Distinct(q), NEW p \in Elements(q)
  PROVE  /\ Leave(p, q) \in Seq(Tasks) /\ Distinct(Leave(p, q))
         /\ Elements(Leave(p, q)) = Elements(q) \ {p}
<1>1. PICK i \in 1 .. Len(q) : q[i] = p
  BY DEF Elements
<1> DEFINE k == CHOOSE j \in 1 .. Len(q) : q[j] = p
<1>2. k \in 1 .. Len(q) /\ q[k] = p
  BY <1>1
<1> HIDE DEF k
<1>3. /\ RemoveAt(q, k) \in Seq(Tasks) /\ Distinct(RemoveAt(q, k))
      /\ Elements(RemoveAt(q, k)) = Elements(q) \ {q[k]}
  BY <1>2, DistinctRemove, ZenonT(60)
<1> QED
  BY <1>2, <1>3 DEF Leave, k

(* A wake-up only wakes. *)
LEMMA WakeOnlyWakes ==
  ASSUME CTypes, NEW W, Wake(W)
  PROVE  /\ state' \in [Tasks -> {{}} \cup WaitStates]
         /\ \A p \in Tasks : state'[p] = {} \/ state'[p] = state[p]
         /\ \A p \in Tasks : p \in W => state'[p] = {}
  BY DEF CTypes, Wake

(* A queue that has a sleeping task has no more completions than awake     *)
(* waiters; this is kept by whatever wakes tasks and queues nobody.        *)
LEMMA WakingKeeps ==
  ASSUME CompletionAssumption, CInv, queue' = queue, done' = done,
         \A p \in Tasks : state[p] = {} => state'[p] = {},
         \A p \in Tasks : state'[p] # {} => state[p] # {}
  PROVE  NoLostCompletion'
<1> DEFINE A == {p \in Waiting(queue) : state[p] = {}}
           B == {p \in Waiting(queue) : state'[p] = {}}
<1>1. Waiting(queue) \subseteq Tasks
  BY WaitingIsElements DEF CInv, Entries
<1>2. IsFiniteSet(B) /\ A \subseteq B
  <2>1. IsFiniteSet(Tasks) /\ B \subseteq Tasks /\ A \subseteq B
    BY <1>1 DEF CompletionAssumption
  <2> HIDE DEF A, B
  <2> QED BY <2>1, FS_Subset
<1>3. Cardinality(A) <= Cardinality(B) /\ Cardinality(A) \in Nat /\ Cardinality(B) \in Nat
  <2> HIDE DEF A, B
  <2> QED BY <1>2, FS_Subset, FS_CardinalityType
<1>4. SUFFICES ASSUME \E p \in Waiting(queue) : state'[p] # {}
               PROVE  done <= Cardinality(B)
  BY DEF NoLostCompletion, Waiting
<1>5. done <= Cardinality(A)
  BY <1>1, <1>4 DEF CInv, NoLostCompletion
<1> HIDE DEF A, B
<1> QED
  BY <1>3, <1>5 DEF CInv, CTypes

(* complete wakes a waiter, if one of them sleeps. *)
LEMMA CompleteWakesOne ==
  ASSUME CInv, NEW p \in Elements(queue), state[p] # {}
  PROVE  \E w \in Woken(queue, TASK_NORMAL, 1) :
           w \in Elements(queue) /\ state[w] # {}
<1> DEFINE wakes == {j \in 1 .. Len(queue) : CanWake(queue[j], TASK_NORMAL)}
<1>1. PICK i \in 1 .. Len(queue) : queue[i] = p
  BY DEF Elements
<1>2. p \in Tasks /\ state[p] \in WaitStates
  BY DEF CInv, CTypes, Entries
<1>3. i \in wakes
  BY <1>1, <1>2 DEF CanWake, TASK_NORMAL, WaitStates
<1>4. PICK j \in wakes : \A k \in wakes : j <= k
  <2>1. wakes \in SUBSET Nat
    OBVIOUS
  <2> HIDE DEF wakes
  <2> QED BY <1>3, <2>1, LeastElement
<1>5. Cardinality({k \in wakes : k < j}) = 0
  <2>1. {k \in wakes : k < j} = {}
    BY <1>4
  <2> HIDE DEF wakes
  <2> QED BY <2>1, FS_EmptySet
<1>6. queue[j] \in Woken(queue, TASK_NORMAL, 1)
  <2>1. Cardinality({k \in wakes : k < j}) < 1
    BY <1>5
  <2> QED BY <1>4, <2>1 DEF Woken
<1>7. queue[j] \in Elements(queue) /\ state[queue[j]] # {}
  BY <1>4 DEF Elements, CanWake
<1> QED
  BY <1>6, <1>7

LEMMA CInitial ==
  ASSUME CInit
  PROVE  CInv
<1>1. CTypes
  BY DEF CInit, CTypes, None
<1>2. Entries
  BY DEF CInit, Entries, Elements, Distinct, None
<1>3. NoLostCompletion
  BY DEF CInit, NoLostCompletion, Waiting
<1> QED
  BY <1>1, <1>2, <1>3 DEF CInv

(* The counter wraps: what is left never exceeds what was added up. *)
LEMMA Wrapped ==
  ASSUME NEW a \in Nat, NEW m \in Nat \ {0}
  PROVE  a % m \in Nat /\ a % m <= a
<1>1. a % m \in 0 .. m - 1
  OBVIOUS
<1>2. a < m => a % m = a
  OBVIOUS
<1> QED
  BY <1>1, <1>2

LEMMA CComplete ==
  ASSUME CompletionAssumption, CInv, complete
  PROVE  CInv'
<1>1. done' \in Nat /\ done' <= done + 1
  <2>1. done + 1 \in Nat /\ UINT_MAX + 1 \in Nat \ {0}
    BY DEF CInv, CTypes, CompletionAssumption
  <2>2. (done + 1) % (UINT_MAX + 1) \in Nat
        /\ (done + 1) % (UINT_MAX + 1) <= done + 1
    BY <2>1, Wrapped
  <2> QED BY <2>2 DEF complete
<1> DEFINE W == Woken(queue, TASK_NORMAL, 1)
<1>2. /\ state' \in [Tasks -> {{}} \cup WaitStates]
      /\ \A p \in Tasks : state'[p] = {} \/ state'[p] = state[p]
      /\ \A p \in Tasks : p \in W => state'[p] = {}
  BY WakeOnlyWakes DEF CInv, complete
<1>3. CTypes'
  BY <1>1, <1>2 DEF CInv, CTypes, complete
<1>4. Entries'
  BY DEF CInv, Entries, complete, Elements, Distinct
<1>5. NoLostCompletion'
  <2> DEFINE A == {p \in Waiting(queue) : state[p] = {}}
             B == {p \in Waiting(queue) : state'[p] = {}}
  <2>1. queue' = queue
    BY DEF complete
  <2>2. SUFFICES ASSUME NEW p \in Elements(queue), state'[p] # {}
                 PROVE  done' <= Cardinality(B)
    BY <2>1, WaitingIsElements DEF NoLostCompletion
  <2>3. Elements(queue) \subseteq Tasks
    BY DEF CInv, Entries
  <2>4. state[p] # {} /\ done <= Cardinality(A)
    BY <1>2, <2>2, <2>3, WaitingIsElements DEF CInv, NoLostCompletion
  <2>5. PICK w \in W : w \in Elements(queue) /\ state[w] # {}
    BY <2>4, CompleteWakesOne
  <2>6. A \cup {w} \subseteq B /\ w \notin A /\ B \subseteq Tasks
    BY <1>2, <2>3, <2>5, WaitingIsElements
  <2> HIDE DEF A, B, W
  <2>7. IsFiniteSet(B) /\ IsFiniteSet(A)
    BY <2>6, FS_Subset DEF CompletionAssumption
  <2>8. Cardinality(A \cup {w}) = Cardinality(A) + 1
    BY <2>6, <2>7, FS_AddElement
  <2>9. /\ Cardinality(A \cup {w}) <= Cardinality(B)
        /\ Cardinality(A) \in Nat /\ Cardinality(B) \in Nat
    BY <2>6, <2>7, FS_Subset, FS_CardinalityType
  <2> QED
    BY <1>1, <2>4, <2>8, <2>9 DEF CInv, CTypes
<1> QED
  BY <1>3, <1>4, <1>5 DEF CInv

LEMMA CCompleteAll ==
  ASSUME CompletionAssumption, CInv, complete_all
  PROVE  CInv'
<1>1. done' \in Nat
  <2>1. done + UINT_MAX \div 2 \in Nat /\ UINT_MAX + 1 \in Nat \ {0}
    BY DEF CInv, CTypes, CompletionAssumption
  <2>2. (done + UINT_MAX \div 2) % (UINT_MAX + 1) \in Nat
    BY <2>1, Wrapped
  <2> QED BY <2>2 DEF complete_all
<1> DEFINE W == Woken(queue, TASK_NORMAL, 0)
<1>2. /\ state' \in [Tasks -> {{}} \cup WaitStates]
      /\ \A p \in Tasks : state'[p] = {} \/ state'[p] = state[p]
      /\ \A p \in Tasks : p \in W => state'[p] = {}
  BY WakeOnlyWakes DEF CInv, complete_all
<1>3. CTypes'
  BY <1>1, <1>2 DEF CInv, CTypes, complete_all
<1>4. Entries'
  <2>1. queue' = queue /\ sleepers' = sleepers /\ call' = call
    BY DEF complete_all
  <2> QED BY <2>1 DEF CInv, Entries, Elements, Distinct
<1>5. \A p \in Elements(queue) : state'[p] = {}
  <2> SUFFICES ASSUME NEW p \in Elements(queue), state'[p] # {}
               PROVE  FALSE
    OBVIOUS
  <2>1. p \in Tasks /\ state[p] \in WaitStates
    BY <1>2 DEF CInv, CTypes, Entries
  <2>2. PICK i \in 1 .. Len(queue) : queue[i] = p
    BY DEF Elements
  <2>3. CanWake(queue[i], TASK_NORMAL)
    BY <2>1, <2>2 DEF CanWake, TASK_NORMAL, WaitStates
  <2>4. p \in W
    BY <2>2, <2>3 DEF Woken
  <2> QED BY <1>2, <2>1, <2>4
<1>6. NoLostCompletion'
  <2>1. queue' = queue
    BY DEF complete_all
  <2> QED BY <1>5, <2>1, WaitingIsElements DEF NoLostCompletion
<1> QED
  BY <1>3, <1>4, <1>6 DEF CInv

(* A wake-up of the other queue, a timer and a signal: tasks wake, and     *)
(* nothing else changes that the invariant speaks of.                      *)
LEMMA CWakes ==
  ASSUME CompletionAssumption, CInv, NEW W, Wake(W),
         UNCHANGED <<done, queue, sleepers, call>>
  PROVE  CInv'
<1>1. /\ state' \in [Tasks -> {{}} \cup WaitStates]
      /\ \A p \in Tasks : state'[p] = {} \/ state'[p] = state[p]
  BY WakeOnlyWakes DEF CInv
<1>2. CTypes'
  BY <1>1 DEF CInv, CTypes
<1>3. Entries'
  BY DEF CInv, Entries, Elements, Distinct
<1>4. NoLostCompletion'
  BY <1>1, WakingKeeps
<1> QED
  BY <1>2, <1>3, <1>4 DEF CInv

(* A call of wait_for_completion, up to where it sleeps. *)
LEMMA CWaitBegins ==
  ASSUME CompletionAssumption, CInv, NEW p \in Tasks, NEW s \in WaitStates,
         NEW timed \in BOOLEAN, wait_for_common(p, s, timed)
  PROVE  CInv'
<1>1. CASE call' = [call EXCEPT ![p] = None] /\ queue' = queue
           /\ state' = state /\ sleepers' = sleepers
           /\ (done' = done \/ (done > 0 /\ done' = done - 1))
  <2>1. call' = call
    BY <1>1 DEF CInv, CTypes, wait_for_common
  <2>2. CTypes' /\ done' <= done
    BY <1>1, <2>1 DEF CInv, CTypes
  <2>3. Entries'
    BY <1>1, <2>1 DEF CInv, Entries, Elements, Distinct
  <2>4. Cardinality({q \in Waiting(queue) : state[q] = {}}) \in Nat
    <3>1. {q \in Waiting(queue) : state[q] = {}} \subseteq Tasks
      BY WaitingIsElements DEF CInv, Entries
    <3> QED BY <3>1, FS_Subset, FS_CardinalityType DEF CompletionAssumption
  <2>5. NoLostCompletion'
    BY <1>1, <2>2, <2>4 DEF CInv, CTypes, NoLostCompletion, Waiting
  <2> QED BY <2>2, <2>3, <2>5 DEF CInv
<1>2. CASE /\ done = 0 /\ done' = done
           /\ queue' = Append(queue, p)
           /\ state' = [state EXCEPT ![p] = s]
           /\ call' = [call EXCEPT ![p] = Inside("wait", s, timed)]
           /\ sleepers' = sleepers
  <2>1. call[p] = None /\ p \notin Elements(queue) /\ p \notin Elements(sleepers)
    BY DEF wait_for_common, CInv, Entries, None
  <2>2. /\ queue' \in Seq(Tasks) /\ Distinct(queue')
        /\ Elements(queue') = Elements(queue) \cup {p}
    BY <1>2, <2>1, DistinctAppend DEF CInv, CTypes, Entries
  <2>3. Inside("wait", s, timed) \in Calling
    BY DEF Inside, Calling
  <2>4. CTypes'
    BY <1>2, <2>2, <2>3 DEF CInv, CTypes
  <2>5. \A q \in Tasks : call'[q] = IF q = p THEN Inside("wait", s, timed) ELSE call[q]
    BY <1>2 DEF CInv, CTypes
  <2>6. Entries'
    BY <1>2, <2>1, <2>2, <2>5 DEF CInv, Entries, Inside, None, Distinct, Elements
  <2>7. {q \in Waiting(queue') : state'[q] = {}} \subseteq Tasks
    BY <2>2, WaitingIsElements DEF CInv, Entries
  <2>8. Cardinality({q \in Waiting(queue') : state'[q] = {}}) \in Nat
    BY <2>7, FS_Subset, FS_CardinalityType DEF CompletionAssumption
  <2>9. NoLostCompletion'
    BY <1>2, <2>8 DEF NoLostCompletion
  <2> QED BY <2>4, <2>6, <2>9 DEF CInv
<1> QED
  BY <1>1, <1>2 DEF wait_for_common, Return

(* p returns from its wait, and its entry goes with it. *)
LEMMA EntryGoes ==
  ASSUME CInv, NEW p \in Tasks, call[p].at = "wait",
         queue' = Leave(p, queue), Return(p), UNCHANGED <<sleepers, state>>
  PROVE  /\ queue' \in Seq(Tasks) /\ call' \in [Tasks -> {None} \cup Calling]
         /\ Entries' /\ Elements(queue') = Elements(queue) \ {p}
<1>1. p \in Elements(queue)
  BY DEF CInv, Entries
<1>2. /\ queue' \in Seq(Tasks) /\ Distinct(queue')
      /\ Elements(queue') = Elements(queue) \ {p}
  BY <1>1, LeaveProperties DEF CInv, CTypes, Entries
<1>3. /\ call' \in [Tasks -> {None} \cup Calling]
      /\ \A q \in Tasks : call'[q] = IF q = p THEN None ELSE call[q]
  BY DEF Return, CInv, CTypes
<1>4. Elements(queue)' = {q \in Tasks : call'[q].at = "wait"}
  <2>1. Elements(queue) = {q \in Tasks : call[q].at = "wait"}
    BY DEF CInv, Entries
  <2>2. \A q \in Tasks : call'[q].at = "wait" <=> call[q].at = "wait" /\ q # p
    BY <1>3 DEF None
  <2> QED BY <1>2, <2>1, <2>2
<1>5. Elements(sleepers)' = {q \in Tasks : call'[q].at = "sleep_on"}
  <2>1. Elements(sleepers) = {q \in Tasks : call[q].at = "sleep_on"}
    BY DEF CInv, Entries
  <2>2. \A q \in Tasks : call'[q].at = "sleep_on" <=> call[q].at = "sleep_on"
    BY <1>3 DEF None
  <2> QED BY <2>1, <2>2
<1>6. Distinct(queue)' /\ Distinct(sleepers)'
  BY <1>2 DEF CInv, Entries
<1>7. Entries'
  BY <1>4, <1>5, <1>6 DEF Entries
<1> QED
  BY <1>2, <1>3, <1>7

LEMMA CWaitResumes ==
  ASSUME CompletionAssumption, CInv, NEW p \in Tasks, WaitResumes(p)
  PROVE  CInv'
<1> DEFINE A == {q \in Waiting(queue) : state[q] = {}}
           B == {q \in Waiting(queue') : state[q] = {}}
<1>1. /\ A \subseteq Tasks /\ IsFiniteSet(A) /\ Cardinality(A) \in Nat
      /\ p \in A
  <2>1. A \subseteq Tasks /\ p \in A
    BY WaitingIsElements DEF CInv, Entries, WaitResumes
  <2> HIDE DEF A
  <2> QED BY <2>1, FS_Subset, FS_CardinalityType DEF CompletionAssumption
<1>2. ASSUME queue' = Leave(p, queue), Return(p), state' = state
      PROVE  /\ Cardinality(B) = Cardinality(A) - 1
             /\ Elements(queue') \subseteq Elements(queue)
             /\ done' \in Nat => CTypes'
             /\ Entries'
  <2>1. /\ queue' \in Seq(Tasks) /\ call' \in [Tasks -> {None} \cup Calling]
        /\ Entries' /\ Elements(queue') = Elements(queue) \ {p}
    BY <1>2, EntryGoes DEF WaitResumes
  <2>2. B = A \ {p}
    BY <2>1, WaitingIsElements
  <2> HIDE DEF A, B
  <2>3. Cardinality(B) = Cardinality(A) - 1
    BY <1>1, <2>2, FS_RemoveElement
  <2> QED
    BY <1>2, <2>1, <2>3 DEF CTypes, CInv, WaitResumes
<1>3. CASE /\ done > 0 /\ done' = done - 1
           /\ queue' = Leave(p, queue) /\ Return(p) /\ state' = state
  <2>1. CTypes' /\ Entries'
    BY <1>2, <1>3 DEF CInv, CTypes
  <2>2. SUFFICES ASSUME NEW q \in Elements(queue'), state[q] # {}
                 PROVE  done' <= Cardinality(B)
    BY <1>3, <2>1, WaitingIsElements DEF CInv, NoLostCompletion
  <2>3. done <= Cardinality(A)
    BY <1>2, <1>3, <2>2, WaitingIsElements DEF CInv, NoLostCompletion
  <2> HIDE DEF A, B
  <2> QED BY <1>1, <1>2, <1>3, <2>3 DEF CInv, CTypes
<1>4. CASE /\ done = 0 /\ done' = done
           /\ queue' = Leave(p, queue) /\ Return(p) /\ state' = state
  <2>1. CTypes' /\ Entries'
    BY <1>2, <1>4 DEF CInv, CTypes
  <2>2. B \subseteq Tasks
    BY <1>2, <1>4, WaitingIsElements DEF CInv, Entries
  <2>3. Cardinality(B) \in Nat
    <3> HIDE DEF B
    <3> QED BY <2>2, FS_Subset, FS_CardinalityType DEF CompletionAssumption
  <2>4. NoLostCompletion'
    BY <1>4, <2>3 DEF NoLostCompletion
  <2> QED BY <2>1, <2>4 DEF CInv
<1>5. CASE /\ done = 0 /\ state' = [state EXCEPT ![p] = call[p].state]
           /\ UNCHANGED <<done, queue, call, sleepers>>
  <2>1. call[p] \in Calling
    BY DEF CInv, CTypes, WaitResumes, None
  <2>2. CTypes'
    BY <1>5, <2>1 DEF CInv, CTypes, Calling
  <2>3. Entries'
    BY <1>5 DEF CInv, Entries, Elements, Distinct
  <2>4. {q \in Waiting(queue) : state'[q] = {}} \subseteq Tasks
    BY WaitingIsElements DEF CInv, Entries
  <2>5. Cardinality({q \in Waiting(queue) : state'[q] = {}}) \in Nat
    BY <2>4, FS_Subset, FS_CardinalityType DEF CompletionAssumption
  <2>6. NoLostCompletion'
    BY <1>5, <2>5 DEF NoLostCompletion, Waiting
  <2> QED BY <2>2, <2>3, <2>6 DEF CInv
<1> QED
  BY <1>3, <1>4, <1>5 DEF WaitResumes

LEMMA CTryWait ==
  ASSUME CompletionAssumption, CInv, try_wait_for_completion
  PROVE  CInv'
<1>1. CTypes' /\ done' <= done
  BY DEF CInv, CTypes, try_wait_for_completion
<1>2. Entries'
  BY DEF CInv, Entries, Elements, Distinct, try_wait_for_completion
<1>3. Cardinality({q \in Waiting(queue) : state[q] = {}}) \in Nat
  <2>1. {q \in Waiting(queue) : state[q] = {}} \subseteq Tasks
    BY WaitingIsElements DEF CInv, Entries
  <2> QED BY <2>1, FS_Subset, FS_CardinalityType DEF CompletionAssumption
<1>4. NoLostCompletion'
  BY <1>1, <1>3
  DEF CInv, CTypes, NoLostCompletion, Waiting, try_wait_for_completion
<1> QED
  BY <1>1, <1>2, <1>4 DEF CInv

(* sleep_on: the caller is in neither queue, then in that of the sleepers. *)
LEMMA CSleepOnBegins ==
  ASSUME CompletionAssumption, CInv, NEW p \in Tasks, NEW s \in WaitStates,
         NEW timed \in BOOLEAN, SleepOnBegins(p, s, timed)
  PROVE  CInv'
<1>1. /\ p \notin Elements(queue) /\ p \notin Elements(sleepers)
      /\ queue' = queue /\ sleepers' = sleepers /\ done' = done
  BY DEF CInv, Entries, SleepOnBegins, None
<1>2. Inside("begins", s, timed) \in Calling
  BY DEF Inside, Calling
<1>3. CTypes'
  BY <1>2 DEF CInv, CTypes, SleepOnBegins
<1>4. \A q \in Tasks :
         /\ call'[q] = IF q = p THEN Inside("begins", s, timed) ELSE call[q]
         /\ q # p => state'[q] = state[q]
  BY DEF CInv, CTypes, SleepOnBegins
<1>5. \A q \in Tasks : /\ (call'[q].at = "wait") = (call[q].at = "wait")
                       /\ (call'[q].at = "sleep_on") = (call[q].at = "sleep_on")
  BY <1>4 DEF SleepOnBegins, None, Inside
<1>6. Entries'
  <2>1. /\ Elements(queue)' = {q \in Tasks : call'[q].at = "wait"}
        /\ Elements(sleepers)' = {q \in Tasks : call'[q].at = "sleep_on"}
    BY <1>1, <1>5 DEF CInv, Entries
  <2>2. Distinct(queue)' /\ Distinct(sleepers)'
    BY <1>1 DEF CInv, Entries
  <2> QED BY <2>1, <2>2 DEF Entries
<1>7. NoLostCompletion'
  <2>1. \A q \in Waiting(queue) : state'[q] = state[q]
    BY <1>1, <1>4, WaitingIsElements DEF CInv, Entries
  <2>2. {q \in Waiting(queue') : state'[q] = {}}
          = {q \in Waiting(queue) : state[q] = {}}
    BY <1>1, <2>1
  <2> QED BY <1>1, <2>1, <2>2 DEF CInv, NoLostCompletion
<1> QED
  BY <1>3, <1>6, <1>7 DEF CInv

LEMMA CSleepOnQueues ==
  ASSUME CInv, NEW p \in Tasks, SleepOnQueues(p)
  PROVE  CInv'
<1>1. /\ p \notin Elements(queue) /\ p \notin Elements(sleepers)
      /\ queue' = queue /\ state' = state /\ done' = done
  BY DEF CInv, Entries, SleepOnQueues
<1>2. /\ sleepers' \in Seq(Tasks) /\ Distinct(sleepers')
      /\ Elements(sleepers') = Elements(sleepers) \cup {p}
  BY <1>1, DistinctCons DEF CInv, CTypes, Entries, SleepOnQueues
<1>3. call[p] \in Calling
  BY DEF CInv, CTypes, SleepOnQueues, None
<1>4. /\ call' \in [Tasks -> {None} \cup Calling]
      /\ call'[p].at = "sleep_on"
      /\ \A q \in Tasks : q # p => call'[q] = call[q]
  BY <1>3 DEF CInv, CTypes, SleepOnQueues, Calling
<1>5. CTypes'
  BY <1>1, <1>2, <1>4 DEF CInv, CTypes
<1>6. Entries'
  <2>1. /\ Elements(queue)' = {q \in Tasks : call'[q].at = "wait"}
        /\ Elements(sleepers)' = {q \in Tasks : call'[q].at = "sleep_on"}
    BY <1>1, <1>2, <1>4 DEF CInv, Entries
  <2>2. Distinct(queue)' /\ Distinct(sleepers)'
    BY <1>1, <1>2 DEF CInv, Entries
  <2> QED BY <2>1, <2>2 DEF Entries
<1>7. NoLostCompletion'
  BY <1>1 DEF CInv, NoLostCompletion
<1> QED
  BY <1>5, <1>6, <1>7 DEF CInv

LEMMA CSleepOnEnds ==
  ASSUME CInv, NEW p \in Tasks, SleepOnEnds(p)
  PROVE  CInv'
<1>1. /\ p \in Elements(sleepers)
      /\ queue' = queue /\ state' = state /\ done' = done
  BY DEF CInv, Entries, SleepOnEnds
<1>2. /\ sleepers' \in Seq(Tasks) /\ Distinct(sleepers')
      /\ Elements(sleepers') = Elements(sleepers) \ {p}
  BY <1>1, LeaveProperties DEF CInv, CTypes, Entries, SleepOnEnds
<1>3. /\ call' \in [Tasks -> {None} \cup Calling]
      /\ \A q \in Tasks : call'[q] = IF q = p THEN None ELSE call[q]
  BY DEF SleepOnEnds, Return, CInv, CTypes
<1>4. CTypes'
  BY <1>1, <1>2, <1>3 DEF CInv, CTypes
<1>5. \A q \in Tasks : /\ (call'[q].at = "wait") = (call[q].at = "wait")
                       /\ (call'[q].at = "sleep_on")
                            = (call[q].at = "sleep_on" /\ q # p)
  BY <1>3 DEF SleepOnEnds, None
<1>6. Entries'
  <2>1. Elements(queue)' = {q \in Tasks : call'[q].at = "wait"}
    BY <1>1, <1>5 DEF CInv, Entries
  <2>2. Elements(sleepers)' = {q \in Tasks : call'[q].at = "sleep_on"}
    BY <1>2, <1>5 DEF CInv, Entries
  <2>3. Distinct(queue)' /\ Distinct(sleepers)'
    BY <1>1, <1>2 DEF CInv, Entries
  <2> QED BY <2>1, <2>2, <2>3 DEF Entries
<1>7. NoLostCompletion'
  BY <1>1 DEF CInv, NoLostCompletion
<1> QED
  BY <1>4, <1>6, <1>7 DEF CInv

LEMMA CStep ==
  ASSUME CompletionAssumption, CInv, [CNext]_cVars
  PROVE  CInv'
<1>1. CASE complete
  BY <1>1, CComplete
<1>2. CASE complete_all
  BY <1>2, CCompleteAll
<1>3. CASE try_wait_for_completion
  BY <1>3, CTryWait
<1>4. ASSUME NEW mode, wake_up(mode)
      PROVE  CInv'
  BY <1>4, CWakes DEF wake_up
<1>5. ASSUME NEW p \in Tasks, Calls(p)
      PROVE  CInv'
  <2>1. {"U"} \in WaitStates /\ {"I"} \in WaitStates /\ {"U", "K"} \in WaitStates
    BY DEF WaitStates
  <2>2. \/ \E s \in WaitStates, timed \in BOOLEAN : wait_for_common(p, s, timed)
        \/ \E s \in WaitStates, timed \in BOOLEAN : SleepOnBegins(p, s, timed)
    BY <1>5, <2>1
    DEF Calls, wait_for_completion, wait_for_completion_timeout,
        wait_for_completion_interruptible,
        wait_for_completion_interruptible_timeout, wait_for_completion_killable,
        wait_for_completion_killable_timeout, interruptible_sleep_on,
        interruptible_sleep_on_timeout, sleep_on, sleep_on_timeout
  <2> QED BY <2>2, CWaitBegins, CSleepOnBegins
<1>6. ASSUME NEW p \in Tasks, Resumes(p)
      PROVE  CInv'
  BY <1>6, CWaitResumes, CSleepOnQueues, CSleepOnEnds DEF Resumes
<1>7. ASSUME NEW p \in Tasks, TimerFires(p)
      PROVE  CInv'
  BY <1>7, CWakes DEF TimerFires
<1>8. ASSUME NEW p \in Tasks, NEW fatal \in BOOLEAN, Signal(p, fatal)
      PROVE  CInv'
  BY <1>8, CWakes DEF Signal
<1>9. CASE UNCHANGED cVars
  <2>1. CTypes' /\ NoLostCompletion'
    BY <1>9 DEF cVars, CInv, CTypes, NoLostCompletion
  <2>2. Entries'
    BY <1>9 DEF cVars, CInv, Entries
  <2> QED BY <2>1, <2>2 DEF CInv
<1> QED
  BY <1>1, <1>2, <1>3, <1>4, <1>5, <1>6, <1>7, <1>8, <1>9 DEF CNext

THEOREM CInvHolds == CSpec => []CInv
<1>1. CInit => CInv
  BY CInitial
<1>2. CInv /\ [CNext]_cVars => CInv'
  BY CStep, CompletionAssumption
<1> QED
  BY <1>1, <1>2, PTL DEF CSpec

(* No completion is lost: while a queued task sleeps, every completion not *)
(* yet taken (x->done) has an awake waiter on its way to take it, for any  *)
(* number of waiters, completers, signals, timeouts and newcomers.         *)
THEOREM CompletionsReachWaiters == CSpec => []NoLostCompletion
<1>1. CInv => NoLostCompletion
  BY DEF CInv
<1> QED
  BY <1>1, CInvHolds, PTL

(* The entries of do_wait_for_common and sleep_on_common, which live on    *)
(* the stacks of their callers, are off the queues when those return.      *)
THEOREM EntriesLeaveInTime == CSpec => []EntriesOnLiveStacks
<1>1. CInv => EntriesOnLiveStacks
  BY DistinctCardinality, WaitingIsElements
  DEF CInv, CTypes, Entries, EntriesOnLiveStacks
<1> QED
  BY <1>1, CInvHolds, PTL

-----------------------------------------------------------------------------
(***************************************************************************)
(* The load average.  What is on its way (delta) and what is in the three  *)
(* counters add up to what the CPUs have folded; a CPU has at most one     *)
(* change on its way, so each step moves one term.  calc_global_nohz finds *)
(* its own term empty: whoever collected last has added it.                *)
(***************************************************************************)
By(d) == [c \in Cpus |-> d[c].by]

LoadTypes ==
  /\ count \in [Cpus -> Int] /\ folded \in [Cpus -> Int]
  /\ tasks \in Int /\ idleTasks \in Int /\ nohzDelta \in Int
  /\ delta \in [Cpus -> [to : {"none", "tasks", "idle"}, by : Int]]
  /\ online \subseteq Cpus
  /\ updating # "collected" => nohzDelta = 0

LoadInv == LoadTypes /\ LoadAccounted

LEMMA LoadInitial ==
  ASSUME LoadAssumption, LAInit
  PROVE  LoadInv
<1>1. LoadTypes
  BY DEF LAInit, LoadTypes, Nothing
<1>2. By(delta) = folded
  BY DEF LAInit, By, Nothing
<1>3. SumFunction(folded) \in Int
  BY <1>1, SumStep DEF LoadAssumption, LoadTypes
<1>4. LoadAccounted
  BY <1>2, <1>3 DEF LoadAccounted, By, LAInit
<1> QED
  BY <1>1, <1>4 DEF LoadInv

(* The sums after a step that touches CPU c, and at no CPU. *)
LEMMA LoadStepAt ==
  ASSUME LoadAssumption, LoadInv, NEW c \in Cpus,
         folded' \in [Cpus -> Int],
         delta' \in [Cpus -> [to : {"none", "tasks", "idle"}, by : Int]],
         \A k \in Cpus \ {c} : folded'[k] = folded[k] /\ delta'[k] = delta[k]
  PROVE  \E a, b \in Int :
           /\ SumFunction(By(delta)) = a /\ SumFunction(folded) = b
           /\ SumFunction(By(delta)') = a + delta'[c].by - delta[c].by
           /\ SumFunction(folded') = b + folded'[c] - folded[c]
<1>1. IsFiniteSet(Cpus)
  BY DEF LoadAssumption
<1>2. By(delta) \in [Cpus -> Int] /\ By(delta)' \in [Cpus -> Int]
  BY DEF LoadInv, LoadTypes, By
<1>3. /\ By(delta)[c] = delta[c].by /\ By(delta)'[c] = delta'[c].by
      /\ \A k \in Cpus \ {c} : By(delta)'[k] = By(delta)[k]
  BY DEF By
<1> DEFINE f == By(delta)
           g == By(delta)'
<1>4. f \in [Cpus -> Int] /\ g \in [Cpus -> Int]
      /\ \A k \in Cpus \ {c} : g[k] = f[k]
  BY <1>2, <1>3
<1>5. f[c] = delta[c].by /\ g[c] = delta'[c].by
  BY <1>3
<1> HIDE DEF f, g
<1>6. SumFunction(f) \in Int /\ SumFunction(g) = SumFunction(f) + g[c] - f[c]
  BY <1>1, <1>4, SumStep
<1>7. SumFunction(folded) \in Int
      /\ SumFunction(folded') = SumFunction(folded) + folded'[c] - folded[c]
  <2>1. folded \in [Cpus -> Int] /\ \A k \in Cpus \ {c} : folded'[k] = folded[k]
    BY DEF LoadInv, LoadTypes
  <2> QED BY <1>1, <2>1, SumStep
<1> QED
  BY <1>5, <1>6, <1>7 DEF f, g

LEMMA LoadStepNowhere ==
  ASSUME LoadAssumption, LoadInv, UNCHANGED <<folded, delta>>,
         tasks' \in Int, idleTasks' \in Int, nohzDelta' \in Int,
         tasks' + idleTasks' + nohzDelta' = tasks + idleTasks + nohzDelta
  PROVE  LoadAccounted'
  BY DEF LoadInv, LoadAccounted

LEMMA LoadSums ==
  ASSUME LoadInv
  PROVE  /\ tasks \in Int /\ idleTasks \in Int /\ nohzDelta \in Int
         /\ tasks + idleTasks + nohzDelta + SumFunction(By(delta))
              = SumFunction(folded)
  BY DEF LoadInv, LoadTypes, LoadAccounted, By

(* calc_load_account_active: the idle changes move into the CPU's own.     *)
LEMMA LActive ==
  ASSUME LoadAssumption, LoadInv, NEW c \in Cpus, calc_load_account_active(c)
  PROVE  LoadInv'
<1>1. /\ delta[c].by = 0 /\ count[c] \in Int /\ folded[c] \in Int
      /\ idleTasks \in Int /\ idleTasks' = 0
      /\ tasks' = tasks /\ nohzDelta' = nohzDelta
  BY DEF calc_load_account_active, calc_load_fold_active, LoadInv, LoadTypes,
         Nothing
<1>2. /\ folded' \in [Cpus -> Int] /\ folded'[c] = count[c]
      /\ delta'[c].by = count[c] - folded[c] + idleTasks
      /\ delta' \in [Cpus -> [to : {"none", "tasks", "idle"}, by : Int]]
      /\ \A k \in Cpus \ {c} : folded'[k] = folded[k] /\ delta'[k] = delta[k]
  BY <1>1
  DEF calc_load_account_active, calc_load_fold_active, LoadInv, LoadTypes
<1>3. PICK a, b \in Int :
           /\ SumFunction(By(delta)) = a /\ SumFunction(folded) = b
           /\ SumFunction(By(delta)') = a + delta'[c].by - delta[c].by
           /\ SumFunction(folded') = b + folded'[c] - folded[c]
  BY <1>2, LoadStepAt
<1>4. tasks + idleTasks + nohzDelta + a = b /\ tasks \in Int /\ nohzDelta \in Int
  BY <1>3, LoadSums
<1>5. \A x, y, i, z, n, m \in Int :
         x + i + y + z = m => x + 0 + y + (z + n) = m + (n - i)
  OBVIOUS
<1>6. tasks + 0 + nohzDelta + (a + (count[c] - folded[c] + idleTasks))
        = b + ((count[c] - folded[c] + idleTasks) - idleTasks)
  BY <1>1, <1>4, <1>5
<1>7. LoadAccounted'
  <2>1. SumFunction(By(delta)') = a + (count[c] - folded[c] + idleTasks)
    BY <1>1, <1>2, <1>3
  <2>2. SumFunction(folded') = b + ((count[c] - folded[c] + idleTasks) - idleTasks)
    BY <1>1, <1>2, <1>3
  <2> QED BY <1>1, <1>6, <2>1, <2>2 DEF LoadAccounted, By
<1>8. LoadTypes'
  BY <1>1, <1>2 DEF LoadInv, LoadTypes, calc_load_account_active
<1> QED
  BY <1>7, <1>8 DEF LoadInv

(* calc_load_account_idle: the CPU's change is on its way.                 *)
LEMMA LIdle ==
  ASSUME LoadAssumption, LoadInv, NEW c \in Cpus, calc_load_account_idle(c)
  PROVE  LoadInv'
<1>1. /\ delta[c].by = 0 /\ count[c] \in Int /\ folded[c] \in Int
      /\ UNCHANGED <<tasks, idleTasks, nohzDelta>>
  BY DEF calc_load_account_idle, calc_load_fold_active, LoadInv, LoadTypes,
         Nothing
<1>2. /\ folded' \in [Cpus -> Int] /\ folded'[c] = count[c]
      /\ delta'[c].by = count[c] - folded[c]
      /\ delta' \in [Cpus -> [to : {"none", "tasks", "idle"}, by : Int]]
      /\ \A k \in Cpus \ {c} : folded'[k] = folded[k] /\ delta'[k] = delta[k]
  BY <1>1
  DEF calc_load_account_idle, calc_load_fold_active, LoadInv, LoadTypes
<1>3. PICK a, b \in Int :
           /\ SumFunction(By(delta)) = a /\ SumFunction(folded) = b
           /\ SumFunction(By(delta)') = a + delta'[c].by - delta[c].by
           /\ SumFunction(folded') = b + folded'[c] - folded[c]
  BY <1>2, LoadStepAt
<1>4. tasks + idleTasks + nohzDelta + a = b
      /\ tasks + idleTasks + nohzDelta \in Int
  BY <1>3, LoadSums
<1>5. LoadAccounted'
  <2>1. SumFunction(By(delta)') = a + (count[c] - folded[c])
    BY <1>1, <1>2, <1>3
  <2>2. SumFunction(folded') = b + (count[c] - folded[c])
    BY <1>1, <1>2, <1>3
  <2>3. \A x, y, z, n \in Int : x + y = z => x + (y + n) = z + n
    OBVIOUS
  <2>4. (tasks + idleTasks + nohzDelta) + (a + (count[c] - folded[c]))
          = b + (count[c] - folded[c])
    BY <1>1, <1>4, <2>3
  <2> QED BY <1>1, <2>1, <2>2, <2>4 DEF LoadAccounted, By
<1>6. LoadTypes'
  BY <1>1, <1>2 DEF LoadInv, LoadTypes, calc_load_account_idle
<1> QED
  BY <1>5, <1>6 DEF LoadInv

(* atomic_long_add: the change arrives in one of the two counters.         *)
LEMMA LAdded ==
  ASSUME LoadAssumption, LoadInv, NEW c \in Cpus, DeltaAdded(c)
  PROVE  LoadInv'
<1> DEFINE d == delta[c].by
<1>1. d \in Int /\ delta[c].to \in {"none", "tasks", "idle"}
  BY DEF LoadInv, LoadTypes
<1>2. /\ folded' = folded /\ folded' \in [Cpus -> Int]
      /\ delta'[c].by = 0
      /\ delta' \in [Cpus -> [to : {"none", "tasks", "idle"}, by : Int]]
      /\ \A k \in Cpus \ {c} : folded'[k] = folded[k] /\ delta'[k] = delta[k]
  BY DEF DeltaAdded, LoadInv, LoadTypes, Nothing
<1>3. PICK a, b \in Int :
           /\ SumFunction(By(delta)) = a /\ SumFunction(folded) = b
           /\ SumFunction(By(delta)') = a + delta'[c].by - delta[c].by
           /\ SumFunction(folded') = b + folded'[c] - folded[c]
  BY <1>2, LoadStepAt
<1>4. /\ tasks + idleTasks + nohzDelta + a = b
      /\ tasks \in Int /\ idleTasks \in Int /\ nohzDelta \in Int
  BY <1>3, LoadSums
<1>5. tasks' + idleTasks' = tasks + idleTasks + d /\ nohzDelta' = nohzDelta
      /\ tasks' \in Int /\ idleTasks' \in Int
  BY <1>1, <1>4 DEF DeltaAdded
<1> HIDE DEF d
<1>6. SumFunction(By(delta)') = a - d
  BY <1>1, <1>2, <1>3 DEF d
<1>7. LoadAccounted'
  <2>1. \A t, u, n, x, y, e \in Int : u = t + e /\ t + n + x = y => u + n + (x - e) = y
    OBVIOUS
  <2>2. (tasks' + idleTasks') + nohzDelta + (a - d) = b
    <3> DEFINE u == tasks' + idleTasks'
               t == tasks + idleTasks
    <3>1. u \in Int /\ t \in Int /\ u = t + d /\ t + nohzDelta + a = b
      BY <1>4, <1>5
    <3> HIDE DEF u, t
    <3>2. u + nohzDelta + (a - d) = b
      BY <1>1, <1>4, <3>1, <2>1
    <3> QED BY <3>2 DEF u
  <2> QED BY <1>2, <1>3, <1>5, <1>6, <2>2 DEF LoadAccounted, By
<1>8. LoadTypes'
  BY <1>2, <1>4, <1>5 DEF LoadInv, LoadTypes, DeltaAdded
<1> QED
  BY <1>7, <1>8 DEF LoadInv

(* CPU_DYING: calc_load_tasks gives back what the CPU has folded.          *)
LEMMA LDying ==
  ASSUME LoadAssumption, LoadInv, NEW c \in Cpus, NEW e \in Cpus, CpuDying(c, e)
  PROVE  LoadInv'
<1>1. /\ folded' \in [Cpus -> Int] /\ folded'[c] = 0 /\ delta' = delta
      /\ delta' \in [Cpus -> [to : {"none", "tasks", "idle"}, by : Int]]
      /\ \A k \in Cpus \ {c} : folded'[k] = folded[k] /\ delta'[k] = delta[k]
      /\ folded[c] \in Int /\ delta[c].by \in Int
  BY DEF CpuDying, LoadInv, LoadTypes
<1>2. PICK a, b \in Int :
           /\ SumFunction(By(delta)) = a /\ SumFunction(folded) = b
           /\ SumFunction(By(delta)') = a + delta'[c].by - delta[c].by
           /\ SumFunction(folded') = b + folded'[c] - folded[c]
  BY <1>1, LoadStepAt
<1>3. /\ tasks + idleTasks + nohzDelta + a = b
      /\ tasks \in Int /\ idleTasks \in Int /\ nohzDelta \in Int
  BY <1>2, LoadSums
<1>4. LoadAccounted'
  <2>1. SumFunction(By(delta)') = a /\ SumFunction(folded') = b - folded[c]
    BY <1>1, <1>2
  <2>2. \A t, i, n, x, y, f \in Int :
           t + i + n + x = y => (t - f) + i + n + x = y - f
    OBVIOUS
  <2>3. (tasks - folded[c]) + idleTasks + nohzDelta + a = b - folded[c]
    <3> DEFINE f == folded[c]
    <3>1. f \in Int
      BY <1>1
    <3> HIDE DEF f
    <3>2. (tasks - f) + idleTasks + nohzDelta + a = b - f
      BY <1>3, <2>2, <3>1
    <3> QED BY <3>2 DEF f
  <2> QED BY <2>1, <2>3 DEF LoadAccounted, By, CpuDying
<1>5. LoadTypes'
  <2>1. tasks' \in Int /\ count' \in [Cpus -> Int] /\ online' \subseteq Cpus
        /\ UNCHANGED <<idleTasks, nohzDelta, updating>>
    BY <1>1, <1>3 DEF CpuDying, LoadInv, LoadTypes
  <2> QED BY <1>1, <2>1 DEF LoadInv, LoadTypes
<1> QED
  BY <1>4, <1>5 DEF LoadInv

LEMMA LoadStep ==
  ASSUME LoadAssumption, LoadInv, [LoadNext \/ CpuLoadNext]_laVars
  PROVE  LoadInv'
<1>1. CASE PeriodPasses
  BY <1>1 DEF PeriodPasses, LoadInv, LoadTypes, LoadAccounted
<1>2. CASE calc_global_nohz
  <2>1. /\ tasks' \in Int /\ idleTasks' \in Int /\ nohzDelta' \in Int
        /\ tasks' + idleTasks' + nohzDelta' = tasks + idleTasks + nohzDelta
    <3>1. tasks \in Int /\ idleTasks \in Int /\ nohzDelta = 0
      BY <1>2 DEF calc_global_nohz, LoadInv, LoadTypes
    <3>2. tasks' = tasks /\ nohzDelta' = idleTasks /\ idleTasks' = 0
      BY <1>2 DEF calc_global_nohz
    <3> QED BY <3>1, <3>2
  <2>2. LoadAccounted'
    BY <1>2, <2>1, LoadStepNowhere DEF calc_global_nohz
  <2> QED BY <1>2, <2>1, <2>2 DEF calc_global_nohz, LoadInv, LoadTypes
<1>3. CASE NohzAdds
  <2>1. /\ tasks' \in Int /\ idleTasks' \in Int /\ nohzDelta' \in Int
        /\ tasks' + idleTasks' + nohzDelta' = tasks + idleTasks + nohzDelta
    BY <1>3 DEF NohzAdds, LoadInv, LoadTypes
  <2>2. LoadAccounted'
    BY <1>3, <2>1, LoadStepNowhere DEF NohzAdds
  <2> QED BY <1>3, <2>1, <2>2 DEF NohzAdds, LoadInv, LoadTypes
<1>8. ASSUME NEW n \in 0 .. MaxLate, NohzPeriods(n)
      PROVE  LoadInv'
  BY <1>8 DEF NohzPeriods, LoadInv, LoadTypes, LoadAccounted
<1>9. CASE calc_global_load
  BY <1>9 DEF calc_global_load, LoadInv, LoadTypes, LoadAccounted
<1>4. ASSUME NEW c \in Cpus, CountChanges(c)
      PROVE  LoadInv'
  <2>1. count' \in [Cpus -> Int]
    BY <1>4 DEF CountChanges, LoadInv, LoadTypes, LoadAssumption
  <2> QED BY <1>4, <2>1 DEF CountChanges, LoadInv, LoadTypes, LoadAccounted
<1>5. ASSUME NEW c \in Cpus, CpuUp(c)
      PROVE  LoadInv'
  BY <1>5 DEF CpuUp, LoadInv, LoadTypes, LoadAccounted
<1>6. ASSUME NEW w, NEW missed, update_cpu_load(w, missed)
      PROVE  LoadInv'
  BY <1>6 DEF update_cpu_load, LoadInv, LoadTypes, LoadAccounted
<1>7. CASE UNCHANGED laVars
  BY <1>7 DEF laVars, LoadInv, LoadTypes, LoadAccounted
<1> QED
  BY <1>1, <1>2, <1>3, <1>4, <1>5, <1>6, <1>7, <1>8, <1>9,
     LActive, LIdle, LAdded, LDying
  DEF LoadNext, CpuLoadNext

(* No change of a CPU's active tasks is lost or counted twice on its way   *)
(* to calc_load_tasks, whoever collects it, for any number of CPUs.        *)
THEOREM LoadAddsUp == LoadSpec => []LoadAccounted
<1>1. LAInit => LoadInv
  BY LoadInitial, LoadAssumption
<1>2. LoadInv /\ [LoadNext \/ CpuLoadNext]_laVars => LoadInv'
  BY LoadStep, LoadAssumption
<1>3. LoadInv => LoadAccounted
  BY DEF LoadInv
<1> QED
  BY <1>1, <1>2, <1>3, PTL DEF LoadSpec

-----------------------------------------------------------------------------
(***************************************************************************)
(* The averages themselves: what a division rounds, and where calc_load    *)
(* and the decayed CPU load end up.                                        *)
(***************************************************************************)
LEMMA ProductOrder ==
  ASSUME NEW u \in Nat, NEW v \in Nat, NEW m \in Nat, u <= v
  PROVE  u * m <= v * m
<1>1. v - u \in Nat
  OBVIOUS
<1>2. (v - u) * m \in Nat
  BY <1>1
<1>3. (v - u) * m = v * m - u * m
  OBVIOUS
<1> QED
  BY <1>2, <1>3

(* A quotient lies where its numerator lies between two multiples. *)
LEMMA QuotientBetween ==
  ASSUME NEW lo \in Nat, NEW hi \in Nat, NEW m \in Nat \ {0}, NEW y \in Nat,
         lo * m <= y, y < hi * m + m
  PROVE  y \div m \in Nat /\ lo <= y \div m /\ y \div m <= hi
<1> DEFINE q == y \div m
<1>1. q \in Nat /\ q * m <= y /\ y < q * m + m
  OBVIOUS
<1> HIDE DEF q
<1>2. lo <= q
  <2> SUFFICES ASSUME q + 1 <= lo  PROVE FALSE
    BY <1>1
  <2>1. (q + 1) * m <= lo * m
    BY <1>1, ProductOrder
  <2>2. (q + 1) * m = q * m + m
    BY <1>1
  <2>3. q * m \in Nat /\ lo * m \in Nat
    BY <1>1
  <2> QED BY <1>1, <2>1, <2>2, <2>3
<1>3. q <= hi
  <2> SUFFICES ASSUME hi + 1 <= q  PROVE FALSE
    BY <1>1
  <2>1. (hi + 1) * m <= q * m
    BY <1>1, ProductOrder
  <2>2. (hi + 1) * m = hi * m + m
    OBVIOUS
  <2>3. q * m \in Nat /\ hi * m \in Nat
    BY <1>1
  <2> QED BY <1>1, <2>1, <2>2, <2>3
<1> QED
  BY <1>1, <1>2, <1>3 DEF q

LEMMA FixedOne ==
  ASSUME LoadAssumption
  PROVE  FIXED_1 \in Nat \ {0} /\ EXP \in 0 .. FIXED_1
<1>1. 2^FSHIFT \in Int
  BY DEF LoadAssumption
<1> QED
  BY <1>1 DEF LoadAssumption, FIXED_1

(* The product of two factors of at most one is one. *)
LEMMA TimesType ==
  ASSUME LoadAssumption, NEW a \in 0 .. FIXED_1, NEW b \in 0 .. FIXED_1
  PROVE  times(a, b) \in 0 .. FIXED_1
<1> DEFINE m == FIXED_1
<1>1. m \in Nat \ {0} /\ a \in Nat /\ b \in Nat /\ a <= m /\ b <= m
  BY FixedOne
<1> HIDE DEF m
<1>2. a * b <= m * b /\ b * m <= m * m
  BY <1>1, ProductOrder
<1>3. m * b = b * m /\ a * b \in Nat /\ m * m \in Nat /\ m * b \in Nat
  BY <1>1
<1>4. m \div 2 \in Nat /\ m \div 2 < m
  BY <1>1
<1>5. a * b + m \div 2 \in Nat /\ a * b + m \div 2 < m * m + m /\ 0 * m <= a * b + m \div 2
  BY <1>1, <1>2, <1>3, <1>4
<1>6. (a * b + m \div 2) \div m \in Nat /\ (a * b + m \div 2) \div m <= m
  BY <1>1, <1>5, QuotientBetween
<1> QED
  BY <1>1, <1>6 DEF times, m

(* A power of a factor of at most one is such a factor. *)
LEMMA PowerType ==
  ASSUME LoadAssumption, NEW x \in 0 .. FIXED_1, NEW n \in Nat
  PROVE  fixed_power_int(x, n) \in 0 .. FIXED_1
<1> DEFINE S == [n : Nat, x : 0 .. FIXED_1, result : 0 .. FIXED_1]
           start == [n |-> n, x |-> x, result |-> FIXED_1]
           Round(l) == [n |-> l.n \div 2, x |-> times(l.x, l.x),
                        result |-> IF l.n % 2 = 1 THEN times(l.result, l.x)
                                                  ELSE l.result]
           round == [k \in 1 .. n |-> [l \in S |-> Round(l)]]
           Body(h) == [k \in 0 .. n |->
                         IF k = 0 THEN [n |-> n, x |-> x, result |-> FIXED_1]
                         ELSE LET l == h[k - 1]
                              IN [n |-> l.n \div 2, x |-> times(l.x, l.x),
                                  result |-> IF l.n % 2 = 1
                                             THEN times(l.result, l.x)
                                             ELSE l.result]]
           loop == CHOOSE h : h = Body(h)
<1>1. FIXED_1 \in Nat \ {0}
  BY FixedOne
<1>2. start \in S
  BY <1>1
<1>3. ASSUME NEW l \in S  PROVE Round(l) \in S
  <2>1. times(l.x, l.x) \in 0 .. FIXED_1 /\ times(l.result, l.x) \in 0 .. FIXED_1
    BY TimesType
  <2>2. l.n \div 2 \in Nat
    OBVIOUS
  <2> QED BY <2>1, <2>2
<1>4. round \in [1 .. n -> [S -> S]]
  BY <1>3
<1>5. PICK h \in [0 .. n -> S] : IsRun(h, n, start, round)
  <2> HIDE DEF S, start, round
  <2> QED BY <1>2, <1>4, LoopRuns
<1>6. h = Body(h)
  <2>1. \A k \in 0 .. n : k # 0 => k - 1 \in 0 .. n /\ k \in 1 .. n
    OBVIOUS
  <2> HIDE DEF S
  <2>2. \A k \in 0 .. n : k # 0 => round[k][h[k - 1]] = Round(h[k - 1])
    BY <2>1
  <2>3. \A k \in 0 .. n : h[k] = IF k = 0 THEN start ELSE round[k][h[k - 1]]
    <3> HIDE DEF start, round
    <3> QED BY <1>5, Zenon DEF IsRun
  <2>4. \A k \in 0 .. n : h[k] = IF k = 0 THEN start ELSE Round(h[k - 1])
    <3> HIDE DEF start, round, Round
    <3> QED BY <2>2, <2>3
  <2>5. Body(h) = [k \in 0 .. n |-> IF k = 0 THEN start ELSE Round(h[k - 1])]
    OBVIOUS
  <2> HIDE DEF start, round, Round, Body
  <2> QED BY <2>4, <2>5
<1>7. loop = Body(loop)
  <2> HIDE DEF Body
  <2> QED BY <1>6
<1>8. fixed_power_int(x, n) = loop[n].result
  BY DEF fixed_power_int
<1> HIDE DEF loop
<1>9. \A k \in 0 .. n : loop[k] \in S
  <2>1. loop[0] \in S
    BY <1>2, <1>7
  <2>2. ASSUME NEW k \in 1 .. n, loop[k - 1] \in S  PROVE loop[k] \in S
    <3>1. k \in 0 .. n /\ k # 0
      OBVIOUS
    <3>2. Body(loop)[k] = Round(loop[k - 1])
      BY <3>1
    <3>3. loop[k] = Body(loop)[k]
      <4> HIDE DEF Body
      <4> QED BY <1>7
    <3> HIDE DEF S, Round
    <3> QED BY <1>3, <2>2, <3>2, <3>3
  <2> HIDE DEF S
  <2> QED BY <2>1, <2>2, LoopStays
<1> QED
  BY <1>8, <1>9

(* calc_load weighs load and active with weights that add up to one: what  *)
(* bounds both bounds the result, the rounding included.                   *)
LEMMA CalcLoadBetween ==
  ASSUME FIXED_1 \in Nat \ {0}, NEW load \in Nat, NEW wt \in 0 .. FIXED_1,
         NEW active \in Nat, NEW lo \in Nat, NEW hi \in Nat,
         lo <= load, lo <= active, load <= hi, active <= hi
  PROVE  /\ calc_load(load, wt, active) \in Nat
         /\ lo <= calc_load(load, wt, active)
         /\ calc_load(load, wt, active) <= hi
<1> DEFINE m == FIXED_1
           e == m - wt
           half == m \div 2
           y == load * wt + active * e + half
<1>1. m \in Nat \ {0} /\ wt \in Nat /\ e \in Nat /\ wt + e = m
  OBVIOUS
<1>2. calc_load(load, wt, active) = y \div m
  BY DEF calc_load
<1>3. half \in Nat /\ half < m
  BY <1>1
<1> HIDE DEF m, e, half
<1>4. /\ lo * wt <= load * wt /\ lo * e <= active * e
      /\ load * wt <= hi * wt /\ active * e <= hi * e
  BY <1>1, ProductOrder
<1>5. /\ lo * wt + lo * e = lo * m /\ hi * wt + hi * e = hi * m
      /\ lo * wt \in Nat /\ lo * e \in Nat /\ hi * wt \in Nat /\ hi * e \in Nat
      /\ load * wt \in Nat /\ active * e \in Nat
  <2>1. \A a, b, c \in Nat : a * b + a * c = a * (b + c) /\ a * b \in Nat
    OBVIOUS
  <2> QED BY <1>1, <2>1
<1>6. y \in Nat /\ lo * m <= y /\ y < hi * m + m
  <2>1. \A a, b, c, d, p, q, h, k \in Nat :
          a <= c /\ b <= d /\ c <= p /\ d <= q /\ h < k
            => c + d + h \in Nat /\ a + b <= c + d + h /\ c + d + h < (p + q) + k
    OBVIOUS
  <2> DEFINE a == lo * wt
             b == lo * e
             c == load * wt
             d == active * e
             p == hi * wt
             q == hi * e
  <2>2. /\ a \in Nat /\ b \in Nat /\ c \in Nat /\ d \in Nat /\ p \in Nat /\ q \in Nat
        /\ a <= c /\ b <= d /\ c <= p /\ d <= q /\ a + b = lo * m /\ p + q = hi * m
        /\ y = c + d + half
    BY <1>4, <1>5
  <2> HIDE DEF a, b, c, d, p, q, y
  <2>3. c + d + half \in Nat /\ a + b <= c + d + half /\ c + d + half < (p + q) + m
    BY <1>1, <1>3, <2>1, <2>2
  <2> QED BY <2>2, <2>3
<1> HIDE DEF y
<1>7. y \div m \in Nat /\ lo <= y \div m /\ y \div m <= hi
  BY <1>1, <1>6, QuotientBetween
<1> QED
  BY <1>2, <1>7

(* So it goes from load towards active, and never past it. *)
LEMMA CalcLoadTracks ==
  ASSUME FIXED_1 \in Nat \ {0}, NEW load \in Nat, NEW wt \in 0 .. FIXED_1,
         NEW active \in Nat
  PROVE  /\ calc_load(load, wt, active) \in Nat
         /\ load <= active => /\ load <= calc_load(load, wt, active)
                              /\ calc_load(load, wt, active) <= active
         /\ active <= load => /\ active <= calc_load(load, wt, active)
                              /\ calc_load(load, wt, active) <= load
<1>1. CASE load <= active
  <2>0. load <= load /\ active <= active
    OBVIOUS
  <2>1. /\ calc_load(load, wt, active) \in Nat
        /\ load <= calc_load(load, wt, active)
        /\ calc_load(load, wt, active) <= active
    BY <1>1, <2>0, CalcLoadBetween, Zenon
  <2> QED BY <1>1, <2>1
<1>2. CASE active <= load
  <2>0. load <= load /\ active <= active
    OBVIOUS
  <2>1. /\ calc_load(load, wt, active) \in Nat
        /\ active <= calc_load(load, wt, active)
        /\ calc_load(load, wt, active) <= load
    BY <1>2, <2>0, CalcLoadBetween, Zenon
  <2> QED BY <1>2, <2>1
<1> QED
  BY <1>1, <1>2

LEMMA ActiveType == ASSUME FIXED_1 \in Nat \ {0}, NEW n \in Int  PROVE Active(n) \in Nat
<1> DEFINE m == FIXED_1
<1>1. m \in Nat
  OBVIOUS
<1> HIDE DEF m
<1>2. n > 0 => n * m \in Nat
  BY <1>1
<1> QED
  BY <1>2 DEF Active, m

(* Where avenrun is after an update, against the active tasks.            *)
Tracks(a) == /\ avenrun' \in Nat
             /\ avenrun <= a => avenrun <= avenrun' /\ avenrun' <= a
             /\ a <= avenrun => a <= avenrun' /\ avenrun' <= avenrun

(* The periods of an idle sleep, made up for at once.                      *)
LEMMA NohzPeriodsTrack ==
  ASSUME FIXED_1 \in Nat \ {0}, EXP \in 0 .. FIXED_1, avenrun \in Nat,
         tasks \in Int, NEW n \in 0 .. MaxLate,
         fixed_power_int(EXP, n) \in 0 .. FIXED_1, NohzPeriods(n)
  PROVE  Tracks(Active(tasks'))
<1> DEFINE a == Active(tasks)
           power == fixed_power_int(EXP, n)
<1>1. tasks' = tasks
      /\ avenrun' = IF n = 0 THEN avenrun ELSE calc_load(avenrun, power, a)
  BY DEF NohzPeriods, calc_load_n
<1>2. Active(tasks') = a /\ a \in Nat
  BY <1>1, ActiveType
<1>3. power \in 0 .. FIXED_1
  OBVIOUS
<1> HIDE DEF a, power
<1>4. CASE n = 0
  BY <1>1, <1>2, <1>4 DEF Tracks
<1>5. CASE n # 0
  <2>1. avenrun' = calc_load(avenrun, power, a)
    BY <1>1, <1>5
  <2> QED BY <1>2, <1>3, <2>1, CalcLoadTracks DEF Tracks
<1> QED
  BY <1>4, <1>5

(* The regular update, or none.                                            *)
LEMMA GlobalLoadTracks ==
  ASSUME FIXED_1 \in Nat \ {0}, EXP \in 0 .. FIXED_1, avenrun \in Nat,
         tasks \in Int, calc_global_load
  PROVE  Tracks(Active(tasks'))
<1> DEFINE a == Active(tasks)
<1>1. tasks' = tasks
      /\ (avenrun' = avenrun \/ avenrun' = calc_load(avenrun, EXP, a))
  BY DEF calc_global_load
<1>2. Active(tasks') = a /\ a \in Nat
  BY <1>1, ActiveType
<1> HIDE DEF a
<1>3. CASE avenrun' = avenrun
  BY <1>2, <1>3 DEF Tracks
<1>4. CASE avenrun' = calc_load(avenrun, EXP, a)
  BY <1>2, <1>4, CalcLoadTracks DEF Tracks
<1> QED
  BY <1>1, <1>3, <1>4

-----------------------------------------------------------------------------
(***************************************************************************)
(* The CPU load.  For each of the four averages the weights are literals,  *)
(* so that the products are linear.                                        *)
(***************************************************************************)
(* An update with no tick missed moves an average towards the weight.      *)
LEMMA AverageMoves ==
  ASSUME NEW old \in Nat, NEW w \in Nat, NEW i \in Indices
  PROVE  LET new == Average(old, w, i)
         IN /\ new \in Nat
            /\ \/ old < new /\ new <= w
               \/ w <= new /\ new < old
               \/ old = w /\ new = w
<1> DEFINE new == Average(old, w, i)
<1>1. CASE i = 1
  <2>1. new = (old * 1 + w + (IF w > old THEN 1 ELSE 0)) \div 2
    BY <1>1 DEF Average
  <2> QED BY <2>1
<1>2. CASE i = 2
  <2>1. new = (old * 3 + w + (IF w > old THEN 3 ELSE 0)) \div 4
    BY <1>2 DEF Average
  <2> QED BY <2>1
<1>3. CASE i = 3
  <2>1. new = (old * 7 + w + (IF w > old THEN 7 ELSE 0)) \div 8
    BY <1>3 DEF Average
  <2> QED BY <2>1
<1>4. CASE i = 4
  <2>1. new = (old * 15 + w + (IF w > old THEN 15 ELSE 0)) \div 16
    BY <1>4 DEF Average
  <2> QED BY <2>1
<1> QED
  BY <1>1, <1>2, <1>3, <1>4 DEF Indices

LEMMA FactorType ==
  ASSUME NEW i \in Indices, NEW j \in 1 .. 8
  PROVE  degrade_factor[i][j] \in Nat
<1>1. CASE i = 1
  <2>1. degrade_factor[i] = <<64, 32, 8, 0, 0, 0, 0, 0>>
    BY <1>1 DEF degrade_factor
  <2> QED BY <2>1
<1>2. CASE i = 2
  <2>1. degrade_factor[i] = <<96, 72, 40, 12, 1, 0, 0, 0>>
    BY <1>2 DEF degrade_factor
  <2> QED BY <2>1
<1>3. CASE i = 3
  <2>1. degrade_factor[i] = <<112, 98, 75, 43, 15, 1, 0, 0>>
    BY <1>3 DEF degrade_factor
  <2> QED BY <2>1
<1>4. CASE i = 4
  <2>1. degrade_factor[i] = <<120, 112, 98, 76, 45, 16, 2, 0>>
    BY <1>4 DEF degrade_factor
  <2> QED BY <2>1
<1> QED
  BY <1>1, <1>2, <1>3, <1>4 DEF Indices

(* The decayed load is a load again: a loop of eight products. *)
LEMMA DecayType ==
  ASSUME NEW load \in Nat, NEW missed \in Nat, NEW i \in Indices
  PROVE  decay_load_missed(load, missed, i) \in Nat
<1> DEFINE Bit(j) == (missed \div 2^(j - 1)) % 2 = 1
           round == [j \in 1 .. 8 |-> [l \in Nat |->
                       IF Bit(j) THEN (l * degrade_factor[i][j]) \div 128 ELSE l]]
           Body(h) == [j \in 0 .. 8 |->
                         IF j = 0 THEN load
                         ELSE IF (missed \div 2^(j - 1)) % 2 = 1
                              THEN (h[j - 1] * degrade_factor[i][j]) \div 128
                              ELSE h[j - 1]]
           decayed == CHOOSE h : h = Body(h)
<1>1. ASSUME NEW j \in 1 .. 8, NEW l \in Nat
      PROVE  (l * degrade_factor[i][j]) \div 128 \in Nat
  <2>1. \A f \in Nat : l * f \in Nat
    OBVIOUS
  <2>2. l * degrade_factor[i][j] \in Nat
    BY <2>1, FactorType
  <2> QED BY <2>2
<1>2. round \in [1 .. 8 -> [Nat -> Nat]]
  <2> HIDE DEF Bit
  <2> QED BY <1>1
<1>3. PICK h \in [0 .. 8 -> Nat] : IsRun(h, 8, load, round)
  <2> HIDE DEF round
  <2> QED BY <1>2, LoopRuns
<1>4. h = Body(h)
  <2>1. \A j \in 0 .. 8 : j # 0 => j - 1 \in 0 .. 8 /\ j \in 1 .. 8
    OBVIOUS
  <2>2. \A j \in 0 .. 8 : h[j] = IF j = 0 THEN load ELSE round[j][h[j - 1]]
    <3> HIDE DEF round
    <3> QED BY <1>3 DEF IsRun
  <2>3. \A j \in 0 .. 8 : j # 0 =>
          round[j][h[j - 1]] = IF Bit(j) THEN (h[j - 1] * degrade_factor[i][j]) \div 128
                                         ELSE h[j - 1]
    <3> HIDE DEF Bit
    <3> QED BY <2>1
  <2>4. Body(h) = [j \in 0 .. 8 |->
                     IF j = 0 THEN load
                     ELSE IF Bit(j) THEN (h[j - 1] * degrade_factor[i][j]) \div 128
                                    ELSE h[j - 1]]
    OBVIOUS
  <2> HIDE DEF Bit, Body, round
  <2> QED BY <2>2, <2>3, <2>4
<1>5. decayed = Body(decayed)
  <2> HIDE DEF Body
  <2> QED BY <1>4
<1>6. decay_load_missed(load, missed, i) =
        IF missed >= degrade_zero_ticks[i] THEN 0
        ELSE IF i = 1 THEN load \div 2^missed
        ELSE decayed[8]
  BY DEF decay_load_missed
<1>7. decayed[8] \in Nat
  <2> HIDE DEF decayed
  <2>1. decayed[0] \in Nat
    BY <1>5
  <2>2. ASSUME NEW j \in 1 .. 8, decayed[j - 1] \in Nat  PROVE decayed[j] \in Nat
    <3>1. j \in 0 .. 8 /\ j # 0
      OBVIOUS
    <3>2. Body(decayed)[j] = IF Bit(j) THEN (decayed[j - 1] * degrade_factor[i][j]) \div 128
                                       ELSE decayed[j - 1]
      BY <3>1
    <3>3. decayed[j] = Body(decayed)[j]
      <4> HIDE DEF Body
      <4> QED BY <1>5
    <3> HIDE DEF Body, Bit
    <3> QED BY <1>1, <2>2, <3>2, <3>3
  <2>3. \A j \in 0 .. 8 : decayed[j] \in Nat
    BY <2>1, <2>2, LoopStays
  <2> QED BY <2>3
<1>8. i = 1 /\ missed < degrade_zero_ticks[i] => load \div 2^missed \in Nat
  <2> SUFFICES ASSUME i = 1, missed < 8  PROVE load \div 2^missed \in Nat
    BY DEF degrade_zero_ticks
  <2>1. missed \in {0, 1, 2, 3, 4, 5, 6, 7}
    OBVIOUS
  <2>2. 2^missed \in {1, 2, 4, 8, 16, 32, 64, 128}
    <3>0. CASE missed = 0
      BY <3>0
    <3>1. CASE missed = 1
      BY <3>1
    <3>2. CASE missed = 2
      BY <3>2
    <3>3. CASE missed = 3
      BY <3>3
    <3>4. CASE missed = 4
      BY <3>4
    <3>5. CASE missed = 5
      BY <3>5
    <3>6. CASE missed = 6
      BY <3>6
    <3>7. CASE missed = 7
      BY <3>7
    <3> QED
      BY <2>1, <3>0, <3>1, <3>2, <3>3, <3>4, <3>5, <3>6, <3>7
  <2> QED BY <2>2
<1>9. degrade_zero_ticks[i] \in Nat
  BY DEF degrade_zero_ticks, Indices
<1> HIDE DEF decayed
<1> QED
  BY <1>6, <1>7, <1>8, <1>9

-----------------------------------------------------------------------------
(***************************************************************************)
(* Both kinds of average are numbers, in every behaviour.                  *)
(***************************************************************************)
Averages == avenrun \in Nat /\ cpu_load \in [Indices -> Nat]

LEMMA AveragesInitial == ASSUME LAInit  PROVE Averages
BY DEF LAInit, Averages

LEMMA AveragesStep ==
  ASSUME LoadAssumption, LoadInv, Averages, [LoadNext \/ CpuLoadNext]_laVars
  PROVE  Averages' /\ (avenrun' = avenrun \/ Tracks(Active(tasks')))
<1>0. /\ FIXED_1 \in Nat \ {0} /\ EXP \in 0 .. FIXED_1
      /\ tasks \in Int /\ avenrun \in Nat
  BY FixedOne DEF LoadInv, LoadTypes, Averages
<1>1. ASSUME NEW n \in 0 .. MaxLate, NohzPeriods(n)
      PROVE  Averages' /\ Tracks(Active(tasks'))
  <2>1. n \in Nat
    OBVIOUS
  <2>2. fixed_power_int(EXP, n) \in 0 .. FIXED_1
    BY <1>0, <2>1, PowerType
  <2>3. Tracks(Active(tasks'))
    BY <1>0, <1>1, <2>2, NohzPeriodsTrack
  <2> QED BY <1>1, <2>3 DEF NohzPeriods, Averages, Tracks
<1>6. CASE calc_global_load
  <2>1. Tracks(Active(tasks'))
    BY <1>0, <1>6, GlobalLoadTracks
  <2>2. Averages'
    BY <1>6, <2>1 DEF calc_global_load, Averages, Tracks
  <2> QED BY <2>1, <2>2
<1>2. ASSUME NEW w \in Weights, NEW missed \in 0 .. MaxMissed,
             update_cpu_load(w, missed)
      PROVE  Averages' /\ avenrun' = avenrun
  <2>1. w \in Nat /\ missed \in Nat
    BY DEF LoadAssumption
  <2>2. ASSUME NEW i \in Indices
        PROVE  Average(decay_load_missed(cpu_load[i], missed, i), w, i) \in Nat
    <3> DEFINE old == decay_load_missed(cpu_load[i], missed, i)
    <3>1. old \in Nat
      BY <2>1, DecayType DEF Averages
    <3> HIDE DEF old
    <3>2. Average(old, w, i) \in Nat
      BY <2>1, <3>1, AverageMoves
    <3> QED BY <3>2 DEF old
  <2> QED BY <1>2, <2>2 DEF update_cpu_load, Averages
<1>3. LoadNext => UNCHANGED <<avenrun, cpu_load>>
                  \/ \E n \in 0 .. MaxLate : NohzPeriods(n)
                  \/ calc_global_load
  BY DEF LoadNext, PeriodPasses, calc_global_nohz, NohzAdds, CountChanges,
         calc_load_account_active, calc_load_account_idle, DeltaAdded, CpuUp, CpuDying
<1>4. UNCHANGED <<avenrun, cpu_load>> => Averages' /\ avenrun' = avenrun
  BY DEF Averages
<1>5. UNCHANGED laVars => UNCHANGED <<avenrun, cpu_load>>
  BY DEF laVars
<1> QED
  BY <1>1, <1>2, <1>3, <1>4, <1>5, <1>6 DEF CpuLoadNext

LEMMA AveragesHold == LoadSpec => [](LoadInv /\ Averages)
<1>1. LAInit => LoadInv /\ Averages
  BY LoadInitial, AveragesInitial, LoadAssumption
<1>2. LoadInv /\ Averages /\ [LoadNext \/ CpuLoadNext]_laVars
        => (LoadInv /\ Averages)'
  BY LoadStep, AveragesStep, LoadAssumption
<1> QED
  BY <1>1, <1>2, PTL DEF LoadSpec

(* An update takes avenrun towards the active tasks and never past them,   *)
(* for every precision, decay factor and number of periods to make up for. *)
THEOREM AvenrunNeverOvershoots == LoadSpec => AvenrunTracks
<1>1. LoadInv /\ Averages /\ [LoadNext \/ CpuLoadNext]_laVars
        => [LET a == Active(tasks')
            IN avenrun' # avenrun => \/ avenrun < avenrun' /\ avenrun' <= a
                                     \/ a <= avenrun' /\ avenrun' < avenrun]_avenrun
  <2> SUFFICES ASSUME LoadInv, Averages, [LoadNext \/ CpuLoadNext]_laVars,
                      avenrun' # avenrun
               PROVE  \/ avenrun < avenrun' /\ avenrun' <= Active(tasks')
                      \/ Active(tasks') <= avenrun' /\ avenrun' < avenrun
    OBVIOUS
  <2>1. LoadInv' /\ Averages'
    BY LoadStep, AveragesStep, LoadAssumption
  <2> DEFINE a == Active(tasks')
  <2>2. avenrun \in Nat /\ avenrun' \in Nat /\ a \in Nat
    <3>1. tasks' \in Int /\ FIXED_1 \in Nat \ {0}
      BY <2>1, FixedOne, LoadAssumption DEF LoadInv, LoadTypes
    <3>2. a \in Nat
      BY <3>1, ActiveType
    <3> QED BY <2>1, <3>2 DEF Averages
  <2>3. /\ avenrun <= a => avenrun <= avenrun' /\ avenrun' <= a
        /\ a <= avenrun => a <= avenrun' /\ avenrun' <= avenrun
    BY AveragesStep, LoadAssumption DEF Tracks
  <2> HIDE DEF a
  <2>4. \/ avenrun < avenrun' /\ avenrun' <= a
        \/ a <= avenrun' /\ avenrun' < avenrun
    BY <2>2, <2>3
  <2> QED BY <2>4 DEF a
<1> QED
  BY <1>1, AveragesHold, PTL DEF LoadSpec, AvenrunTracks

(* From wherever update_cpu_load has got an average to, an update moves it *)
(* nearer to the weight until it is there: the rounding never leaves it    *)
(* stuck and never takes it past.                                          *)
THEOREM CpuLoadConverges == LoadSpec => []CpuLoadMoves
<1>1. Averages => CpuLoadMoves
  BY AverageMoves, LoadAssumption DEF Averages, LoadAssumption, CpuLoadMoves
<1> QED
  BY <1>1, AveragesHold, PTL
=============================================================================
