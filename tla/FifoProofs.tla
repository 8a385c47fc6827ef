----------------------------- MODULE FifoProofs -----------------------------
(***************************************************************************)
(* Proofs about Fifo, for any set of processes, any capacity and any       *)
(* request lengths: its type invariant and the exactness of its counters;  *)
(* what holds when no signal arrives; that the driver is a pipe and loses  *)
(* no wake-up.  Then about DumpUtmp, its clients: no record is torn, and   *)
(* one sender reaches one receiver.                                        *)
(***************************************************************************)
EXTENDS DumpUtmp, CBufferProofs

-----------------------------------------------------------------------------
(***************************************************************************)
(* A process in the driver has a file, and only such a process is at one   *)
(* of its labels.  With this conjunct the accounting is inductive.         *)
(***************************************************************************)
InDriver ==
  \A p \in Procs : /\ pc[p] = "user" <=> call[p] = "none"
                   /\ call[p] # "none" => fmode[p] # {}

Inv == TypeOK /\ InDriver /\ OpenAccounting /\ WaitAccounting

-----------------------------------------------------------------------------
(* Counting *)

(* The step changes the file, the call and the label of p only. *)
Local(p) ==
  \A q \in Procs \ {p} :
    fmode'[q] = fmode[q] /\ call'[q] = call[q] /\ pc'[q] = pc[q]

(* How such a step changes the number of ends ... *)
LEMMA EndsStep ==
  ASSUME NEW p \in Procs, Local(p), NEW s \in Side
  PROVE  /\ Cardinality(Ends(s)) \in Nat /\ Cardinality(Ends(s)') \in Nat
         /\ Cardinality(Ends(s)')
              = Cardinality(Ends(s)) + Count(p \in Ends(s)')
                                     - Count(p \in Ends(s))
<1>1. IsFiniteSet(Ends(s))
  BY ProcsAssumption, FS_Subset DEF Ends
<1>2. Ends(s) \ {p} = Ends(s)' \ {p}
  BY DEF Local, Ends, side
<1> QED
  BY <1>1, <1>2, CardinalityStep

(* ... and the number of waiters. *)
LEMMA WaitingStep ==
  ASSUME NEW p \in Procs, Local(p), NEW s \in Side
  PROVE  /\ Cardinality(Waiting(s)) \in Nat
         /\ Cardinality(Waiting(s)') \in Nat
         /\ Cardinality(Waiting(s)')
              = Cardinality(Waiting(s)) + Count(p \in Waiting(s)')
                                        - Count(p \in Waiting(s))
<1>1. IsFiniteSet(Waiting(s))
  BY ProcsAssumption, FS_Subset DEF Waiting
<1>2. Waiting(s) \ {p} = Waiting(s)' \ {p}
  BY DEF Local, Waiting, queue, side
<1> QED
  BY <1>1, <1>2, CardinalityStep

(* A semaphore's count and the number of its waiters stay below 2^32. *)
LEMMA FewWaiters ==
  ASSUME NEW s \in Side
  PROVE  /\ Cardinality(Waiting(s)) \in Nat /\ Cardinality(Ends(s)) \in Nat
         /\ Cardinality(Waiting(s)) < UINT /\ UINT \in Nat \ {0}
<1>1. /\ Cardinality(Waiting(s)) \in Nat /\ Cardinality(Procs) \in Nat
      /\ Cardinality(Ends(s)) \in Nat
      /\ Cardinality(Waiting(s)) <= Cardinality(Procs)
  BY ProcsAssumption, FS_Subset, FS_CardinalityType DEF Waiting, Ends
<1> QED
  BY <1>1, UINTAssumption

-----------------------------------------------------------------------------
(* Initial states *)

LEMMA InitInv == Init => Inv
<1> SUFFICES ASSUME Init PROVE Inv
  OBVIOUS
<1>1. TypeOK
  <2>1. cbuffer \in cbuffer_t(Byte, BUF_LEN)
    <3>1. 0 \in 0 .. BUF_LEN
      BY DataAssumption
    <3> QED BY <3>1 DEF Init, create_cbuffer_t, cbuffer_t
  <2>2. 0 \in 0 .. BUF_LEN /\ << >> \in Seq(Byte)
    BY DataAssumption
  <2>3. ret \in [Procs -> [code : Codes, data : Seq(Byte)]]
    <3>1. Result("none", << >>) \in [code : Codes, data : Seq(Byte)]
      BY <2>2 DEF Result, Codes
    <3> QED BY <3>1 DEF Init
  <2> QED
    BY <2>1, <2>2, <2>3 DEF Init, TypeOK, Side, PC, Calls
<1>2. InDriver
  BY DEF Init, InDriver
<1>3. \A s \in Side : Ends(s) = {} /\ Waiting(s) = {}
  BY DEF Init, Ends, Waiting
<1>4. OpenAccounting /\ WaitAccounting
  <2>1. \A s \in Side : Cardinality(Ends(s)) = 0 /\ Cardinality(Waiting(s)) = 0
    BY <1>3, FS_EmptySet
  <2>2. \A s \in Side : /\ num[s] = 0 /\ lost[s] = 0
                       /\ num_bloq[s] = 0 /\ cola[s] = 0
    BY DEF Init
  <2> QED
    BY <2>1, <2>2 DEF OpenAccounting, WaitAccounting
<1> QED
  BY <1>1, <1>2, <1>4 DEF Inv

-----------------------------------------------------------------------------
(* Types of the building blocks *)

(* The types of what belongs to one call. *)
CallTypes ==
  /\ call \in [Procs -> Calls]
  /\ pc \in [Procs -> PC]
  /\ length \in [Procs -> 0 .. BUF_LEN]
  /\ kbuff \in [Procs -> Seq(Byte)]
  /\ ret \in [Procs -> [code : Codes, data : Seq(Byte)]]

LEMMA ResultType ==
  ASSUME NEW c \in Codes, NEW d \in Seq(Byte)
  PROVE  Result(c, d) \in [code : Codes, data : Seq(Byte)]
BY DEF Result

LEMMA EnterType ==
  ASSUME CallTypes, NEW p \in Procs, NEW c \in Calls, NEW n \in 0 .. BUF_LEN,
         NEW bytes \in Seq(Byte), Enter(p, c, n, bytes)
  PROVE  CallTypes'
<1>1. Result("none", << >>) \in [code : Codes, data : Seq(Byte)]
  <2>1. "none" \in Codes /\ << >> \in Seq(Byte)
    BY DEF Codes
  <2> QED BY <2>1, ResultType
<1> QED
  BY <1>1 DEF CallTypes, Enter, PC, AtMutex

LEMMA ReturnType ==
  ASSUME CallTypes, NEW p \in Procs, NEW c \in Codes, NEW d \in Seq(Byte),
         Return(p, c, d)
  PROVE  CallTypes'
<1>1. Result(c, d) \in [code : Codes, data : Seq(Byte)]
  BY ResultType
<1>2. 0 \in 0 .. BUF_LEN /\ << >> \in Seq(Byte)
  BY DataAssumption
<1> QED
  BY <1>1, <1>2 DEF CallTypes, Return, PC, Calls

LEMMA GotoType ==
  ASSUME CallTypes, NEW p \in Procs, NEW l \in PC, Goto(p, l)
  PROVE  CallTypes'
BY DEF CallTypes, Goto

-----------------------------------------------------------------------------
(* Types of the shared state *)

(* The types of what belongs to the device. *)
SharedTypes ==
  /\ mutex \in Procs \cup {NoProc}
  /\ cola \in [Side -> Nat]
  /\ num \in [Side -> Nat]
  /\ num_bloq \in [Side -> Int]
  /\ cbuffer \in cbuffer_t(Byte, BUF_LEN)
  /\ fmode \in [Procs -> SUBSET FMode]
  /\ lost \in [Side -> Nat]

LEMMA TypeParts == TypeOK <=> SharedTypes /\ CallTypes
BY DEF TypeOK, SharedTypes, CallTypes

LEMMA SideTypes ==
  ASSUME NEW p \in Procs
  PROVE  /\ side(p) \in Side /\ other(side(p)) \in Side
         /\ other(side(p)) # side(p) /\ queue(p) \in Side
BY DEF side, other, queue, Side

(* The loop of a broadcast, from any num_bloq, moves the waiters it counts *)
(* to the semaphore, and no others.                                        *)
LEMMA SignalledIs ==
  ASSUME SharedTypes, WaitAccounting, NEW s \in Side
  PROVE  /\ Signalled(s) \in [Side -> Nat]
         /\ Signalled(s)[s] = Cardinality(Waiting(s))
         /\ \A t \in Side \ {s} : Signalled(s)[t] = cola[t]
<1>1. cola[s] \in Nat /\ num_bloq[s] \in Int /\ cola \in [Side -> Nat]
  BY DEF SharedTypes
<1>2. /\ cola[s] + num_bloq[s] = Cardinality(Waiting(s))
      /\ Cardinality(Waiting(s)) \in Nat
      /\ Cardinality(Waiting(s)) < UINT /\ UINT \in Nat \ {0}
  BY <1>1, FewWaiters DEF WaitAccounting
<1>3. (cola[s] + num_bloq[s]) % UINT = Cardinality(Waiting(s))
  BY <1>2
<1> QED
  BY <1>1, <1>2, <1>3 DEF Signalled

(* An end that counts makes its counter positive. *)
LEMMA EndPositive ==
  ASSUME SharedTypes, OpenAccounting, NEW p \in Procs, NEW s \in Side,
         p \in Ends(s)
  PROVE  num[s] - 1 \in Nat
<1>1. IsFiniteSet(Ends(s))
  BY ProcsAssumption, FS_Subset DEF Ends
<1>2. Cardinality(Ends(s)) \in Nat /\ Cardinality(Ends(s)) # 0
  BY <1>1, FS_EmptySet, FS_CardinalityType
<1>3. num[s] = Cardinality(Ends(s)) + lost[s] /\ lost[s] \in Nat
  BY DEF OpenAccounting, SharedTypes
<1> QED
  BY <1>2, <1>3

-----------------------------------------------------------------------------
(* Steps.  Each action of process p keeps Inv. *)

(* The accounting of ends holds after a step of p that moves num and lost  *)
(* by as much as it moves p in or out of the ends.                         *)
LEMMA OpenAccountingStep ==
  ASSUME OpenAccounting, SharedTypes, SharedTypes', NEW p \in Procs, Local(p),
         \A s \in Side : num'[s] - lost'[s] = num[s] - lost[s]
                           + Count(p \in Ends(s)') - Count(p \in Ends(s))
  PROVE  OpenAccounting'
<1> SUFFICES ASSUME NEW s \in Side
             PROVE  num'[s] = Cardinality(Ends(s)') + lost'[s]
  BY DEF OpenAccounting
<1>1. /\ num[s] \in Nat /\ lost[s] \in Nat /\ num'[s] \in Nat /\ lost'[s] \in Nat
      /\ num[s] = Cardinality(Ends(s)) + lost[s]
  BY DEF SharedTypes, OpenAccounting
<1>2. Count(p \in Ends(s)') \in Int /\ Count(p \in Ends(s)) \in Int
  BY DEF Count
<1> QED
  BY <1>1, <1>2, EndsStep

(* The same of the waiters. *)
LEMMA WaitAccountingStep ==
  ASSUME WaitAccounting, SharedTypes, SharedTypes', NEW p \in Procs, Local(p),
         \A s \in Side : num_bloq'[s] + cola'[s] = num_bloq[s] + cola[s]
                           + Count(p \in Waiting(s)') - Count(p \in Waiting(s))
  PROVE  WaitAccounting'
<1> SUFFICES ASSUME NEW s \in Side
             PROVE  num_bloq'[s] + cola'[s] = Cardinality(Waiting(s)')
  BY DEF WaitAccounting
<1>1. num_bloq[s] + cola[s] = Cardinality(Waiting(s))
  BY DEF WaitAccounting
<1>2. Count(p \in Waiting(s)') \in Int /\ Count(p \in Waiting(s)) \in Int
  BY DEF Count
<1> QED
  BY <1>1, <1>2, WaitingStep

(* In particular when they do not move at all. *)
LEMMA OpenAccountingSame ==
  ASSUME OpenAccounting, SharedTypes, NEW p \in Procs, Local(p),
         UNCHANGED <<num, lost>>,
         \A s \in Side : p \in Ends(s)' <=> p \in Ends(s)
  PROVE  OpenAccounting'
<1> SUFFICES ASSUME NEW s \in Side
             PROVE  num[s] = Cardinality(Ends(s)') + lost[s]
  BY DEF OpenAccounting
<1>1. /\ num[s] \in Nat /\ lost[s] \in Nat
      /\ num[s] = Cardinality(Ends(s)) + lost[s]
  BY DEF SharedTypes, OpenAccounting
<1>2. Count(p \in Ends(s)') = Count(p \in Ends(s)) /\ Count(p \in Ends(s)) \in Int
  BY DEF Count
<1> QED
  BY <1>1, <1>2, EndsStep

LEMMA WaitAccountingSame ==
  ASSUME WaitAccounting, NEW p \in Procs, Local(p),
         UNCHANGED <<num_bloq, cola>>,
         \A s \in Side : p \in Waiting(s)' <=> p \in Waiting(s)
  PROVE  WaitAccounting'
<1> SUFFICES ASSUME NEW s \in Side
             PROVE  num_bloq[s] + cola[s] = Cardinality(Waiting(s)')
  BY DEF WaitAccounting
<1>1. num_bloq[s] + cola[s] = Cardinality(Waiting(s))
  BY DEF WaitAccounting
<1>2. /\ Count(p \in Waiting(s)') = Count(p \in Waiting(s))
      /\ Count(p \in Waiting(s)) \in Int
  BY DEF Count
<1> QED
  BY <1>1, <1>2, WaitingStep

(* What is left to put together at the end of each step. *)
LEMMA InvParts ==
  ASSUME SharedTypes', CallTypes', InDriver', OpenAccounting', WaitAccounting'
  PROVE  Inv'
BY DEF SharedTypes, CallTypes, Inv, TypeOK

LEMMA AcquireStep ==
  ASSUME Inv, NEW p \in Procs, Acquire(p)
  PROVE  Inv'
<1>1. TypeOK'
  BY DEF Inv, TypeOK, Acquire
<1> QED
  BY <1>1 DEF Inv, Acquire, InDriver, OpenAccounting, WaitAccounting,
              Ends, Waiting, side, queue

LEMMA WakeStep ==
  ASSUME Inv, NEW p \in Procs, Wake(p)
  PROVE  Inv'
<1> USE DEF Inv
<1>1. SharedTypes /\ CallTypes
  BY TypeParts
<1>2. queue(p) \in Side
  BY SideTypes
<1>3. SharedTypes'
  BY <1>1, <1>2 DEF SharedTypes, Wake
<1>4. CallTypes'
  BY <1>1, GotoType DEF Wake, PC, AtMutex
<1>5. Local(p) /\ InDriver'
  BY <1>1 DEF Wake, Goto, Local, InDriver, CallTypes
<1>6. OpenAccounting'
  <2>1. \A s \in Side : p \in Ends(s)' <=> p \in Ends(s)
    BY <1>1 DEF Ends, side, Wake, Goto, CallTypes
  <2> QED
    BY <1>1, <1>5, <2>1, OpenAccountingSame DEF Wake
<1>7. WaitAccounting'
  <2>1. \A s \in Side : /\ p \in Waiting(s) <=> s = queue(p)
                        /\ p \notin Waiting(s)'
    BY <1>1 DEF Waiting, Wake, Goto, CallTypes
  <2> QED
    BY <1>1, <1>2, <1>3, <1>5, <2>1, WaitAccountingStep
       DEF Wake, Count, SharedTypes
<1> QED
  BY <1>3, <1>4, <1>5, <1>6, <1>7, InvParts

LEMMA InterruptWaitStep ==
  ASSUME Inv, NEW p \in Procs, InterruptWait(p)
  PROVE  Inv'
<1> USE DEF Inv
<1>1. SharedTypes /\ CallTypes
  BY TypeParts
<1>2. SharedTypes'
  BY <1>1 DEF SharedTypes, InterruptWait
<1>3. CallTypes'
  BY <1>1, GotoType DEF InterruptWait, PC, AtMutex
<1>4. Local(p) /\ InDriver'
  BY <1>1 DEF InterruptWait, Goto, Local, InDriver, CallTypes
<1>5. OpenAccounting'
  <2>1. \A s \in Side : p \in Ends(s)' <=> p \in Ends(s)
    BY <1>1 DEF Ends, side, InterruptWait, Goto, CallTypes
  <2> QED
    BY <1>1, <1>4, <2>1, OpenAccountingSame DEF InterruptWait
<1>6. WaitAccounting'
  <2>1. \A s \in Side : p \in Waiting(s)' <=> p \in Waiting(s)
    BY <1>1 DEF Waiting, queue, side, InterruptWait, Goto, CallTypes
  <2> QED
    BY <1>4, <2>1, WaitAccountingSame DEF InterruptWait
<1> QED
  BY <1>2, <1>3, <1>4, <1>5, <1>6, InvParts

LEMMA InterruptEntryStep ==
  ASSUME Inv, NEW p \in Procs, InterruptEntry(p)
  PROVE  Inv'
<1> USE DEF Inv
<1>1. SharedTypes /\ CallTypes
  BY TypeParts
<1>2. SharedTypes'
  <2>1. lost' \in [Side -> Nat]
    <3>1. side(p) \in Side /\ lost \in [Side -> Nat]
      BY <1>1, SideTypes DEF SharedTypes
    <3> QED
      BY <3>1 DEF InterruptEntry
  <2>2. fmode' \in [Procs -> SUBSET FMode]
    BY <1>1 DEF SharedTypes, InterruptEntry
  <2> QED
    BY <1>1, <2>1, <2>2 DEF SharedTypes, InterruptEntry
<1>3. CallTypes'
  <2>1. "EINTR" \in Codes /\ << >> \in Seq(Byte)
    BY DEF Codes
  <2> QED
    BY <1>1, <2>1, ReturnType DEF InterruptEntry
<1>4. Local(p) /\ InDriver'
  BY <1>1 DEF InterruptEntry, Return, Local, InDriver, CallTypes, SharedTypes
<1>5. OpenAccounting'
  <2>1. CASE call[p] = "release"
    <3>1. \A s \in Side : /\ p \in Ends(s) <=> s = side(p)
                          /\ p \notin Ends(s)'
      BY <1>1, <2>1 DEF Ends, InterruptEntry, InDriver, SharedTypes
    <3>2. /\ side(p) \in Side /\ num' = num
          /\ lost' = [lost EXCEPT ![side(p)] = @ + 1]
      BY <2>1, SideTypes DEF InterruptEntry
    <3>3. \A s \in Side : num'[s] - lost'[s] = num[s] - lost[s]
                           + Count(p \in Ends(s)') - Count(p \in Ends(s))
      BY <1>1, <3>1, <3>2 DEF Count, SharedTypes
    <3> QED
      BY <1>1, <1>2, <1>4, <3>3, OpenAccountingStep
  <2>2. CASE call[p] = "open"
    <3>1. \A s \in Side : p \notin Ends(s) /\ p \notin Ends(s)'
      BY <1>1, <2>2 DEF Ends, InterruptEntry, SharedTypes
    <3> QED
      BY <1>1, <1>4, <2>2, <3>1, OpenAccountingSame DEF InterruptEntry
  <2>3. CASE call[p] \notin {"open", "release"}
    <3>1. \A s \in Side : p \in Ends(s) <=> p \in Ends(s)'
      BY <1>1, <2>3 DEF Ends, side, InterruptEntry, Return, CallTypes
    <3> QED
      BY <1>1, <1>4, <2>3, <3>1, OpenAccountingSame DEF InterruptEntry
  <2> QED
    BY <2>1, <2>2, <2>3
<1>6. WaitAccounting'
  <2>1. \A s \in Side : p \notin Waiting(s)' /\ p \notin Waiting(s)
    BY <1>1 DEF Waiting, InterruptEntry, Return, CallTypes
  <2> QED
    BY <1>4, <2>1, WaitAccountingSame DEF InterruptEntry
<1> QED
  BY <1>2, <1>3, <1>4, <1>5, <1>6, InvParts

(* The handler of an interrupted wait keeps the file and leaves the queue. *)
LEMMA HandlerStep ==
  ASSUME Inv, NEW p \in Procs, InterruptHandler(p), UNCHANGED fmode,
         pc[p] \in {"redown", "intr"}
  PROVE  /\ CallTypes' /\ InDriver' /\ Local(p)
         /\ \A s \in Side : /\ p \in Ends(s)' <=> p \in Ends(s)
                            /\ p \notin Waiting(s)'
<1> USE DEF Inv
<1>1. SharedTypes /\ CallTypes
  BY TypeParts
<1>2. CASE call[p] = "open"
  <2>1. Goto(p, "undo")
    BY <1>2 DEF InterruptHandler
  <2>2. CallTypes'
    BY <1>1, <2>1, GotoType DEF PC, AtMutex
  <2>3. InDriver' /\ Local(p)
    BY <1>1, <2>1 DEF Goto, InDriver, Local, CallTypes
  <2> QED
    BY <1>1, <2>1, <2>2, <2>3 DEF Goto, Ends, side, Waiting, CallTypes
<1>3. CASE call[p] # "open"
  <2>1. Return(p, "EINTR", << >>)
    BY <1>3 DEF InterruptHandler
  <2>2. CallTypes'
    <3>1. "EINTR" \in Codes /\ << >> \in Seq(Byte)
      BY DEF Codes
    <3> QED BY <1>1, <2>1, <3>1, ReturnType
  <2>3. InDriver' /\ Local(p)
    BY <1>1, <2>1 DEF Return, InDriver, Local, CallTypes
  <2> QED
    BY <1>1, <1>3, <2>1, <2>2, <2>3 DEF Return, Ends, side, Waiting, CallTypes
<1> QED
  BY <1>2, <1>3

LEMMA InterruptRelockStep ==
  ASSUME Inv, NEW p \in Procs, InterruptRelock(p)
  PROVE  Inv'
<1> USE DEF Inv
<1>1. SharedTypes
  BY TypeParts
<1>2. SharedTypes'
  BY <1>1 DEF SharedTypes, InterruptRelock
<1>3. /\ CallTypes' /\ InDriver' /\ Local(p)
      /\ \A s \in Side : /\ p \in Ends(s)' <=> p \in Ends(s)
                         /\ p \notin Waiting(s)'
  BY HandlerStep DEF InterruptRelock
<1>4. OpenAccounting'
  BY <1>1, <1>3, OpenAccountingSame DEF InterruptRelock
<1>5. WaitAccounting'
  <2>1. \A s \in Side : p \notin Waiting(s)
    BY DEF Waiting, InterruptRelock
  <2> QED
    BY <1>3, <2>1, WaitAccountingSame DEF InterruptRelock
<1> QED
  BY <1>2, <1>3, <1>4, <1>5, InvParts

LEMMA InterruptSectionStep ==
  ASSUME Inv, NEW p \in Procs, InterruptSection(p)
  PROVE  Inv'
<1> USE DEF Inv
<1>1. SharedTypes /\ queue(p) \in Side
  BY TypeParts, SideTypes
<1>2. SharedTypes'
  BY <1>1 DEF SharedTypes, InterruptSection, UpMutex
<1>3. /\ CallTypes' /\ InDriver' /\ Local(p)
      /\ \A s \in Side : /\ p \in Ends(s)' <=> p \in Ends(s)
                         /\ p \notin Waiting(s)'
  BY HandlerStep DEF InterruptSection, InSection
<1>4. OpenAccounting'
  BY <1>1, <1>3, OpenAccountingSame DEF InterruptSection
<1>5. WaitAccounting'
  <2>1. \A s \in Side : p \in Waiting(s) <=> s = queue(p)
    BY DEF Waiting, InterruptSection, InSection
  <2> QED
    BY <1>1, <1>2, <1>3, <2>1, WaitAccountingStep
       DEF InterruptSection, Count, SharedTypes
<1> QED
  BY <1>2, <1>3, <1>4, <1>5, InvParts

-----------------------------------------------------------------------------
(* What the building blocks do to the invariant. *)

(* p starts a call on its file. *)
LEMMA EnterStep ==
  ASSUME CallTypes, SharedTypes, InDriver, NEW p \in Procs,
         NEW c \in Calls \ {"none"}, NEW n \in 0 .. BUF_LEN,
         NEW bytes \in Seq(Byte), Enter(p, c, n, bytes),
         fmode'[p] # {}, \A q \in Procs \ {p} : fmode'[q] = fmode[q]
  PROVE  /\ CallTypes' /\ InDriver' /\ Local(p)
         /\ \A s \in Side : p \notin Waiting(s)'
<1>1. CallTypes'
  BY EnterType
<1>2. InDriver' /\ Local(p)
  BY DEF Enter, InDriver, Local, CallTypes
<1>3. \A s \in Side : p \notin Waiting(s)'
  BY DEF Enter, Waiting, CallTypes
<1> QED
  BY <1>1, <1>2, <1>3

(* p returns, with or without its file. *)
LEMMA ReturnStep ==
  ASSUME CallTypes, SharedTypes, InDriver, NEW p \in Procs, NEW c \in Codes,
         NEW d \in Seq(Byte), Return(p, c, d),
         \A q \in Procs \ {p} : fmode'[q] = fmode[q]
  PROVE  /\ CallTypes' /\ InDriver' /\ Local(p)
         /\ \A s \in Side : p \notin Waiting(s)'
<1>1. CallTypes'
  BY ReturnType
<1>2. InDriver' /\ Local(p)
  BY DEF Return, InDriver, Local, CallTypes
<1>3. \A s \in Side : p \notin Waiting(s)'
  BY DEF Return, Waiting, CallTypes
<1> QED
  BY <1>1, <1>2, <1>3

(* p goes to sleep in cond_wait: one waiter more in its queue. *)
LEMMA CondWaitStep ==
  ASSUME CallTypes, SharedTypes, InDriver, NEW p \in Procs, CondWait(p),
         UNCHANGED fmode, pc[p] \in {"down", "redown"}
  PROVE  /\ CallTypes' /\ InDriver' /\ Local(p)
         /\ num_bloq' \in [Side -> Int] /\ cola' = cola
         /\ \A s \in Side :
              num_bloq'[s] + cola'[s] = num_bloq[s] + cola[s]
                + Count(p \in Waiting(s)') - Count(p \in Waiting(s))
<1>1. CallTypes'
  BY GotoType DEF CondWait, PC
<1>2. InDriver' /\ Local(p)
  BY DEF CondWait, Goto, InDriver, Local, CallTypes
<1>3. /\ num_bloq' = [num_bloq EXCEPT ![queue(p)] = @ + 1] /\ cola' = cola
      /\ num_bloq \in [Side -> Int] /\ cola \in [Side -> Nat]
      /\ queue(p) \in Side
  BY SideTypes DEF CondWait, SharedTypes
<1>4. \A s \in Side : /\ p \notin Waiting(s)
                      /\ p \in Waiting(s)' <=> s = queue(p)
  BY DEF CondWait, Goto, Waiting, queue, side, CallTypes
<1>5. \A s \in Side :
        num_bloq'[s] + cola'[s] = num_bloq[s] + cola[s]
          + Count(p \in Waiting(s)') - Count(p \in Waiting(s))
  BY <1>3, <1>4 DEF Count
<1> QED
  BY <1>1, <1>2, <1>3, <1>5

(* A broadcast moves num_bloq to the semaphore and changes no sum. *)
LEMMA BroadcastStep ==
  ASSUME SharedTypes, WaitAccounting, NEW t \in Side, Broadcast(t)
  PROVE  /\ cola' \in [Side -> Nat] /\ num_bloq' \in [Side -> Int]
         /\ \A s \in Side : num_bloq'[s] + cola'[s] = num_bloq[s] + cola[s]
<1>1. /\ num_bloq' = [num_bloq EXCEPT ![t] = 0] /\ cola' = Signalled(t)
      /\ num_bloq \in [Side -> Int] /\ cola \in [Side -> Nat]
  BY DEF Broadcast, SharedTypes
<1>2. /\ cola' \in [Side -> Nat] /\ cola'[t] = num_bloq[t] + cola[t]
      /\ \A s \in Side \ {t} : cola'[s] = cola[s]
  BY <1>1, SignalledIs DEF WaitAccounting
<1>3. num_bloq' \in [Side -> Int]
  BY <1>1
<1>4. ASSUME NEW s \in Side
      PROVE  num_bloq'[s] + cola'[s] = num_bloq[s] + cola[s]
  <2>1. CASE s = t
    BY <1>1, <1>2, <2>1
  <2>2. CASE s # t
    BY <1>1, <1>2, <2>2
  <2> QED
    BY <2>1, <2>2
<1> QED
  BY <1>2, <1>3, <1>4

-----------------------------------------------------------------------------
(* fifo_open *)

LEMMA OpenCallStep ==
  ASSUME Inv, NEW p \in Procs, NEW mode \in SUBSET FMode, OpenCall(p, mode)
  PROVE  Inv'
<1> USE DEF Inv
<1>1. SharedTypes /\ CallTypes
  BY TypeParts
<1>2. SharedTypes'
  BY <1>1 DEF SharedTypes, OpenCall
<1>3. /\ CallTypes' /\ InDriver' /\ Local(p)
      /\ \A s \in Side : p \notin Waiting(s)'
  <2>1. "open" \in Calls \ {"none"} /\ 0 \in 0 .. BUF_LEN /\ << >> \in Seq(Byte)
    BY DataAssumption DEF Calls
  <2>2. fmode'[p] # {} /\ \A q \in Procs \ {p} : fmode'[q] = fmode[q]
    BY <1>1 DEF OpenCall, SharedTypes
  <2> QED
    BY <1>1, <2>1, <2>2, EnterStep DEF OpenCall
<1>4. OpenAccounting'
  <2>1. \A s \in Side : p \notin Ends(s) /\ p \notin Ends(s)'
    BY <1>1 DEF OpenCall, Enter, Ends, CallTypes
  <2> QED
    BY <1>1, <1>3, <2>1, OpenAccountingSame DEF OpenCall
<1>5. WaitAccounting'
  <2>1. \A s \in Side : p \notin Waiting(s)
    BY DEF OpenCall, Waiting
  <2> QED
    BY <1>3, <2>1, WaitAccountingSame DEF OpenCall
<1> QED
  BY <1>2, <1>3, <1>4, <1>5, InvParts

LEMMA OpenSectionStep ==
  ASSUME Inv, NEW p \in Procs, OpenSection(p)
  PROVE  Inv'
<1> USE DEF Inv
<1> DEFINE m == side(p)
           o == other(side(p))
<1>1. SharedTypes /\ CallTypes /\ m \in Side /\ o \in Side /\ o # m
  BY TypeParts, SideTypes
<1>2. /\ pc[p] = "down" /\ call[p] = "open" /\ UNCHANGED <<cbuffer, fmode, lost>>
      /\ num' = [num EXCEPT ![m] = @ + 1] /\ mutex' = NoProc
      /\ cola' = Signalled(o)
      /\ \/ /\ num_bloq' = [num_bloq EXCEPT ![o] = 0, ![m] = @ + 1]
            /\ Goto(p, "cond")
         \/ /\ num_bloq' = [num_bloq EXCEPT ![o] = 0]
            /\ Return(p, "OK", << >>)
  BY DEF OpenSection, InSection, UpMutex
<1>3. fmode[p] # {} /\ \A q \in Procs \ {p} : fmode'[q] = fmode[q]
  BY <1>2 DEF InDriver
<1>4. /\ cola' \in [Side -> Nat] /\ cola'[o] = num_bloq[o] + cola[o]
      /\ \A s \in Side \ {o} : cola'[s] = cola[s]
  BY <1>1, <1>2, SignalledIs DEF WaitAccounting, SharedTypes
<1>5. SharedTypes'
  <2>1. num_bloq \in [Side -> Int] /\ num \in [Side -> Nat]
    BY <1>1 DEF SharedTypes
  <2>2. num_bloq' \in [Side -> Int]
    <3> HIDE DEF m, o
    <3>1. [num_bloq EXCEPT ![o] = 0] \in [Side -> Int]
      BY <1>1, <2>1
    <3>2. [num_bloq EXCEPT ![o] = 0, ![m] = @ + 1] \in [Side -> Int]
      BY <1>1, <2>1
    <3> QED BY <1>2, <3>1, <3>2
  <2>3. num' \in [Side -> Nat]
    BY <1>1, <1>2, <2>1
  <2> QED
    BY <1>1, <1>2, <1>4, <2>2, <2>3 DEF SharedTypes
<1>6. /\ CallTypes' /\ InDriver' /\ Local(p)
  <2>1. CASE Goto(p, "cond")
    <3>1. CallTypes'
      BY <1>1, <2>1, GotoType DEF PC
    <3> QED
      BY <1>1, <1>2, <1>3, <2>1, <3>1 DEF Goto, InDriver, Local, CallTypes
  <2>2. CASE Return(p, "OK", << >>)
    <3>1. "OK" \in Codes /\ << >> \in Seq(Byte)
      BY DEF Codes
    <3> QED
      BY <1>1, <1>3, <2>2, <3>1, ReturnStep
  <2> QED
    BY <1>2, <2>1, <2>2
<1>7. OpenAccounting'
  <2>1. \A s \in Side : p \notin Ends(s) /\ (p \in Ends(s)' <=> s = m)
    BY <1>1, <1>2, <1>3 DEF Ends, side, Goto, Return, CallTypes
  <2>2. \A s \in Side : num'[s] - lost'[s] = num[s] - lost[s]
                          + Count(p \in Ends(s)') - Count(p \in Ends(s))
    <3>1. num \in [Side -> Nat] /\ lost \in [Side -> Nat] /\ lost' = lost
      BY <1>1, <1>2 DEF SharedTypes
    <3>2. num' = [num EXCEPT ![m] = @ + 1] /\ m \in Side
      BY <1>1, <1>2
    <3> HIDE DEF m, o
    <3> QED BY <2>1, <3>1, <3>2 DEF Count
  <2> QED
    BY <1>1, <1>5, <1>6, <2>2, OpenAccountingStep
<1>8. WaitAccounting'
  <2>1. \A s \in Side : p \notin Waiting(s)
    BY <1>2 DEF Waiting
  <2>2. CASE /\ num_bloq' = [num_bloq EXCEPT ![o] = 0, ![m] = @ + 1]
             /\ Goto(p, "cond")
    <3>1. \A s \in Side : p \in Waiting(s)' <=> s = m
      BY <1>1, <1>2, <2>2 DEF Waiting, queue, side, Goto, CallTypes
    <3>2. \A s \in Side :
            num_bloq'[s] + cola'[s] = num_bloq[s] + cola[s]
              + Count(p \in Waiting(s)') - Count(p \in Waiting(s))
      <4>1. num_bloq \in [Side -> Int] /\ cola \in [Side -> Nat]
        BY <1>1 DEF SharedTypes
      <4> HIDE DEF m, o
      <4> QED BY <1>1, <1>4, <2>1, <2>2, <3>1, <4>1 DEF Count
    <3> QED
      BY <1>1, <1>5, <1>6, <3>2, WaitAccountingStep
  <2>3. CASE /\ num_bloq' = [num_bloq EXCEPT ![o] = 0]
             /\ Return(p, "OK", << >>)
    <3>1. \A s \in Side : p \notin Waiting(s)'
      BY <1>1, <2>3 DEF Waiting, Return, CallTypes
    <3>2. \A s \in Side :
            num_bloq'[s] + cola'[s] = num_bloq[s] + cola[s]
              + Count(p \in Waiting(s)') - Count(p \in Waiting(s))
      <4>1. num_bloq \in [Side -> Int] /\ cola \in [Side -> Nat]
        BY <1>1 DEF SharedTypes
      <4> HIDE DEF m, o
      <4> QED BY <1>1, <1>4, <2>1, <2>3, <3>1, <4>1 DEF Count
    <3> QED
      BY <1>1, <1>5, <1>6, <3>2, WaitAccountingStep
  <2> QED
    BY <1>2, <2>2, <2>3
<1> QED
  BY <1>5, <1>6, <1>7, <1>8, InvParts

LEMMA OpenRetestStep ==
  ASSUME Inv, NEW p \in Procs, OpenRetest(p)
  PROVE  Inv'
<1> USE DEF Inv
<1>1. SharedTypes /\ CallTypes
  BY TypeParts
<1>2. /\ pc[p] = "redown" /\ call[p] = "open" /\ mutex' = NoProc
      /\ UNCHANGED <<num, cbuffer, fmode, lost>>
      /\ \/ CondWait(p)
         \/ Return(p, "OK", << >>) /\ UNCHANGED <<cola, num_bloq>>
  BY DEF OpenRetest, InSection, UpMutex
<1>3. \A s \in Side : p \notin Waiting(s)
  BY <1>2 DEF Waiting
<1>4. \A s \in Side : p \in Ends(s)' <=> p \in Ends(s)
  BY <1>1, <1>2 DEF Ends, side, CondWait, Goto, Return, CallTypes
<1>5. CASE CondWait(p)
  <2>1. /\ CallTypes' /\ InDriver' /\ Local(p)
        /\ num_bloq' \in [Side -> Int] /\ cola' = cola
        /\ \A s \in Side :
             num_bloq'[s] + cola'[s] = num_bloq[s] + cola[s]
               + Count(p \in Waiting(s)') - Count(p \in Waiting(s))
    BY <1>1, <1>2, <1>5, CondWaitStep
  <2>2. SharedTypes'
    BY <1>1, <1>2, <2>1 DEF SharedTypes
  <2>3. OpenAccounting' /\ WaitAccounting'
    BY <1>1, <1>2, <1>4, <2>1, <2>2, OpenAccountingSame, WaitAccountingStep
  <2> QED
    BY <2>1, <2>2, <2>3, InvParts
<1>6. CASE Return(p, "OK", << >>) /\ UNCHANGED <<cola, num_bloq>>
  <2>1. /\ CallTypes' /\ InDriver' /\ Local(p)
        /\ \A s \in Side : p \notin Waiting(s)'
    <3>1. "OK" \in Codes /\ << >> \in Seq(Byte)
      BY DEF Codes
    <3> QED
      BY <1>1, <1>2, <1>6, <3>1, ReturnStep
  <2>2. SharedTypes'
    BY <1>1, <1>2, <1>6 DEF SharedTypes
  <2>3. OpenAccounting' /\ WaitAccounting'
    BY <1>1, <1>2, <1>3, <1>4, <1>6, <2>1, OpenAccountingSame,
       WaitAccountingSame
  <2> QED
    BY <2>1, <2>2, <2>3, InvParts
<1> QED
  BY <1>2, <1>5, <1>6

LEMMA OpenUndoStep ==
  ASSUME Inv, NEW p \in Procs, OpenUndo(p)
  PROVE  Inv'
<1> USE DEF Inv
<1> DEFINE m == side(p)
<1>1. SharedTypes /\ CallTypes /\ m \in Side
  BY TypeParts, SideTypes
<1>2. /\ pc[p] = "undo" /\ mutex' = NoProc
      /\ num' = [num EXCEPT ![m] = @ - 1]
      /\ fmode' = [fmode EXCEPT ![p] = {}]
      /\ Return(p, "EINTR", << >>)
      /\ UNCHANGED <<cola, num_bloq, cbuffer, lost>>
  BY DEF OpenUndo, InSection, UpMutex
<1>3. \A s \in Side : (p \in Ends(s) <=> s = m) /\ p \notin Ends(s)'
  BY <1>1, <1>2 DEF Ends, InDriver, SharedTypes
<1>4. num[m] - 1 \in Nat
  BY <1>1, <1>3, EndPositive
<1>5. SharedTypes'
  <2>1. num' \in [Side -> Nat]
    BY <1>1, <1>2, <1>4 DEF SharedTypes
  <2>2. fmode' \in [Procs -> SUBSET FMode]
    BY <1>1, <1>2 DEF SharedTypes
  <2> QED
    BY <1>1, <1>2, <2>1, <2>2 DEF SharedTypes
<1>6. /\ CallTypes' /\ InDriver' /\ Local(p)
      /\ \A s \in Side : p \notin Waiting(s)'
  <2>1. "EINTR" \in Codes /\ << >> \in Seq(Byte)
    BY DEF Codes
  <2>2. \A q \in Procs \ {p} : fmode'[q] = fmode[q]
    BY <1>1, <1>2 DEF SharedTypes
  <2> QED
    BY <1>1, <1>2, <2>1, <2>2, ReturnStep
<1>7. OpenAccounting'
  <2>1. \A s \in Side : num'[s] - lost'[s] = num[s] - lost[s]
                          + Count(p \in Ends(s)') - Count(p \in Ends(s))
    BY <1>1, <1>2, <1>3 DEF Count, SharedTypes
  <2> QED
    BY <1>1, <1>5, <1>6, <2>1, OpenAccountingStep
<1>8. WaitAccounting'
  <2>1. \A s \in Side : p \notin Waiting(s)
    BY <1>2 DEF Waiting
  <2> QED
    BY <1>2, <1>6, <2>1, WaitAccountingSame
<1> QED
  BY <1>5, <1>6, <1>7, <1>8, InvParts

-----------------------------------------------------------------------------
(* fifo_release *)

LEMMA ReleaseCallStep ==
  ASSUME Inv, NEW p \in Procs, ReleaseCall(p)
  PROVE  Inv'
<1> USE DEF Inv
<1>1. SharedTypes /\ CallTypes
  BY TypeParts
<1>2. SharedTypes'
  BY <1>1 DEF SharedTypes, ReleaseCall
<1>3. /\ CallTypes' /\ InDriver' /\ Local(p)
      /\ \A s \in Side : p \notin Waiting(s)'
  <2>1. "release" \in Calls \ {"none"} /\ 0 \in 0 .. BUF_LEN /\ << >> \in Seq(Byte)
    BY DataAssumption DEF Calls
  <2> QED
    BY <1>1, <2>1, EnterStep DEF ReleaseCall
<1>4. OpenAccounting'
  <2>1. \A s \in Side : p \in Ends(s)' <=> p \in Ends(s)
    BY <1>1 DEF ReleaseCall, Enter, Ends, side, CallTypes
  <2> QED
    BY <1>1, <1>3, <2>1, OpenAccountingSame DEF ReleaseCall
<1>5. WaitAccounting'
  <2>1. \A s \in Side : p \notin Waiting(s)
    BY DEF ReleaseCall, Waiting
  <2> QED
    BY <1>3, <2>1, WaitAccountingSame DEF ReleaseCall
<1> QED
  BY <1>2, <1>3, <1>4, <1>5, InvParts

LEMMA ReleaseSectionStep ==
  ASSUME Inv, NEW p \in Procs, ReleaseSection(p)
  PROVE  Inv'
<1> USE DEF Inv
<1> DEFINE m == side(p)
<1>1. SharedTypes /\ CallTypes /\ m \in Side
  BY TypeParts, SideTypes
<1>2. /\ pc[p] = "down" /\ call[p] = "release" /\ mutex' = NoProc
      /\ num' = [num EXCEPT ![m] = @ - 1]
      /\ Broadcast("prod") \/ UNCHANGED <<cola, num_bloq>>
      /\ cbuffer' = [cbuffer EXCEPT !.size = 0] \/ cbuffer' = cbuffer
      /\ fmode' = [fmode EXCEPT ![p] = {}]
      /\ Return(p, "OK", << >>)
      /\ UNCHANGED lost
  BY DEF ReleaseSection, InSection, UpMutex
<1>3. \A s \in Side : (p \in Ends(s) <=> s = m) /\ p \notin Ends(s)'
  BY <1>1, <1>2 DEF Ends, InDriver, SharedTypes
<1>4. num[m] - 1 \in Nat
  BY <1>1, <1>3, EndPositive
<1>5. /\ cola' \in [Side -> Nat] /\ num_bloq' \in [Side -> Int]
      /\ \A s \in Side : num_bloq'[s] + cola'[s] = num_bloq[s] + cola[s]
  BY <1>1, <1>2, BroadcastStep DEF Side, SharedTypes
<1>6. SharedTypes'
  <2>1. num' \in [Side -> Nat]
    BY <1>1, <1>2, <1>4 DEF SharedTypes
  <2>2. fmode' \in [Procs -> SUBSET FMode]
    BY <1>1, <1>2 DEF SharedTypes
  <2>3. cbuffer' \in cbuffer_t(Byte, BUF_LEN)
    <3>1. 0 \in 0 .. BUF_LEN
      BY DataAssumption
    <3> QED BY <1>1, <1>2, <3>1 DEF SharedTypes, cbuffer_t
  <2> QED
    BY <1>1, <1>2, <1>5, <2>1, <2>2, <2>3 DEF SharedTypes
<1>7. /\ CallTypes' /\ InDriver' /\ Local(p)
      /\ \A s \in Side : p \notin Waiting(s)'
  <2>1. "OK" \in Codes /\ << >> \in Seq(Byte)
    BY DEF Codes
  <2>2. \A q \in Procs \ {p} : fmode'[q] = fmode[q]
    BY <1>1, <1>2 DEF SharedTypes
  <2> QED
    BY <1>1, <1>2, <2>1, <2>2, ReturnStep
<1>8. OpenAccounting'
  <2>1. \A s \in Side : num'[s] - lost'[s] = num[s] - lost[s]
                          + Count(p \in Ends(s)') - Count(p \in Ends(s))
    BY <1>1, <1>2, <1>3 DEF Count, SharedTypes
  <2> QED
    BY <1>1, <1>6, <1>7, <2>1, OpenAccountingStep
<1>9. WaitAccounting'
  <2>1. \A s \in Side : p \notin Waiting(s)
    BY <1>2 DEF Waiting
  <2>2. \A s \in Side : num_bloq'[s] + cola'[s] = num_bloq[s] + cola[s]
          + Count(p \in Waiting(s)') - Count(p \in Waiting(s))
    BY <1>1, <1>5, <1>7, <2>1 DEF Count, SharedTypes
  <2> QED
    BY <1>1, <1>6, <1>7, <2>2, WaitAccountingStep
<1> QED
  BY <1>6, <1>7, <1>8, <1>9, InvParts

-----------------------------------------------------------------------------
(* fifo_read and fifo_write *)

(* A call that is refused, or that goes as far as its first down. *)
LEMMA RefusedStep ==
  ASSUME Inv, NEW p \in Procs, NEW c \in Codes, Return(p, c, << >>),
         pc[p] = "user",
         UNCHANGED <<mutex, cola, num, num_bloq, cbuffer, fmode, lost>>
  PROVE  Inv'
<1> USE DEF Inv
<1>1. SharedTypes /\ CallTypes /\ SharedTypes'
  BY TypeParts DEF SharedTypes
<1>2. /\ CallTypes' /\ InDriver' /\ Local(p)
      /\ \A s \in Side : p \notin Waiting(s)'
  <2>1. << >> \in Seq(Byte)
    OBVIOUS
  <2> QED BY <1>1, <2>1, ReturnStep
<1>3. \A s \in Side : (p \in Ends(s)' <=> p \in Ends(s)) /\ p \notin Waiting(s)
  BY <1>1 DEF Return, Ends, side, Waiting, CallTypes
<1>4. OpenAccounting' /\ WaitAccounting'
  BY <1>1, <1>2, <1>3, OpenAccountingSame, WaitAccountingSame
<1> QED
  BY <1>1, <1>2, <1>4, InvParts

LEMMA AdmittedStep ==
  ASSUME Inv, NEW p \in Procs, NEW c \in {"read", "write"},
         NEW n \in 0 .. BUF_LEN, NEW bytes \in Seq(Byte),
         Enter(p, c, n, bytes), pc[p] = "user", fmode[p] # {},
         UNCHANGED <<mutex, cola, num, num_bloq, cbuffer, fmode, lost>>
  PROVE  Inv'
<1> USE DEF Inv
<1>1. SharedTypes /\ CallTypes /\ SharedTypes'
  BY TypeParts DEF SharedTypes
<1>2. /\ CallTypes' /\ InDriver' /\ Local(p)
      /\ \A s \in Side : p \notin Waiting(s)'
  <2>1. c \in Calls \ {"none"}
    BY DEF Calls
  <2> QED BY <1>1, <2>1, EnterStep
<1>3. \A s \in Side : (p \in Ends(s)' <=> p \in Ends(s)) /\ p \notin Waiting(s)
  BY <1>1 DEF Enter, Ends, side, Waiting, CallTypes
<1>4. OpenAccounting' /\ WaitAccounting'
  BY <1>1, <1>2, <1>3, OpenAccountingSame, WaitAccountingSame
<1> QED
  BY <1>1, <1>2, <1>4, InvParts

LEMMA ReadCallStep ==
  ASSUME Inv, NEW p \in Procs, NEW n \in Lengths, ReadCall(p, n)
  PROVE  Inv'
<1>1. \A c \in {"EINVAL", "ENOMEM"} : c \in Codes
  BY DEF Codes
<1>2. CASE n > BUF_LEN /\ Return(p, "EINVAL", << >>)
  BY <1>1, <1>2, RefusedStep DEF ReadCall
<1>3. CASE n <= BUF_LEN /\ Return(p, "ENOMEM", << >>)
  BY <1>1, <1>3, RefusedStep DEF ReadCall
<1>4. CASE n <= BUF_LEN /\ Enter(p, "read", n, << >>)
  <2>1. n \in 0 .. BUF_LEN /\ << >> \in Seq(Byte) /\ fmode[p] # {}
    BY <1>4, DataAssumption DEF ReadCall
  <2> QED
    BY <1>4, <2>1, AdmittedStep DEF ReadCall
<1> QED
  BY <1>2, <1>3, <1>4 DEF ReadCall

LEMMA WriteCallStep ==
  ASSUME Inv, NEW p \in Procs, NEW n \in Lengths, WriteCall(p, n)
  PROVE  Inv'
<1>1. \A c \in {"EINVAL", "ENOMEM"} : c \in Codes
  BY DEF Codes
<1>2. CASE n > BUF_LEN /\ Return(p, "EINVAL", << >>)
  BY <1>1, <1>2, RefusedStep DEF WriteCall
<1>3. CASE n <= BUF_LEN /\ Return(p, "ENOMEM", << >>)
  BY <1>1, <1>3, RefusedStep DEF WriteCall
<1>4. CASE /\ n <= BUF_LEN
           /\ \E k \in Uncopied(n) : \E bytes \in [1 .. n - k -> Byte] :
                Enter(p, "write", n - k, bytes)
  <2>0. PICK k \in Uncopied(n) :
          \E bytes \in [1 .. n - k -> Byte] : Enter(p, "write", n - k, bytes)
    BY <1>4
  <2>1. PICK bytes \in [1 .. n - k -> Byte] : Enter(p, "write", n - k, bytes)
    BY <2>0
  <2>2. n \in Nat /\ BUF_LEN \in Nat /\ k \in 0 .. n
    BY DataAssumption DEF Uncopied
  <2>3. n - k \in 0 .. BUF_LEN
    BY <1>4, <2>2
  <2>4. bytes \in Seq(Byte) /\ fmode[p] # {}
    BY <2>3 DEF WriteCall
  <2> QED
    BY <2>1, <2>3, <2>4, AdmittedStep DEF WriteCall
<1> QED
  BY <1>2, <1>3, <1>4 DEF WriteCall

(* The critical section of a read or a write that goes to sleep. *)
LEMMA SleepStep ==
  ASSUME Inv, NEW p \in Procs, call[p] \in {"read", "write"},
         pc[p] \in {"down", "redown"}, UpMutex, CondWait(p),
         UNCHANGED <<num, cbuffer, fmode, lost>>
  PROVE  Inv'
<1> USE DEF Inv
<1>1. SharedTypes /\ CallTypes
  BY TypeParts
<1>2. /\ CallTypes' /\ InDriver' /\ Local(p)
      /\ num_bloq' \in [Side -> Int] /\ cola' = cola
      /\ \A s \in Side :
           num_bloq'[s] + cola'[s] = num_bloq[s] + cola[s]
             + Count(p \in Waiting(s)') - Count(p \in Waiting(s))
  BY <1>1, CondWaitStep
<1>3. SharedTypes'
  BY <1>1, <1>2 DEF SharedTypes, UpMutex
<1>4. \A s \in Side : p \in Ends(s)' <=> p \in Ends(s)
  BY <1>1 DEF Ends, side, CondWait, Goto, CallTypes
<1>5. OpenAccounting' /\ WaitAccounting'
  BY <1>1, <1>2, <1>3, <1>4, OpenAccountingSame, WaitAccountingStep
<1> QED
  BY <1>2, <1>3, <1>5, InvParts

(* The critical section of a read or a write that returns. *)
LEMMA FinishStep ==
  ASSUME Inv, NEW p \in Procs, call[p] \in {"read", "write"},
         pc[p] \in {"down", "redown"}, UpMutex,
         NEW c \in Codes, NEW d \in Seq(Byte), Return(p, c, d),
         cbuffer' \in cbuffer_t(Byte, BUF_LEN),
         NEW t \in Side, Broadcast(t) \/ UNCHANGED <<cola, num_bloq>>,
         UNCHANGED <<num, fmode, lost>>
  PROVE  Inv'
<1> USE DEF Inv
<1>1. SharedTypes /\ CallTypes
  BY TypeParts
<1>2. /\ CallTypes' /\ InDriver' /\ Local(p)
      /\ \A s \in Side : p \notin Waiting(s)'
  BY <1>1, ReturnStep
<1>3. /\ cola' \in [Side -> Nat] /\ num_bloq' \in [Side -> Int]
      /\ \A s \in Side : num_bloq'[s] + cola'[s] = num_bloq[s] + cola[s]
  BY <1>1, BroadcastStep DEF SharedTypes
<1>4. SharedTypes'
  BY <1>1, <1>3 DEF SharedTypes, UpMutex
<1>5. \A s \in Side : (p \in Ends(s)' <=> p \in Ends(s)) /\ p \notin Waiting(s)
  BY <1>1 DEF Ends, side, Waiting, Return, CallTypes
<1>6. \A s \in Side : num_bloq'[s] + cola'[s] = num_bloq[s] + cola[s]
        + Count(p \in Waiting(s)') - Count(p \in Waiting(s))
  BY <1>1, <1>2, <1>3, <1>5 DEF Count, SharedTypes
<1>7. OpenAccounting'
  BY <1>1, <1>2, <1>5, OpenAccountingSame
<1>8. WaitAccounting'
  BY <1>1, <1>2, <1>4, <1>6, WaitAccountingStep
<1> QED
  BY <1>2, <1>4, <1>7, <1>8, InvParts

LEMMA ReadSectionStep ==
  ASSUME Inv, NEW p \in Procs, ReadSection(p)
  PROVE  Inv'
<1> DEFINE n == length[p]
<1>1. /\ cbuffer \in cbuffer_t(Byte, BUF_LEN) /\ n \in 0 .. BUF_LEN
      /\ BUF_LEN \in Nat \ {0} /\ n \in Nat
  BY DataAssumption DEF Inv, TypeOK
<1>2. /\ pc[p] \in {"down", "redown"} /\ call[p] \in {"read", "write"}
      /\ UpMutex /\ UNCHANGED <<num, fmode, lost>>
      /\ "cons" \in Side /\ "prod" \in Side
  BY DEF ReadSection, InSection, Side
<1>3. \A c \in {"OK", "EOF"} : c \in Codes
  BY DEF Codes
<1>4. CASE Return(p, "EOF", << >>) /\ UNCHANGED <<cola, num_bloq, cbuffer>>
  <2>1. << >> \in Seq(Byte) /\ cbuffer' \in cbuffer_t(Byte, BUF_LEN)
    BY <1>1, <1>4
  <2> QED BY <1>2, <1>3, <1>4, <2>1, FinishStep
<1>5. CASE CondWait(p) /\ UNCHANGED cbuffer
  BY <1>2, <1>5, SleepStep
<1>6. CASE /\ size_cbuffer_t(cbuffer) >= n
           /\ cbuffer' = remove_items_cbuffer_t(cbuffer, n)
           /\ Broadcast("prod")
           /\ \E k \in Uncopied(n) :
                Return(p, "OK", SubSeq(removed_items(cbuffer, n), 1, n - k))
  <2>1. PICK k \in Uncopied(n) :
          Return(p, "OK", SubSeq(removed_items(cbuffer, n), 1, n - k))
    BY <1>6
  <2> DEFINE r == removed_items(cbuffer, n)
  <2>2. r \in Seq(Byte) /\ Len(r) = n
    <3>1. n <= cbuffer.size
      BY <1>1, <1>6, Fields DEF size_cbuffer_t
    <3> QED BY <1>1, <3>1, RemovedItemsType
  <2> HIDE DEF r
  <2>3. SubSeq(r, 1, n - k) \in Seq(Byte)
    <3>1. k \in 0 .. n
      BY <1>1 DEF Uncopied
    <3>2. n - k \in Int /\ \A x \in 1 .. n - k : r[x] \in Byte
      BY <1>1, <2>2, <3>1, ElementOfSeq
    <3> QED BY <3>2, SubSeqProperties
  <2>4. cbuffer' \in cbuffer_t(Byte, BUF_LEN)
    BY <1>1, <1>6, RemoveItemsType
  <2> QED
    BY <1>2, <1>3, <1>6, <2>1, <2>3, <2>4, FinishStep DEF r
<1> QED
  BY <1>4, <1>5, <1>6 DEF ReadSection

LEMMA WriteSectionStep ==
  ASSUME Inv, NEW p \in Procs, WriteSection(p)
  PROVE  Inv'
<1>1. /\ cbuffer \in cbuffer_t(Byte, BUF_LEN) /\ kbuff[p] \in Seq(Byte)
      /\ BUF_LEN \in Nat \ {0}
  BY DataAssumption DEF Inv, TypeOK
<1>2. /\ pc[p] \in {"down", "redown"} /\ call[p] \in {"read", "write"}
      /\ UpMutex /\ UNCHANGED <<num, fmode, lost>>
      /\ "cons" \in Side /\ "prod" \in Side
  BY DEF WriteSection, InSection, Side
<1>3. \A c \in {"OK", "EPIPE"} : c \in Codes
  BY DEF Codes
<1>4. CASE Return(p, "EPIPE", << >>) /\ UNCHANGED <<cola, num_bloq, cbuffer>>
  <2>1. << >> \in Seq(Byte) /\ cbuffer' \in cbuffer_t(Byte, BUF_LEN)
    BY <1>1, <1>4
  <2> QED BY <1>2, <1>3, <1>4, <2>1, FinishStep
<1>5. CASE CondWait(p) /\ UNCHANGED cbuffer
  BY <1>2, <1>5, SleepStep
<1>6. CASE /\ cbuffer' = insert_items_cbuffer_t(cbuffer, kbuff[p])
           /\ Broadcast("cons")
           /\ Return(p, "OK", kbuff[p])
  <2>1. cbuffer' \in cbuffer_t(Byte, BUF_LEN)
    BY <1>1, <1>6, InsertItemsType
  <2> QED
    BY <1>1, <1>2, <1>3, <1>6, <2>1, FinishStep
<1> QED
  BY <1>4, <1>5, <1>6 DEF WriteSection

-----------------------------------------------------------------------------
(* Theorems *)

(* Every step of fifo.c keeps the inductive invariant. *)
LEMMA NextInv == Inv /\ [Next]_vars => Inv'
<1> SUFFICES ASSUME Inv, [Next]_vars PROVE Inv'
  OBVIOUS
<1>1. CASE UNCHANGED vars
  <2>1. TypeOK' /\ InDriver'
    BY <1>1 DEF vars, Inv, TypeOK, InDriver
  <2>2. OpenAccounting'
    BY <1>1 DEF vars, Inv, OpenAccounting, Ends, side
  <2>3. WaitAccounting'
    BY <1>1 DEF vars, Inv, WaitAccounting, Waiting, queue, side
  <2> QED
    BY <2>1, <2>2, <2>3 DEF Inv
<1>2. ASSUME NEW p \in Procs, UserCall(p)
      PROVE  Inv'
  BY <1>2, OpenCallStep, ReleaseCallStep, ReadCallStep, WriteCallStep
     DEF UserCall
<1>3. ASSUME NEW p \in Procs, Section(p)
      PROVE  Inv'
  BY <1>3, OpenSectionStep, OpenRetestStep, OpenUndoStep, ReleaseSectionStep,
     ReadSectionStep, WriteSectionStep, InterruptSectionStep DEF Section
<1>4. ASSUME NEW p \in Procs, Signal(p)
      PROVE  Inv'
  BY <1>4, InterruptWaitStep, InterruptEntryStep, InterruptRelockStep
     DEF Signal
<1> QED
  BY <1>1, <1>2, <1>3, <1>4, AcquireStep, WakeStep DEF Next

LEMMA InvHolds == Spec => []Inv
BY InitInv, NextInv, PTL DEF Spec

(* Every variable of the driver keeps its type: no counter of ends or of a *)
(* semaphore goes below zero, and head never passes max_size.              *)
THEOREM TypeCorrect == Spec => []TypeOK
<1>1. Inv => TypeOK
  BY DEF Inv
<1> QED
  BY <1>1, InvHolds, PTL

(* num_prod and num_cons are the files open at each end plus the releases  *)
(* that a signal cut short.                                                *)
THEOREM EndsAreCounted == Spec => []OpenAccounting
<1>1. Inv => OpenAccounting
  BY DEF Inv
<1> QED
  BY <1>1, InvHolds, PTL

(* num_bloq_s plus the count of cola_s is the number of processes that     *)
(* wait in that queue, through every race of a signal with a broadcast.    *)
THEOREM WaitersAreCounted == Spec => []WaitAccounting
<1>1. Inv => WaitAccounting
  BY DEF Inv
<1> QED
  BY <1>1, InvHolds, PTL

-----------------------------------------------------------------------------
(***************************************************************************)
(* What fifo.c guarantees as long as no signal reaches a process asleep in *)
(* it (Interruptible = {}): the guarantees that an interrupted open, an    *)
(* interrupted release or an interrupted wait can break.                   *)
(***************************************************************************)
Undisturbed ==
  /\ \A p \in Procs : pc[p] \notin {"intr", "undo"}
  /\ \A s \in Side : lost[s] = 0 /\ num_bloq[s] >= 0
  /\ EmptyWhenUnused

LEMMA InitQuiet == Init => Undisturbed
BY DEF Init, Undisturbed, EmptyWhenUnused, is_empty_cbuffer_t, create_cbuffer_t, Side

(* The part of Undisturbed about labels and counters. *)
QuietCounts ==
  /\ \A p \in Procs : pc[p] \notin {"intr", "undo"}
  /\ \A s \in Side : lost[s] = 0 /\ num_bloq[s] >= 0

(* A step that goes to an ordinary label and does not lower num_bloq, or   *)
(* sets it to zero, keeps QuietCounts.                                     *)
LEMMA QuietCountsStep ==
  ASSUME Inv, QuietCounts, NEW p \in Procs, UNCHANGED lost,
         \E l \in PC \ {"intr", "undo"} : pc' = [pc EXCEPT ![p] = l],
         \A s \in Side : num_bloq'[s] \in {0, num_bloq[s], num_bloq[s] + 1}
  PROVE  QuietCounts'
<1>1. num_bloq \in [Side -> Int] /\ pc \in [Procs -> PC]
  BY DEF Inv, TypeOK
<1>2. \A q \in Procs : pc'[q] \notin {"intr", "undo"}
  BY <1>1 DEF QuietCounts
<1>3. \A s \in Side : lost'[s] = 0 /\ num_bloq'[s] >= 0
  BY <1>1 DEF QuietCounts
<1> QED
  BY <1>2, <1>3 DEF QuietCounts

LEMMA BroadcastCounts ==
  ASSUME Inv, NEW t \in Side, Broadcast(t)
  PROVE  \A s \in Side : num_bloq'[s] \in {0, num_bloq[s], num_bloq[s] + 1}
<1>1. num_bloq \in [Side -> Int]
  BY DEF Inv, TypeOK
<1> QED
  BY <1>1 DEF Broadcast

LEMMA CondWaitCounts ==
  ASSUME Inv, NEW p \in Procs, CondWait(p)
  PROVE  /\ \A s \in Side : num_bloq'[s] \in {0, num_bloq[s], num_bloq[s] + 1}
         /\ \E l \in PC \ {"intr", "undo"} : pc' = [pc EXCEPT ![p] = l]
<1>1. num_bloq \in [Side -> Int] /\ queue(p) \in Side
  BY SideTypes DEF Inv, TypeOK
<1> QED
  BY <1>1 DEF CondWait, Goto, PC

LEMMA ReturnCounts ==
  ASSUME NEW p, NEW c, NEW d, Return(p, c, d)
  PROVE  \E l \in PC \ {"intr", "undo"} : pc' = [pc EXCEPT ![p] = l]
BY DEF Return, PC

(* Each step without signals keeps Undisturbed. *)
LEMMA SectionQuiet ==
  ASSUME Inv, Undisturbed, NEW p \in Procs, Section(p)
  PROVE  Undisturbed'
<1>1. QuietCounts /\ EmptyWhenUnused
  BY DEF Undisturbed, QuietCounts
<1>2. /\ num \in [Side -> Nat] /\ num_bloq \in [Side -> Int]
      /\ cbuffer \in cbuffer_t(Byte, BUF_LEN)
      /\ "prod" \in Side /\ "cons" \in Side
  BY DEF Inv, TypeOK, Side
<1>3. CASE OpenSection(p)
  <2>1. /\ side(p) \in Side /\ other(side(p)) \in Side
        /\ other(side(p)) # side(p)
    BY SideTypes
  <2>2. QuietCounts'
    <3>1. \A s \in Side : num_bloq'[s] \in {0, num_bloq[s], num_bloq[s] + 1}
      BY <1>2, <1>3, <2>1 DEF OpenSection
    <3>2. \E l \in PC \ {"intr", "undo"} : pc' = [pc EXCEPT ![p] = l]
      BY <1>3 DEF OpenSection, Goto, Return, PC
    <3> QED
      BY <1>1, <1>3, <3>1, <3>2, QuietCountsStep DEF OpenSection
  <2>3. EmptyWhenUnused'
    BY <1>2, <1>3, <2>1 DEF OpenSection, EmptyWhenUnused, Side
  <2> QED BY <2>2, <2>3 DEF Undisturbed, QuietCounts
<1>4. CASE OpenRetest(p)
  <2>1. QuietCounts'
    <3>1. CASE CondWait(p)
      BY <1>1, <1>4, <3>1, CondWaitCounts, QuietCountsStep DEF OpenRetest
    <3>2. CASE Return(p, "OK", << >>) /\ UNCHANGED <<cola, num_bloq>>
      BY <1>1, <1>4, <3>2, ReturnCounts, QuietCountsStep DEF OpenRetest
    <3> QED BY <1>4, <3>1, <3>2 DEF OpenRetest
  <2>2. EmptyWhenUnused'
    BY <1>1, <1>4 DEF OpenRetest, EmptyWhenUnused, is_empty_cbuffer_t
  <2> QED BY <2>1, <2>2 DEF Undisturbed, QuietCounts
<1>5. CASE ReleaseSection(p)
  <2>1. QuietCounts'
    <3>1. \A s \in Side : num_bloq'[s] \in {0, num_bloq[s], num_bloq[s] + 1}
      BY <1>2, <1>5, BroadcastCounts DEF ReleaseSection
    <3> QED
      BY <1>1, <1>5, <3>1, ReturnCounts, QuietCountsStep DEF ReleaseSection
  <2>2. EmptyWhenUnused'
    BY <1>2, <1>5 DEF ReleaseSection, EmptyWhenUnused, Unused,
                      is_empty_cbuffer_t, cbuffer_t
  <2> QED BY <2>1, <2>2 DEF Undisturbed, QuietCounts
<1>6. CASE ReadSection(p)
  <2>1. QuietCounts'
    <3>1. CASE Return(p, "EOF", << >>) /\ UNCHANGED <<cola, num_bloq>>
      BY <1>1, <1>6, <3>1, ReturnCounts, QuietCountsStep DEF ReadSection
    <3>2. CASE CondWait(p)
      BY <1>1, <1>6, <3>2, CondWaitCounts, QuietCountsStep DEF ReadSection
    <3>3. CASE /\ Broadcast("prod")
               /\ \E d : Return(p, "OK", d)
      BY <1>1, <1>2, <1>6, <3>3, BroadcastCounts, ReturnCounts,
         QuietCountsStep DEF ReadSection
    <3> QED BY <1>6, <3>1, <3>2, <3>3 DEF ReadSection
  <2>2. EmptyWhenUnused'
    BY <1>1, <1>6 DEF ReadSection, EmptyWhenUnused, is_empty_cbuffer_t
  <2> QED BY <2>1, <2>2 DEF Undisturbed, QuietCounts
<1>7. CASE WriteSection(p)
  <2>1. QuietCounts'
    <3>1. CASE Return(p, "EPIPE", << >>) /\ UNCHANGED <<cola, num_bloq>>
      BY <1>1, <1>7, <3>1, ReturnCounts, QuietCountsStep DEF WriteSection
    <3>2. CASE CondWait(p)
      BY <1>1, <1>7, <3>2, CondWaitCounts, QuietCountsStep DEF WriteSection
    <3>3. CASE Broadcast("cons") /\ Return(p, "OK", kbuff[p])
      BY <1>1, <1>2, <1>7, <3>3, BroadcastCounts, ReturnCounts,
         QuietCountsStep DEF WriteSection
    <3> QED BY <1>7, <3>1, <3>2, <3>3 DEF WriteSection
  <2>2. EmptyWhenUnused'
    BY <1>1, <1>2, <1>7 DEF WriteSection, EmptyWhenUnused, is_empty_cbuffer_t
  <2> QED BY <2>1, <2>2 DEF Undisturbed, QuietCounts
<1>8. ~ OpenUndo(p) /\ ~ InterruptSection(p)
  BY <1>1 DEF QuietCounts, OpenUndo, InterruptSection, InSection
<1> QED
  BY <1>3, <1>4, <1>5, <1>6, <1>7, <1>8 DEF Section

LEMMA NextQuiet ==
  ASSUME Interruptible = {}
  PROVE  Inv /\ Undisturbed /\ [Next]_vars => Undisturbed'
<1> SUFFICES ASSUME Inv, Undisturbed, [Next]_vars PROVE Undisturbed'
  OBVIOUS
<1>1. QuietCounts /\ EmptyWhenUnused
  BY DEF Undisturbed, QuietCounts
<1>2. CASE UNCHANGED vars
  BY <1>1, <1>2 DEF Undisturbed, QuietCounts, EmptyWhenUnused, is_empty_cbuffer_t, vars
<1>3. ASSUME NEW p \in Procs, UserCall(p) PROVE Undisturbed'
  <2>1. /\ \E l \in PC \ {"intr", "undo"} : pc' = [pc EXCEPT ![p] = l]
        /\ UNCHANGED <<num, num_bloq, cbuffer, lost>>
    BY <1>3 DEF UserCall, OpenCall, ReleaseCall, ReadCall, WriteCall, Enter,
                Return, PC, AtMutex
  <2>2. QuietCounts'
    BY <1>1, <2>1, QuietCountsStep
  <2> QED
    BY <1>1, <2>1, <2>2 DEF Undisturbed, QuietCounts, EmptyWhenUnused,
                            is_empty_cbuffer_t
<1>4. ASSUME NEW p \in Procs, Acquire(p) PROVE Undisturbed'
  BY <1>1, <1>4 DEF Acquire, Undisturbed, QuietCounts, EmptyWhenUnused,
                    is_empty_cbuffer_t
<1>5. ASSUME NEW p \in Procs, Wake(p) PROVE Undisturbed'
  <2>1. /\ \E l \in PC \ {"intr", "undo"} : pc' = [pc EXCEPT ![p] = l]
        /\ UNCHANGED <<num, num_bloq, cbuffer, lost>>
    BY <1>5 DEF Wake, Goto, PC, AtMutex
  <2>2. QuietCounts'
    BY <1>1, <2>1, QuietCountsStep
  <2> QED
    BY <1>1, <2>1, <2>2 DEF Undisturbed, QuietCounts, EmptyWhenUnused,
                            is_empty_cbuffer_t
<1>6. ASSUME NEW p \in Procs PROVE ~ Signal(p)
  BY DEF Signal, InterruptWait, InterruptEntry, InterruptRelock, MutexBusy
<1> QED
  BY <1>2, <1>3, <1>4, <1>5, <1>6, SectionQuiet DEF Next

LEMMA QuietHolds ==
  ASSUME Interruptible = {}
  PROVE  Spec => []Undisturbed
BY InitQuiet, NextQuiet, InvHolds, PTL DEF Spec

(* Without signals the bytes of one conversation never reach the next one: *)
(* when neither end is open the buffer is empty.                           *)
THEOREM NoStaleBytes ==
  ASSUME Interruptible = {}
  PROVE  Spec => []EmptyWhenUnused
<1>1. Undisturbed => EmptyWhenUnused
  BY DEF Undisturbed
<1> QED
  BY <1>1, QuietHolds, PTL

(* Without signals num_bloq is never negative and never counts more than   *)
(* wait, so the loop of a broadcast ends after at most one up for each.    *)
THEOREM BroadcastsAreBounded ==
  ASSUME Interruptible = {}
  PROVE  Spec => []NumBloqIsWaiters
<1>1. Inv /\ Undisturbed => NumBloqIsWaiters
  <2> SUFFICES ASSUME Inv, Undisturbed, NEW s \in Side
               PROVE  num_bloq[s] \in 0 .. Cardinality(Waiting(s))
    BY DEF NumBloqIsWaiters
  <2>1. /\ num_bloq[s] \in Int /\ cola[s] \in Nat /\ num_bloq[s] >= 0
        /\ num_bloq[s] + cola[s] = Cardinality(Waiting(s))
    BY DEF Inv, TypeOK, WaitAccounting, Undisturbed
  <2> QED
    BY <2>1, FewWaiters
<1> QED
  BY <1>1, InvHolds, QuietHolds, PTL

(* Only its own critical section ends a write, and only with a consumer.   *)
LEMMA WriteEnds ==
  ASSUME Inv, NEW p \in Procs, Section(p) \/ UserCall(p), NEW q \in Procs,
         call[q] = "write", call'[q] = "none", ret'[q].code = "OK"
  PROVE  num["cons"] > 0
<1>1. /\ call \in [Procs -> Calls] /\ pc \in [Procs -> PC]
      /\ ret \in [Procs -> [code : Codes, data : Seq(Byte)]]
      /\ num["cons"] \in Nat
  BY DEF Inv, TypeOK, Side
<1>2. pc[q] # "user"
  BY DEF Inv, InDriver
<1>3. CASE p # q
  <2>1. call'[q] = call[q]
    BY <1>1, <1>3 DEF Section, UserCall, OpenCall, ReleaseCall, ReadCall,
       WriteCall, OpenSection, OpenRetest, OpenUndo, ReleaseSection,
       ReadSection, WriteSection, InterruptSection, InterruptHandler,
       CondWait, Goto, Enter, Return
  <2> QED BY <2>1
<1>4. CASE p = q
  <2>1. ~ UserCall(p)
    BY <1>2, <1>4 DEF UserCall, OpenCall, ReleaseCall, ReadCall, WriteCall
  <2>2. ~ (OpenSection(p) \/ OpenRetest(p) \/ ReleaseSection(p) \/ ReadSection(p))
    BY <1>4 DEF OpenSection, OpenRetest, ReleaseSection, ReadSection
  <2>3. ~ Return(p, "EINTR", << >>) /\ ~ Return(p, "EPIPE", << >>)
    BY <1>1, <1>4 DEF Return, Result
  <2>4. ~ OpenUndo(p) /\ ~ InterruptSection(p)
    BY <1>4, <2>3 DEF OpenUndo, InterruptSection, InterruptHandler
  <2>5. WriteSection(p)
    BY <2>1, <2>2, <2>4 DEF Section
  <2>6. call'[p] = "none"
    BY <1>4
  <2> QED
    BY <1>1, <1>4, <2>3, <2>5 DEF WriteSection
<1> QED
  BY <1>3, <1>4

(* Without signals a write succeeds only while some process has the FIFO   *)
(* open, or is opening it, for reading.                                    *)
THEOREM WritesNeedConsumers ==
  ASSUME Interruptible = {}
  PROVE  Spec => WriteNeedsConsumer
<1> DEFINE A == \A p \in Procs :
             call[p] = "write" /\ call'[p] = "none" /\ ret'[p].code = "OK"
               => Ends("cons") # {}
<1>1. Inv /\ Undisturbed /\ [Next]_vars => [A]_vars
  <2> SUFFICES ASSUME Inv, Undisturbed, Next, NEW q \in Procs,
                      call[q] = "write", call'[q] = "none",
                      ret'[q].code = "OK"
               PROVE  Ends("cons") # {}
    OBVIOUS
  <2>1. PICK p \in Procs : \/ UserCall(p) \/ Acquire(p) \/ Section(p)
                           \/ Wake(p) \/ Signal(p)
    BY DEF Next
  <2>2. ~ Signal(p)
    BY DEF Signal, InterruptWait, InterruptEntry, InterruptRelock, MutexBusy
  <2>3. ~ Acquire(p) /\ ~ Wake(p)
    BY DEF Acquire, Wake, Goto
  <2>4. num["cons"] > 0
    BY <2>1, <2>2, <2>3, WriteEnds
  <2>5. num["cons"] = Cardinality(Ends("cons")) /\ Cardinality(Ends("cons")) # 0
    <3>1. /\ "cons" \in Side /\ num["cons"] = Cardinality(Ends("cons")) + lost["cons"]
          /\ lost["cons"] = 0
      BY DEF Side, Inv, OpenAccounting, Undisturbed
    <3>2. Cardinality(Ends("cons")) \in Nat
      BY <3>1, FewWaiters
    <3> QED
      BY <2>4, <3>1, <3>2
  <2> QED
    BY <2>5, FS_EmptySet
<1> QED
  BY <1>1, InvHolds, QuietHolds, PTL DEF Spec, WriteNeedsConsumer

-----------------------------------------------------------------------------
(***************************************************************************)
(* fifo.c implements Pipe: each step of the driver is a step of the byte   *)
(* queue on Contents(cbuffer), num and ret, or changes none of the three.  *)
(***************************************************************************)

(* A write asks for as many bytes as its kernel buffer holds. *)
KbuffFilled ==
  \A p \in Procs : call[p] = "write" => length[p] = Len(kbuff[p])

PipeStep == Abstract!Next \/ UNCHANGED <<Contents(cbuffer), num, ret>>

(* A call that begins, or fails without touching the pipe. *)
LEMMA IdleStep ==
  ASSUME NEW p \in Procs, NEW c \in {"none", "EINTR", "EINVAL", "ENOMEM"},
         ret' = [ret EXCEPT ![p] = Result(c, << >>)],
         UNCHANGED <<num, cbuffer>>
  PROVE  PipeStep
<1>1. UNCHANGED <<Contents(cbuffer), num>>
  BY DEF Contents
<1>2. Abstract!Idle(p)
  BY <1>1 DEF Abstract!Idle, Abstract!Returns, Abstract!Result, Result
<1> QED
  BY <1>2 DEF PipeStep, Abstract!Next

(* Calls and the kernel's steps leave the pipe alone. *)
LEMMA QuietPipeStep ==
  ASSUME NEW p \in Procs,
         \/ UserCall(p) \/ Acquire(p) \/ Wake(p) \/ Signal(p)
         \/ InterruptSection(p)
  PROVE  PipeStep
<1>1. UNCHANGED <<num, cbuffer>>
  BY DEF UserCall, OpenCall, ReleaseCall, ReadCall, WriteCall, Acquire, Wake,
         Signal, InterruptWait, InterruptEntry, InterruptRelock,
         InterruptSection
<1>2. \/ UNCHANGED ret
      \/ \E c \in {"none", "EINTR", "EINVAL", "ENOMEM"} :
           ret' = [ret EXCEPT ![p] = Result(c, << >>)]
  BY DEF UserCall, OpenCall, ReleaseCall, ReadCall, WriteCall, Acquire, Wake,
         Signal, InterruptWait, InterruptEntry, InterruptRelock,
         InterruptSection, InterruptHandler, Enter, Return, Goto
<1>3. CASE UNCHANGED ret
  BY <1>1, <1>3 DEF PipeStep, Contents
<1> QED
  BY <1>1, <1>2, <1>3, IdleStep

(* An open that is counted, that finds the other end, or that gives up. *)
LEMMA OpenPipeStep ==
  ASSUME Inv, NEW p \in Procs, OpenSection(p) \/ OpenRetest(p) \/ OpenUndo(p)
  PROVE  PipeStep
<1>1. UNCHANGED Contents(cbuffer) /\ side(p) \in {"prod", "cons"}
  BY DEF OpenSection, OpenRetest, OpenUndo, Contents, side
<1>2. CASE OpenSection(p)
  <2>1. Abstract!Open(p, side(p))
    BY <1>1, <1>2 DEF OpenSection, Return, Goto, Abstract!Open,
       Abstract!Returns, Abstract!Result, Result
  <2> QED BY <1>1, <2>1 DEF PipeStep, Abstract!Next
<1>3. CASE OpenRetest(p)
  <2>1. UNCHANGED num /\ (UNCHANGED ret \/ Abstract!Opened(p))
    BY <1>1, <1>3 DEF OpenRetest, CondWait, Goto, Return, Abstract!Opened,
       Abstract!Returns, Abstract!Result, Result
  <2> QED BY <1>1, <2>1 DEF PipeStep, Abstract!Next
<1>4. CASE OpenUndo(p)
  <2>1. num[side(p)] > 0
    <3>1. p \in Ends(side(p)) /\ side(p) \in Side /\ SharedTypes
      BY <1>4, TypeParts, SideTypes
         DEF Inv, InDriver, OpenUndo, InSection, Ends
    <3>2. num[side(p)] - 1 \in Nat /\ num[side(p)] \in Nat
      BY <3>1, EndPositive DEF Inv, SharedTypes
    <3> QED BY <3>2
  <2>2. Abstract!Abandon(p, side(p))
    BY <1>1, <1>4, <2>1 DEF OpenUndo, Return, Abstract!Abandon,
       Abstract!Returns, Abstract!Result, Result
  <2> QED BY <1>1, <2>2 DEF PipeStep, Abstract!Next
<1> QED
  BY <1>2, <1>3, <1>4

(* A release takes an end away; the last one empties the pipe. *)
LEMMA ReleasePipeStep ==
  ASSUME Inv, NEW p \in Procs, ReleaseSection(p)
  PROVE  PipeStep
<1>1. side(p) \in {"prod", "cons"} /\ side(p) \in Side
  BY SideTypes DEF side
<1>2. num[side(p)] > 0
  <2>1. p \in Ends(side(p)) /\ SharedTypes
    BY TypeParts DEF Inv, InDriver, ReleaseSection, InSection, Ends
  <2>2. num[side(p)] - 1 \in Nat /\ num[side(p)] \in Nat
    BY <1>1, <2>1, EndPositive DEF Inv, SharedTypes
  <2> QED BY <2>2
<1>3. /\ num \in [Side -> Nat] /\ cbuffer \in cbuffer_t(Byte, BUF_LEN)
      /\ num' = [num EXCEPT ![side(p)] = @ - 1]
      /\ cbuffer' = IF Unused(num') THEN [cbuffer EXCEPT !.size = 0]
                                    ELSE cbuffer
      /\ ret' = [ret EXCEPT ![p] = Result("OK", << >>)]
  BY DEF Inv, TypeOK, ReleaseSection, Return
<1>4. Unused(num') <=> \A e \in DOMAIN num : num'[e] = 0
  BY <1>3 DEF Unused, Side
<1>5. Contents(cbuffer)' = IF \A e \in DOMAIN num : num'[e] = 0
                           THEN << >> ELSE Contents(cbuffer)
  <2>1. CASE Unused(num')
    <3>1. cbuffer'.size = 0
      BY <1>3, <2>1 DEF cbuffer_t
    <3>2. Contents(cbuffer)' = << >>
      BY <3>1 DEF Contents
    <3> QED BY <1>4, <2>1, <3>2
  <2>2. CASE ~ Unused(num')
    BY <1>3, <1>4, <2>2 DEF Contents
  <2> QED BY <2>1, <2>2
<1>6. Abstract!Close(p, side(p))
  BY <1>2, <1>3, <1>5 DEF Abstract!Close, Abstract!Returns, Abstract!Result,
     Result
<1> QED
  BY <1>1, <1>6 DEF PipeStep, Abstract!Next

(* What a read takes, and what it leaves, if copy_to_user fails for the    *)
(* last k bytes.                                                           *)
LEMMA ReadTakes ==
  ASSUME Inv, NEW p \in Procs, length[p] <= Len(Contents(cbuffer)),
         NEW k \in 0 .. length[p]
  PROVE  LET n == length[p]
             c == Contents(cbuffer)
         IN  /\ Contents(remove_items_cbuffer_t(cbuffer, n))
                  = SubSeq(c, n + 1, Len(c))
             /\ SubSeq(removed_items(cbuffer, n), 1, n - k)
                  = SubSeq(c, 1, n - k)
<1> DEFINE n == length[p]
           c == Contents(cbuffer)
<1>1. /\ BUF_LEN \in Nat \ {0} /\ cbuffer \in cbuffer_t(Byte, BUF_LEN)
      /\ n \in Nat
  BY DataAssumption DEF Inv, TypeOK
<1>2. c \in Seq(Byte) /\ Len(c) = cbuffer.size /\ Len(c) \in Nat
  BY <1>1, ContentsIs, LenProperties
<1>3. /\ Contents(remove_items_cbuffer_t(cbuffer, n)) = SubSeq(c, n + 1, Len(c))
      /\ removed_items(cbuffer, n) = SubSeq(c, 1, n)
  BY <1>1, <1>2, RemoveItemsDrops
<1>4. SubSeq(SubSeq(c, 1, n), 1, n - k) = SubSeq(c, 1, n - k)
  <2>1. n <= Len(c) /\ k \in 0 .. n
    OBVIOUS
  <2> HIDE DEF n, c
  <2>2. n \in 0 .. Len(c) /\ n - k \in 0 .. n
    BY <1>1, <1>2, <2>1
  <2> QED BY <1>2, <2>2, PrefixOfPrefix
<1> QED
  BY <1>3, <1>4

(* A write appends the whole of its kernel buffer. *)
LEMMA WriteAppends ==
  ASSUME Inv, KbuffFilled, NEW p \in Procs, call[p] = "write",
         nr_gaps_cbuffer_t(cbuffer) >= length[p]
  PROVE  /\ Contents(insert_items_cbuffer_t(cbuffer, kbuff[p]))
              = Contents(cbuffer) \o kbuff[p]
         /\ Len(kbuff[p]) <= BUF_LEN - cbuffer.size
<1>1. /\ BUF_LEN \in Nat \ {0} /\ cbuffer \in cbuffer_t(Byte, BUF_LEN)
      /\ kbuff[p] \in Seq(Byte) /\ length[p] = Len(kbuff[p])
  BY DataAssumption DEF Inv, TypeOK, KbuffFilled
<1>2. /\ cbuffer.size \in 0 .. BUF_LEN /\ cbuffer.max_size = BUF_LEN
      /\ Len(kbuff[p]) \in Nat
  BY <1>1, Fields, LenProperties
<1>3. Len(kbuff[p]) <= BUF_LEN - cbuffer.size
  BY <1>1, <1>2 DEF nr_gaps_cbuffer_t
<1> QED
  BY <1>1, <1>3, InsertItemsAppends

(* A read takes a prefix, reports the end of file, or goes to sleep. *)
LEMMA ReadPipeStep ==
  ASSUME Inv, NEW p \in Procs, ReadSection(p)
  PROVE  PipeStep
<1> DEFINE n == length[p]
           c == Contents(cbuffer)
<1>1. /\ BUF_LEN \in Nat \ {0} /\ cbuffer \in cbuffer_t(Byte, BUF_LEN)
      /\ n \in Nat /\ UNCHANGED num /\ cbuffer.size \in Nat
  <2>1. BUF_LEN \in Nat \ {0} /\ cbuffer \in cbuffer_t(Byte, BUF_LEN)
    BY DataAssumption DEF Inv, TypeOK
  <2>2. n \in Nat /\ UNCHANGED num
    BY <2>1 DEF Inv, TypeOK, ReadSection
  <2> QED BY <2>1, <2>2, Fields
<1>2. c \in Seq(Byte) /\ Len(c) = cbuffer.size
  BY <1>1, ContentsIs
<1>3. CASE /\ num["prod"] = 0 /\ is_empty_cbuffer_t(cbuffer)
           /\ Return(p, "EOF", << >>) /\ UNCHANGED cbuffer
  <2>1. c = << >> /\ UNCHANGED c
    BY <1>3 DEF is_empty_cbuffer_t, Contents
  <2>2. Abstract!EndOfFile(p)
    BY <1>1, <1>3, <2>1 DEF Return, Abstract!EndOfFile, Abstract!Returns,
       Abstract!Result, Result
  <2> QED BY <2>2 DEF PipeStep, Abstract!Next
<1>4. CASE CondWait(p) /\ UNCHANGED cbuffer
  BY <1>1, <1>4 DEF CondWait, Goto, PipeStep, Contents
<1>5. CASE /\ size_cbuffer_t(cbuffer) >= n
           /\ cbuffer' = remove_items_cbuffer_t(cbuffer, n)
           /\ \E k \in Uncopied(n) :
                Return(p, "OK", SubSeq(removed_items(cbuffer, n), 1, n - k))
  <2>1. PICK k \in Uncopied(n) :
          Return(p, "OK", SubSeq(removed_items(cbuffer, n), 1, n - k))
    BY <1>5
  <2>2. k \in 0 .. n
    BY <1>1, <2>1 DEF Uncopied
  <2>3. n <= cbuffer.size
    BY <1>1, <1>5 DEF size_cbuffer_t
  <2>4. /\ Contents(remove_items_cbuffer_t(cbuffer, n)) = SubSeq(c, n + 1, Len(c))
        /\ SubSeq(removed_items(cbuffer, n), 1, n - k) = SubSeq(c, 1, n - k)
    BY <1>2, <2>2, <2>3, ReadTakes
  <2>6. n \in 0 .. Len(c) /\ n - k \in 0 .. n
    BY <1>1, <1>2, <2>2, <2>3
  <2>7. c' = SubSeq(c, n + 1, Len(c))
    BY <1>5, <2>4 DEF Contents
  <2>8. ret' = [ret EXCEPT ![p] = Result("OK", SubSeq(c, 1, n - k))]
    BY <2>1, <2>4 DEF Return
  <2>9. Abstract!Read(p)
    <3>1. \E m \in 0 .. Len(c) : \E j \in 0 .. m :
            /\ c' = SubSeq(c, m + 1, Len(c))
            /\ ret' = [ret EXCEPT ![p] = Result("OK", SubSeq(c, 1, j))]
      BY <2>6, <2>7, <2>8
    <3> QED
      BY <1>1, <3>1 DEF Abstract!Read, Abstract!Returns, Abstract!Result,
         Result
  <2> QED BY <2>9 DEF PipeStep, Abstract!Next
<1> QED
  BY <1>3, <1>4, <1>5 DEF ReadSection

(* A write appends all of its bytes, fails, or goes to sleep. *)
LEMMA WritePipeStep ==
  ASSUME Inv, KbuffFilled, NEW p \in Procs, WriteSection(p)
  PROVE  PipeStep
<1> DEFINE items == kbuff[p]
           c == Contents(cbuffer)
<1>1. /\ BUF_LEN \in Nat \ {0} /\ cbuffer \in cbuffer_t(Byte, BUF_LEN)
      /\ items \in Seq(Byte) /\ length[p] = Len(items) /\ UNCHANGED num
  BY DataAssumption DEF Inv, TypeOK, KbuffFilled, WriteSection
<1>2. /\ c \in Seq(Byte) /\ Len(c) = cbuffer.size
      /\ cbuffer.size \in 0 .. BUF_LEN /\ cbuffer.max_size = BUF_LEN
      /\ Len(items) \in Nat
  BY <1>1, ContentsIs, Fields, LenProperties
<1>3. CASE num["cons"] = 0 /\ Return(p, "EPIPE", << >>) /\ UNCHANGED cbuffer
  <2>1. UNCHANGED c
    BY <1>3 DEF Contents
  <2>2. Abstract!BrokenPipe(p)
    BY <1>1, <1>3, <2>1 DEF Return, Abstract!BrokenPipe, Abstract!Returns,
       Abstract!Result, Result
  <2> QED BY <2>2 DEF PipeStep, Abstract!Next
<1>4. CASE CondWait(p) /\ UNCHANGED cbuffer
  BY <1>1, <1>4 DEF CondWait, Goto, PipeStep, Contents
<1>5. CASE /\ num["cons"] > 0 /\ nr_gaps_cbuffer_t(cbuffer) >= length[p]
           /\ cbuffer' = insert_items_cbuffer_t(cbuffer, items)
           /\ Return(p, "OK", items)
  <2>1. /\ Contents(insert_items_cbuffer_t(cbuffer, items)) = c \o items
        /\ Len(items) <= BUF_LEN - cbuffer.size
    BY <1>5, WriteAppends DEF WriteSection
  <2>2. Contents(cbuffer') = c \o items
    BY <1>5, <2>1
  <2> DEFINE d == c \o items
  <2>3. /\ Len(c) <= Len(d) /\ Len(d) <= BUF_LEN
        /\ c = SubSeq(d, 1, Len(c))
        /\ items = SubSeq(d, Len(c) + 1, Len(d))
    <3> HIDE DEF c, items
    <3>1. /\ Len(d) = Len(c) + Len(items)
          /\ c = SubSeq(d, 1, Len(c))
          /\ items = SubSeq(d, Len(c) + 1, Len(d))
      BY <1>1, <1>2, AppendedParts
    <3> HIDE DEF d
    <3>2. Len(c) \in Nat /\ Len(items) \in Nat /\ Len(items) <= BUF_LEN - Len(c)
      BY <1>2, <2>1
    <3>3. Len(c) <= Len(d) /\ Len(d) <= BUF_LEN
      BY <1>1, <3>1, <3>2
    <3> QED BY <3>1, <3>3
  <2> HIDE DEF d
  <2>4. c' = d
    BY <2>2 DEF Contents, d
  <2>5. Abstract!Write(p)
    BY <1>1, <1>5, <2>3, <2>4 DEF Return, Abstract!Write, Abstract!Returns,
       Abstract!Result, Result
  <2> QED BY <2>5 DEF PipeStep, Abstract!Next
<1> QED
  BY <1>3, <1>4, <1>5 DEF WriteSection

(* Every exit of a call frees the kernel buffer, and only its entry fills *)
(* one.                                                                    *)
LEMMA NextKbuffFilled == Inv /\ KbuffFilled /\ [Next]_vars => KbuffFilled'
<1> SUFFICES ASSUME Inv, KbuffFilled, [Next]_vars PROVE KbuffFilled'
  OBVIOUS
<1>1. /\ call \in [Procs -> Calls] /\ length \in [Procs -> 0 .. BUF_LEN]
      /\ kbuff \in [Procs -> Seq(Byte)] /\ Len(<< >>) = 0
  BY DEF Inv, TypeOK
<1>2. CASE UNCHANGED vars
  BY <1>2 DEF vars, KbuffFilled
<1>3. ASSUME NEW p \in Procs,
             \/ UNCHANGED <<call, length, kbuff>>
             \/ \E c, d : Return(p, c, d)
             \/ \E l : Goto(p, l)
             \/ \E c \in {"open", "release", "read"} : \E n, b : Enter(p, c, n, b)
      PROVE  KbuffFilled'
  BY <1>1, <1>3 DEF KbuffFilled, Return, Goto, Enter
<1>4. ASSUME NEW p \in Procs, NEW n \in Lengths, WriteCall(p, n)
      PROVE  KbuffFilled'
  <2>1. CASE \E c, d : Return(p, c, d)
    BY <1>3, <2>1
  <2>2. CASE /\ MayAllocate(n)
             /\ \E k \in Uncopied(n) : \E bytes \in [1 .. n - k -> Byte] :
                  Enter(p, "write", n - k, bytes)
    <3>1. PICK k \in Uncopied(n) : \E bytes \in [1 .. n - k -> Byte] :
            Enter(p, "write", n - k, bytes)
      BY <2>2
    <3>2. PICK bytes \in [1 .. n - k -> Byte] :
            Enter(p, "write", n - k, bytes)
      BY <3>1
    <3>3. n \in Nat
      BY DataAssumption
    <3>4. k \in 0 .. n
      BY <3>3 DEF Uncopied
    <3>5. n - k \in Nat
      BY <3>3, <3>4
    <3>6. Len(bytes) = n - k
      BY <3>5
    <3> QED BY <1>1, <3>2, <3>6 DEF KbuffFilled, Enter
  <2> QED BY <1>4, <2>1, <2>2 DEF WriteCall
<1>5. ASSUME NEW p \in Procs,
             \/ Acquire(p) \/ Section(p) \/ Wake(p) \/ Signal(p)
             \/ \E mode \in SUBSET FMode : OpenCall(p, mode)
             \/ ReleaseCall(p) \/ \E n \in Lengths : ReadCall(p, n)
      PROVE  KbuffFilled'
  <2>1. \/ UNCHANGED <<call, length, kbuff>>
        \/ \E c, d : Return(p, c, d)
        \/ \E l : Goto(p, l)
        \/ \E c \in {"open", "release", "read"} : \E n, b : Enter(p, c, n, b)
    BY <1>5 DEF Acquire, Section, Wake, Signal, OpenCall, ReleaseCall,
       ReadCall, OpenSection, OpenRetest, OpenUndo, ReleaseSection,
       ReadSection, WriteSection, InterruptSection, InterruptWait,
       InterruptEntry, InterruptRelock, InterruptHandler, CondWait
  <2> QED BY <1>3, <2>1
<1> QED
  BY <1>2, <1>4, <1>5 DEF Next, UserCall

LEMMA KbuffFilledHolds == Spec => []KbuffFilled
<1>1. Init => KbuffFilled
  BY DEF Init, KbuffFilled
<1> QED
  BY <1>1, NextKbuffFilled, InvHolds, PTL DEF Spec

(* The driver is a bounded byte queue with two counted ends: writes are    *)
(* atomic and in order, reads take prefixes, end-of-file and -EPIPE are    *)
(* returned only for their reason, and bytes leave the queue only through  *)
(* a read or when the last end is closed -- with any number of processes,  *)
(* through signals and faults, for every capacity.                         *)
THEOREM FifoIsAPipe == Spec => ImplementsPipe
<1>1. Init => Abstract!Init
  <2> SUFFICES ASSUME Init PROVE Abstract!Init
    OBVIOUS
  <2>1. cbuffer.size = 0
    BY DEF Init, create_cbuffer_t
  <2>2. Contents(cbuffer) = << >>
    BY <2>1 DEF Contents
  <2> QED BY <2>2 DEF Init, Side, Result, Abstract!Init, Abstract!Result
<1>2. Inv /\ KbuffFilled /\ [Next]_vars => [Abstract!Next]_Abstract!vars
  <2> SUFFICES ASSUME Inv, KbuffFilled, [Next]_vars PROVE PipeStep
    BY DEF PipeStep, Abstract!vars
  <2>1. CASE UNCHANGED vars
    BY <2>1 DEF vars, PipeStep, Contents
  <2>2. ASSUME NEW p \in Procs, Section(p)
        PROVE  PipeStep
    BY <2>2, OpenPipeStep, ReleasePipeStep, ReadPipeStep, WritePipeStep,
       QuietPipeStep DEF Section
  <2> QED
    BY <2>1, <2>2, QuietPipeStep DEF Next
<1> QED
  BY <1>1, <1>2, InvHolds, KbuffFilledHolds, PTL
     DEF Spec, ImplementsPipe, Abstract!Spec

-----------------------------------------------------------------------------
(***************************************************************************)
(* No wake-up is lost between one consumer and one producer that no signal *)
(* reaches.  With a second process on a side the code does lose one.       *)
(***************************************************************************)
OnePerSide ==
  /\ \A p, q \in Readers : p = q
  /\ \A p, q \in Writers : p = q
  /\ Readers \cap Writers = {}

(* What a process may do with the FIFO follows from how it opened it, and  *)
(* only open, read and write wait.                                         *)
Modes ==
  \A p \in Procs : /\ "FMODE_READ" \in fmode[p] => p \in Readers
                   /\ "FMODE_WRITE" \in fmode[p] => p \in Writers
                   /\ call[p] = "read" => "FMODE_READ" \in fmode[p]
                   /\ call[p] = "write" => "FMODE_WRITE" \in fmode[p]
                   /\ pc[p] = "cond" => call[p] \in {"open", "read", "write"}

LEMMA NextModes == Inv /\ Modes /\ [Next]_vars => Modes'
<1> SUFFICES ASSUME Inv, Modes, [Next]_vars PROVE Modes'
  OBVIOUS
<1>1. /\ call \in [Procs -> Calls] /\ pc \in [Procs -> PC]
      /\ fmode \in [Procs -> SUBSET FMode]
  BY DEF Inv, TypeOK
<1>2. CASE UNCHANGED vars
  BY <1>2 DEF vars, Modes
<1>3. ASSUME NEW p \in Procs, UserCall(p)
      PROVE  Modes'
  BY <1>1, <1>3 DEF Modes, UserCall, OpenCall, ReleaseCall, ReadCall,
     WriteCall, Enter, Return
<1>4. ASSUME NEW p \in Procs,
             \/ UNCHANGED pc
             \/ \E l \in AtMutex : pc' = [pc EXCEPT ![p] = l]
             \/ /\ call[p] \in {"open", "read", "write"}
                /\ pc' = [pc EXCEPT ![p] = "cond"],
             UNCHANGED <<call, fmode>>
      PROVE  Modes'
  BY <1>1, <1>4 DEF Modes, AtMutex
<1>5. ASSUME NEW p \in Procs,
             call' = [call EXCEPT ![p] = "none"],
             pc' = [pc EXCEPT ![p] = "user"],
             UNCHANGED fmode \/ fmode' = [fmode EXCEPT ![p] = {}]
      PROVE  Modes'
  BY <1>1, <1>5 DEF Modes
<1>6. ASSUME NEW p \in Procs, Acquire(p) \/ Wake(p) \/ Signal(p) PROVE Modes'
  <2>1. CASE Acquire(p) \/ Wake(p) \/ InterruptWait(p)
    BY <1>4, <2>1 DEF Acquire, Wake, InterruptWait, Goto, AtMutex
  <2>2. CASE InterruptEntry(p)
    BY <1>5, <2>2 DEF InterruptEntry, Return
  <2>3. CASE InterruptRelock(p)
    BY <1>4, <1>5, <2>3 DEF InterruptRelock, InterruptHandler, Goto, Return,
       AtMutex
  <2> QED BY <1>6, <2>1, <2>2, <2>3 DEF Signal
<1>7. ASSUME NEW p \in Procs, Section(p) PROVE Modes'
  <2>1. CASE OpenSection(p) \/ OpenRetest(p) \/ OpenUndo(p) \/ ReleaseSection(p)
    BY <1>4, <1>5, <2>1 DEF OpenSection, OpenRetest, OpenUndo,
       ReleaseSection, CondWait, Goto, Return
  <2>2. CASE ReadSection(p)
    BY <1>4, <1>5, <2>2 DEF ReadSection, CondWait, Goto, Return
  <2>3. CASE WriteSection(p)
    BY <1>4, <1>5, <2>3 DEF WriteSection, CondWait, Goto, Return
  <2>4. CASE InterruptSection(p)
    BY <1>4, <1>5, <2>4 DEF InterruptSection, InterruptHandler, Goto, Return,
       AtMutex
  <2> QED BY <1>7, <2>1, <2>2, <2>3, <2>4 DEF Section
<1> QED
  BY <1>2, <1>3, <1>6, <1>7 DEF Next

LEMMA ModesHold == Spec => []Modes
<1>1. Init => Modes
  BY DEF Init, Modes
<1> QED
  BY <1>1, NextModes, InvHolds, PTL DEF Spec

(* Two processes in the driver are at different ends, and wait in different *)
(* queues.                                                                 *)
LEMMA DifferentSides ==
  ASSUME OnePerSide, Inv, Modes, NEW p \in Procs, NEW q \in Procs, p # q,
         call[p] # "none", call[q] # "none"
  PROVE  /\ side(p) # side(q) /\ queue(p) = side(p) /\ queue(q) = side(q)
         /\ call[p] = "read" => side(p) = "cons"
         /\ call[p] = "write" => side(p) = "prod"
         /\ other(side(p)) = side(q)
<1>1. /\ fmode[p] # {} /\ fmode[q] # {}
      /\ fmode[p] \subseteq FMode /\ fmode[q] \subseteq FMode
  BY DEF Inv, InDriver, TypeOK
<1>2. ASSUME NEW x \in {p, q}
      PROVE  /\ side(x) = "cons" => x \in Readers
             /\ side(x) = "prod" => x \in Writers
             /\ call[x] = "read" => side(x) = "cons"
             /\ call[x] = "write" => side(x) = "prod"
             /\ side(x) \in {"cons", "prod"} /\ queue(x) = side(x)
  BY <1>1 DEF OnePerSide, Modes, side, queue, FMode
<1> QED
  BY <1>2 DEF OnePerSide, other

(* A broadcast on the queue of a waiting process leaves it a wake-up. *)
LEMMA BroadcastWakes ==
  ASSUME Inv, NEW q \in Procs, pc[q] = "cond"
  PROVE  Signalled(queue(q))[queue(q)] > 0
<1>1. queue(q) \in Side /\ SharedTypes
  BY SideTypes, TypeParts DEF Inv
<1>2. IsFiniteSet(Waiting(queue(q))) /\ q \in Waiting(queue(q))
  BY ProcsAssumption, FS_Subset DEF Waiting
<1>3. /\ Cardinality(Waiting(queue(q))) \in Nat
      /\ Cardinality(Waiting(queue(q))) # 0
  BY <1>2, FS_EmptySet, FS_CardinalityType
<1>4. Signalled(queue(q))[queue(q)] = Cardinality(Waiting(queue(q)))
  BY <1>1, SignalledIs DEF Inv
<1> QED
  BY <1>3, <1>4

(* Who goes to sleep has just seen that there is nothing to wait for yet. *)
LEMMA SleepsUnready ==
  ASSUME Inv, Modes, NEW p \in Procs, Section(p), pc'[p] = "cond"
  PROVE  ~ Ready(p)'
<1>1. /\ call \in [Procs -> Calls] /\ pc \in [Procs -> PC]
      /\ num \in [Side -> Nat] /\ cbuffer \in cbuffer_t(Byte, BUF_LEN)
      /\ length[p] \in Nat /\ num["cons"] \in Nat
      /\ BUF_LEN \in Nat
  <2>1. /\ length[p] \in 0 .. BUF_LEN /\ BUF_LEN \in Nat
        /\ num \in [Side -> Nat] /\ "cons" \in Side
    BY DataAssumption DEF Inv, TypeOK, Side
  <2>2. length[p] \in Nat /\ num["cons"] \in Nat
    BY <2>1
  <2> QED BY <2>1, <2>2 DEF Inv, TypeOK
<1>2. /\ cbuffer.size \in Nat /\ cbuffer.max_size \in Nat
      /\ other(side(p)) \in Side /\ side(p) \in Side /\ other(side(p)) # side(p)
  BY <1>1, Fields, SideTypes
<1>3. ASSUME NEW c, NEW d, Return(p, c, d)
      PROVE  FALSE
  BY <1>1, <1>3 DEF Return
<1>4. CASE OpenSection(p)
  <2>1. num[other(side(p))] = 0 /\ Goto(p, "cond")
    BY <1>3, <1>4 DEF OpenSection
  <2>2. /\ call'[p] = "open" /\ fmode' = fmode
        /\ num'[other(side(p))] = 0
    BY <1>1, <1>2, <1>4, <2>1 DEF OpenSection, Goto
  <2> QED BY <2>2 DEF Ready, side
<1>5. CASE OpenRetest(p)
  <2>1. num[other(side(p))] = 0 /\ Goto(p, "cond")
    BY <1>3, <1>5 DEF OpenRetest, CondWait
  <2>2. call'[p] = "open" /\ fmode' = fmode /\ num' = num
    BY <1>5, <2>1 DEF OpenRetest, Goto
  <2> QED BY <2>1, <2>2 DEF Ready, side
<1>6. CASE ReadSection(p)
  <2>1. size_cbuffer_t(cbuffer) < length[p] /\ CondWait(p) /\ UNCHANGED cbuffer
    BY <1>3, <1>6 DEF ReadSection
  <2>2. call'[p] = "read" /\ length' = length
    BY <1>6, <2>1 DEF ReadSection, CondWait, Goto
  <2> QED BY <1>1, <1>2, <2>1, <2>2 DEF Ready, size_cbuffer_t
<1>7. CASE WriteSection(p)
  <2>1. /\ num["cons"] > 0 /\ nr_gaps_cbuffer_t(cbuffer) < length[p]
        /\ CondWait(p) /\ UNCHANGED <<cbuffer, num>>
    BY <1>3, <1>7 DEF WriteSection
  <2>2. call'[p] = "write" /\ length' = length
    BY <1>7, <2>1 DEF WriteSection, CondWait, Goto
  <2> QED BY <1>1, <1>2, <2>1, <2>2 DEF Ready, nr_gaps_cbuffer_t
<1>8. ~ (OpenUndo(p) \/ ReleaseSection(p) \/ InterruptSection(p))
  BY <1>1, <1>3 DEF OpenUndo, ReleaseSection, InterruptSection,
     InterruptHandler, Goto
<1> QED
  BY <1>4, <1>5, <1>6, <1>7, <1>8 DEF Section

(* What q sees of a step of another process. *)
Unmoved(q) ==
  /\ pc'[q] = pc[q] /\ call'[q] = call[q] /\ length'[q] = length[q]
  /\ fmode'[q] = fmode[q]

LEMMA OthersUnmoved ==
  ASSUME Inv, NEW p \in Procs, NEW q \in Procs \ {p},
         \/ UserCall(p) \/ Acquire(p) \/ Section(p) \/ Wake(p)
  PROVE  Unmoved(q)
<1>1. /\ call \in [Procs -> Calls] /\ pc \in [Procs -> PC]
      /\ fmode \in [Procs -> SUBSET FMode]
      /\ length \in [Procs -> 0 .. BUF_LEN]
  BY DEF Inv, TypeOK
<1>2. CASE UserCall(p)
  BY <1>1, <1>2 DEF Unmoved, UserCall, OpenCall, ReleaseCall, ReadCall,
     WriteCall, Enter, Return
<1>3. CASE Acquire(p) \/ Wake(p)
  BY <1>1, <1>3 DEF Unmoved, Acquire, Wake, Goto
<1>4. CASE Section(p)
  BY <1>1, <1>4 DEF Unmoved, Section, OpenSection, OpenRetest, OpenUndo,
     ReleaseSection, ReadSection, WriteSection, InterruptSection,
     InterruptHandler, CondWait, Goto, Return
<1> QED
  BY <1>2, <1>3, <1>4

(* A step that leaves what q waits for alone, and the wake-ups of its      *)
(* queue, does not lose one.                                               *)
LEMMA KeepsWakeUps ==
  ASSUME NoLostWakeup, NEW q \in Procs, pc[q] = "cond", Unmoved(q),
         UNCHANGED <<num, cbuffer>>, cola'[queue(q)] = cola[queue(q)],
         Ready(q)'
  PROVE  cola'[queue(q)'] > 0
<1>1. Ready(q) /\ queue(q)' = queue(q)
  BY DEF Ready, Unmoved, queue, side, size_cbuffer_t, nr_gaps_cbuffer_t
<1> QED
  BY <1>1 DEF NoLostWakeup

(* Another process's step leaves q its wake-up, or gives it one. *)
LEMMA OthersWake ==
  ASSUME OnePerSide, Inv, Undisturbed, Modes, NoLostWakeup,
         NEW p \in Procs, NEW q \in Procs \ {p},
         \/ UserCall(p) \/ Acquire(p) \/ Section(p) \/ Wake(p),
         pc'[q] = "cond", Ready(q)'
  PROVE  cola'[queue(q)'] > 0
<1>1. /\ cola \in [Side -> Nat] /\ num \in [Side -> Nat]
      /\ cbuffer \in cbuffer_t(Byte, BUF_LEN) /\ SharedTypes
      /\ "prod" \in Side /\ "cons" \in Side
  BY TypeParts DEF Inv, TypeOK, Side
<1>2. Unmoved(q) /\ queue(q)' = queue(q) /\ queue(q) \in Side
  BY OthersUnmoved, SideTypes DEF Unmoved, queue, side
<1>3. pc[q] = "cond" /\ call[q] # "none"
  BY <1>2 DEF Unmoved, Modes
<1>4. CASE UNCHANGED <<num, cbuffer>> /\ cola'[queue(q)] = cola[queue(q)]
  BY <1>2, <1>3, <1>4, KeepsWakeUps
<1>5. CASE cola' = Signalled(queue(q))
  BY <1>2, <1>3, <1>5, BroadcastWakes
<1>6. CASE UserCall(p) \/ Acquire(p)
  BY <1>4, <1>6 DEF UserCall, OpenCall, ReleaseCall, ReadCall, WriteCall,
     Acquire
<1>7. ASSUME call[p] # "none"
      PROVE  /\ side(p) # side(q) /\ queue(p) = side(p) /\ queue(q) = side(q)
             /\ call[p] = "read" => side(p) = "cons"
             /\ call[p] = "write" => side(p) = "prod"
             /\ other(side(p)) = side(q)
             /\ side(p) \in Side /\ side(q) \in Side
             /\ call[q] = "write" => side(q) = "prod"
             /\ call[q] = "read" => side(q) = "cons"
  BY <1>3, <1>7, DifferentSides, SideTypes
<1>8. CASE Wake(p)
  <2>1. queue(p) # queue(q)
    BY <1>7, <1>8 DEF Wake, Modes
  <2>2. cola'[queue(q)] = cola[queue(q)]
    BY <1>1, <1>2, <1>8, <2>1 DEF Wake
  <2> QED BY <1>4, <1>8, <2>2 DEF Wake
<1>9. CASE OpenSection(p)
  BY <1>5, <1>7, <1>9 DEF OpenSection
<1>10. CASE OpenRetest(p)
  BY <1>4, <1>10 DEF OpenRetest, CondWait
<1>11. CASE ReadSection(p)
  <2>1. queue(q) = "prod"
    BY <1>7, <1>11 DEF ReadSection, other
  <2> QED
    BY <1>4, <1>5, <1>11, <2>1 DEF ReadSection, CondWait, Broadcast
<1>12. CASE WriteSection(p)
  <2>1. queue(q) = "cons"
    BY <1>7, <1>12 DEF WriteSection, other
  <2> QED
    BY <1>4, <1>5, <1>12, <2>1 DEF WriteSection, CondWait, Broadcast
<1>13. CASE ReleaseSection(p)
  <2>1. /\ side(p) # side(q) /\ queue(q) = side(q) /\ other(side(q)) = side(p)
        /\ side(p) \in Side /\ side(q) \in Side
        /\ call[q] = "write" => side(q) = "prod"
    BY <1>7, <1>13 DEF ReleaseSection, other, Side
  <2>2. /\ num' = [num EXCEPT ![side(p)] = @ - 1]
        /\ cbuffer' = IF Unused(num') THEN [cbuffer EXCEPT !.size = 0]
                                      ELSE cbuffer
    BY <1>13 DEF ReleaseSection
  <2>3. CASE side(p) = "cons" /\ num'["cons"] = 0
    <3>1. side(q) = "prod"
      BY <2>1, <2>3 DEF Side
    <3> QED BY <1>5, <1>13, <2>1, <2>3, <3>1 DEF ReleaseSection, Broadcast
  <2>4. CASE ~ (side(p) = "cons" /\ num'["cons"] = 0)
    <3>1. cola' = cola
      BY <1>13, <2>4 DEF ReleaseSection
    <3>2. Ready(q)
      <4>1. CASE call[q] = "open"
        <5>1. num'[other(side(q))] > 0
          BY <1>2, <4>1 DEF Ready, Unmoved, side
        <5> QED BY <1>1, <2>1, <2>2, <4>1, <5>1 DEF Ready
      <4>2. CASE call[q] = "read"
        <5>1. cbuffer'.size >= length[q]
          BY <1>2, <4>2 DEF Ready, Unmoved, size_cbuffer_t
        <5>2. cbuffer'.size \in Nat /\ cbuffer'.size <= cbuffer.size
              /\ cbuffer.size \in Nat /\ length[q] \in Nat
          <6>1. cbuffer.size \in 0 .. BUF_LEN /\ BUF_LEN \in Nat
            BY <1>1, Fields, DataAssumption
          <6>2. cbuffer'.size \in {0, cbuffer.size}
            BY <1>1, <2>2 DEF cbuffer_t
          <6>3. length[q] \in Nat
            BY <1>1, <6>1 DEF Inv, TypeOK
          <6> QED BY <6>1, <6>2, <6>3
        <5> QED BY <4>2, <5>1, <5>2 DEF Ready, size_cbuffer_t
      <4>3. CASE call[q] = "write"
        <5>1. side(p) = "cons" /\ num'["cons"] # 0
          BY <2>1, <2>4, <4>3 DEF Side
        <5>2. cbuffer' = cbuffer
          BY <2>2, <5>1 DEF Unused
        <5> QED
          BY <1>2, <4>3, <5>1, <5>2 DEF Ready, Unmoved, nr_gaps_cbuffer_t
      <4> QED BY <1>3, <4>1, <4>2, <4>3 DEF Modes
    <3> QED BY <1>2, <1>3, <3>1, <3>2 DEF NoLostWakeup
  <2> QED BY <2>3, <2>4
<1>14. ~ OpenUndo(p) /\ ~ InterruptSection(p)
  BY DEF Undisturbed, OpenUndo, InterruptSection, InSection
<1> QED
  BY <1>6, <1>8, <1>9, <1>10, <1>11, <1>12, <1>13, <1>14 DEF Section

LEMMA NextWakes ==
  ASSUME OnePerSide, Interruptible = {}
  PROVE  Inv /\ Undisturbed /\ Modes /\ NoLostWakeup /\ [Next]_vars => NoLostWakeup'
<1> SUFFICES ASSUME Inv, Undisturbed, Modes, NoLostWakeup, [Next]_vars,
                    NEW q \in Procs, pc'[q] = "cond", Ready(q)'
             PROVE  cola'[queue(q)'] > 0
  BY DEF NoLostWakeup
<1>1. CASE UNCHANGED vars
  <2>1. Unmoved(q) /\ UNCHANGED <<num, cbuffer, cola, pc>>
    BY <1>1 DEF vars, Unmoved
  <2> QED BY <2>1, KeepsWakeUps
<1>2. CASE Next
  <2>1. PICK p \in Procs : \/ UserCall(p) \/ Acquire(p) \/ Section(p)
                           \/ Wake(p) \/ Signal(p)
    BY <1>2 DEF Next
  <2>2. ~ Signal(p)
    BY DEF Signal, InterruptWait, InterruptEntry, InterruptRelock, MutexBusy
  <2>3. CASE p = q
    <3>1. pc \in [Procs -> PC]
      BY DEF Inv, TypeOK
    <3>2. ~ UserCall(q) /\ ~ Acquire(q) /\ ~ Wake(q)
      BY <3>1 DEF UserCall, OpenCall, ReleaseCall, ReadCall, WriteCall,
         Acquire, Wake, Enter, Return, Goto, AtMutex
    <3> QED BY <2>1, <2>2, <2>3, <3>2, SleepsUnready
  <2>4. CASE p # q
    BY <2>1, <2>2, <2>4, OthersWake
  <2> QED BY <2>3, <2>4
<1> QED
  BY <1>1, <1>2

(* Between one reader and one writer that no signal reaches, whoever waits *)
(* for something that is already so has a wake-up to take, whatever they   *)
(* ask for and whatever the capacity.                                      *)
THEOREM WakeUpsReachTheirWaiter ==
  ASSUME OnePerSide, Interruptible = {}
  PROVE  Spec => []NoLostWakeup
<1>1. Init => NoLostWakeup
  BY DEF Init, NoLostWakeup
<1> QED
  BY <1>1, NextWakes, InvHolds, QuietHolds, ModesHold, PTL DEF Spec

-----------------------------------------------------------------------------
(***************************************************************************)
(* dump_utmp.c on top of the driver.  Its steps are steps of the driver,   *)
(* or none, so what always holds of the driver holds here as well.         *)
(***************************************************************************)
LEMMA UtmpStepIsDriverStep == [UtmpNext]_utmpVars => [Next]_vars
<1> SUFFICES ASSUME [UtmpNext]_utmpVars PROVE [Next]_vars
  OBVIOUS
<1>1. CASE UNCHANGED utmpVars
  BY <1>1 DEF utmpVars
<1>2. ASSUME NEW p \in Procs, Driver(p) PROVE [Next]_vars
  BY <1>2 DEF Driver, Next
<1>3. ASSUME NEW p \in Procs, Client(p) PROVE [Next]_vars
  <2>1. ASSUME UserCall(p) PROVE [Next]_vars
    BY <2>1 DEF Next
  <2>2. CASE OpenFifo(p)
    <3>1. PICK mode \in SUBSET FMode : OpenCall(p, mode)
      BY <2>2 DEF OpenFifo, FMode
    <3> QED BY <2>1, <3>1 DEF UserCall
  <2>3. CASE Send(p) \/ Receive(p)
    BY <2>1, <2>3, UtmpAssumption DEF Send, Receive, UserCall
  <2>4. CASE SendDone(p) \/ CloseFifo(p)
    BY <2>1, <2>4 DEF SendDone, CloseFifo, UserCall
  <2>5. CASE \/ ReadUtmpFails(p) \/ PrintEntries(p) \/ OpenChecked(p)
             \/ SendChecked(p) \/ ReceiveChecked(p) \/ Exit(p)
    BY <2>5 DEF ReadUtmpFails, PrintEntries, OpenChecked, SendChecked,
       ReceiveChecked, Exit, Quiet
  <2> QED BY <1>3, <2>2, <2>3, <2>4, <2>5 DEF Client
<1> QED
  BY <1>1, <1>2, <1>3 DEF UtmpNext

LEMMA DriverInvHolds == UtmpSpec => [](Inv /\ KbuffFilled)
<1>1. UtmpInit => Init
  BY DEF UtmpInit
<1> QED
  BY <1>1, UtmpStepIsDriverStep, InvHolds, KbuffFilledHolds, PTL
     DEF UtmpSpec, Spec

(* cond_wait is called by open, read and write, its handler's undo is      *)
(* fifo_open's.                                                            *)
Labelled(p) ==
  /\ pc[p] \in {"cond", "redown", "intr"} => call[p] # "release"
  /\ pc[p] = "undo" => call[p] = "open"

-----------------------------------------------------------------------------
(***************************************************************************)
(* What a step inside a system call is to the process that made it: it     *)
(* stays inside, or comes back with a result, in one of the ways below.    *)
(***************************************************************************)
Bytes == Contents(cbuffer)

Stays(p) ==
  /\ pc[p] # "user"
  /\ \E l \in PC \ {"user"} : /\ pc' = [pc EXCEPT ![p] = l]
                              /\ l = "down" => pc[p] = "down"
  /\ Labelled(p)'
  /\ UNCHANGED <<call, length, kbuff, ret, fmode, lost, cbuffer>>

Back(p, c, d) ==
  /\ pc[p] # "user" /\ Return(p, c, d)
  /\ fmode' = IF call[p] = "release" \/ (call[p] = "open" /\ c # "OK")
              THEN [fmode EXCEPT ![p] = {}] ELSE fmode

Fails(p) ==
  /\ Back(p, "EINTR", << >>) \/ Back(p, "EPIPE", << >>)
  /\ \A s \in Side : lost'[s] # lost[s] => s = side(p) /\ call[p] = "release"
  /\ UNCHANGED cbuffer

Opens(p) ==
  /\ call[p] = "open" /\ num[other(side(p))] # 0 /\ Back(p, "OK", << >>)
  /\ UNCHANGED <<cbuffer, lost>>

Closes(p) ==
  /\ call[p] = "release" /\ Back(p, "OK", << >>)
  /\ \/ UNCHANGED cbuffer
     \/ Unused(num') /\ cbuffer' = [cbuffer EXCEPT !.size = 0]
  /\ UNCHANGED lost

FindsEnd(p) ==
  /\ call[p] = "read" /\ num["prod"] = 0 /\ Len(Bytes) = 0
  /\ Back(p, "EOF", << >>)
  /\ UNCHANGED <<cbuffer, lost>>

Takes(p) ==
  /\ call[p] = "read" /\ length[p] <= Len(Bytes)
  /\ \E k \in 0 .. length[p] : Back(p, "OK", SubSeq(Bytes, 1, length[p] - k))
  /\ Bytes' = SubSeq(Bytes, length[p] + 1, Len(Bytes))
  /\ UNCHANGED lost

Puts(p) ==
  /\ call[p] = "write" /\ Back(p, "OK", kbuff[p])
  /\ Bytes' = Bytes \o kbuff[p]
  /\ UNCHANGED lost

LEMMA ReadOutcomes ==
  ASSUME Inv, NEW p \in Procs, ReadSection(p)
  PROVE  Stays(p) \/ FindsEnd(p) \/ Takes(p)
<1> DEFINE n == length[p]
<1>1. /\ BUF_LEN \in Nat \ {0} /\ cbuffer \in cbuffer_t(Byte, BUF_LEN)
      /\ n \in Nat /\ cbuffer.size \in Nat /\ call[p] = "read"
      /\ pc[p] # "user" /\ UNCHANGED <<fmode, lost>>
  <2>1. BUF_LEN \in Nat \ {0} /\ cbuffer \in cbuffer_t(Byte, BUF_LEN)
    BY DataAssumption DEF Inv, TypeOK
  <2>2. n \in Nat /\ call[p] = "read" /\ pc[p] # "user" /\ UNCHANGED <<fmode, lost>>
    BY <2>1 DEF Inv, TypeOK, ReadSection, InSection
  <2> QED BY <2>1, <2>2, Fields
<1>2. Bytes \in Seq(Byte) /\ Len(Bytes) = cbuffer.size
  BY <1>1, ContentsIs DEF Bytes
<1>3. CASE /\ num["prod"] = 0 /\ is_empty_cbuffer_t(cbuffer)
           /\ Return(p, "EOF", << >>) /\ UNCHANGED cbuffer
  BY <1>1, <1>2, <1>3 DEF is_empty_cbuffer_t, FindsEnd, Back
<1>4. CASE CondWait(p) /\ UNCHANGED cbuffer
  <2>1. pc \in [Procs -> PC]
    BY DEF Inv, TypeOK
  <2>2. /\ pc' = [pc EXCEPT ![p] = "cond"] /\ "cond" \in PC \ {"user"}
        /\ UNCHANGED <<call, length, kbuff, ret>>
    BY <1>4 DEF CondWait, Goto, PC
  <2>3. Labelled(p)'
    BY <1>1, <2>1, <2>2 DEF Labelled
  <2> QED BY <1>1, <1>4, <2>2, <2>3 DEF Stays
<1>5. CASE /\ size_cbuffer_t(cbuffer) >= n
           /\ cbuffer' = remove_items_cbuffer_t(cbuffer, n)
           /\ \E k \in Uncopied(n) :
                Return(p, "OK", SubSeq(removed_items(cbuffer, n), 1, n - k))
  <2>1. PICK k \in 0 .. n :
          Return(p, "OK", SubSeq(removed_items(cbuffer, n), 1, n - k))
    BY <1>1, <1>5 DEF Uncopied
  <2>2. n <= Len(Bytes)
    BY <1>1, <1>2, <1>5 DEF size_cbuffer_t
  <2>3. /\ Contents(remove_items_cbuffer_t(cbuffer, n))
             = SubSeq(Bytes, n + 1, Len(Bytes))
        /\ SubSeq(removed_items(cbuffer, n), 1, n - k)
             = SubSeq(Bytes, 1, n - k)
    BY <1>1, <2>2, ReadTakes DEF Bytes
  <2>4. Bytes' = SubSeq(Bytes, n + 1, Len(Bytes))
    BY <1>5, <2>3 DEF Bytes
  <2> QED BY <1>1, <2>1, <2>2, <2>3, <2>4 DEF Takes, Back
<1> QED
  BY <1>3, <1>4, <1>5 DEF ReadSection

LEMMA WriteOutcomes ==
  ASSUME Inv, KbuffFilled, NEW p \in Procs, WriteSection(p)
  PROVE  Stays(p) \/ Fails(p) \/ Puts(p)
<1>1. /\ call[p] = "write" /\ pc[p] # "user" /\ UNCHANGED <<fmode, lost>>
  BY DEF WriteSection, InSection
<1>2. CASE num["cons"] = 0 /\ Return(p, "EPIPE", << >>) /\ UNCHANGED cbuffer
  BY <1>1, <1>2 DEF Fails, Back
<1>3. CASE CondWait(p) /\ UNCHANGED cbuffer
  <2>1. pc \in [Procs -> PC]
    BY DEF Inv, TypeOK
  <2>2. /\ pc' = [pc EXCEPT ![p] = "cond"] /\ "cond" \in PC \ {"user"}
        /\ UNCHANGED <<call, length, kbuff, ret>>
    BY <1>3 DEF CondWait, Goto, PC
  <2>3. Labelled(p)'
    BY <1>1, <2>1, <2>2 DEF Labelled
  <2> QED BY <1>1, <1>3, <2>2, <2>3 DEF Stays
<1>4. CASE /\ nr_gaps_cbuffer_t(cbuffer) >= length[p]
           /\ cbuffer' = insert_items_cbuffer_t(cbuffer, kbuff[p])
           /\ Return(p, "OK", kbuff[p])
  <2>1. Contents(insert_items_cbuffer_t(cbuffer, kbuff[p])) = Bytes \o kbuff[p]
    BY <1>1, <1>4, WriteAppends DEF Bytes
  <2>2. Bytes' = Bytes \o kbuff[p]
    BY <1>4, <2>1 DEF Bytes
  <2> QED BY <1>1, <1>4, <2>2 DEF Puts, Back
<1> QED
  BY <1>2, <1>3, <1>4 DEF WriteSection

LEMMA DriverOutcomes ==
  ASSUME Inv, KbuffFilled, NEW p \in Procs, Labelled(p), Driver(p)
  PROVE  \/ Stays(p) \/ Fails(p) \/ Opens(p) \/ Closes(p)
         \/ FindsEnd(p) \/ Takes(p) \/ Puts(p)
<1>1. /\ pc \in [Procs -> PC] /\ call \in [Procs -> Calls]
      /\ fmode \in [Procs -> SUBSET FMode] /\ lost \in [Side -> Nat]
      /\ side(p) \in Side
  BY SideTypes DEF Inv, TypeOK
<1>2. CASE Acquire(p)
  <2>1. pc[p] \in PC \ {"user"} /\ pc' = [pc EXCEPT ![p] = pc[p]]
    BY <1>1, <1>2 DEF Acquire, AtMutex, PC
  <2> QED BY <1>2, <2>1 DEF Acquire, Stays, Labelled
<1>3. CASE Wake(p) \/ InterruptWait(p)
  BY <1>1, <1>3 DEF Wake, InterruptWait, Goto, Stays, Labelled, PC, AtMutex
<1>4. CASE InterruptEntry(p)
  <2>1. Back(p, "EINTR", << >>)
    BY <1>4 DEF InterruptEntry, Back
  <2>2. \A s \in Side : lost'[s] # lost[s] => s = side(p) /\ call[p] = "release"
    BY <1>1, <1>4 DEF InterruptEntry
  <2> QED BY <1>4, <2>1, <2>2 DEF InterruptEntry, Fails
<1>5. ASSUME InterruptHandler(p), pc[p] \in {"redown", "intr"},
             UNCHANGED <<fmode, lost, cbuffer>>
      PROVE  Stays(p) \/ Fails(p)
  <2>1. CASE call[p] = "open"
    BY <1>1, <1>5, <2>1 DEF InterruptHandler, Goto, Stays, Labelled, PC, AtMutex
  <2>2. CASE call[p] # "open"
    BY <1>5, <2>2 DEF InterruptHandler, Fails, Back, Labelled
  <2> QED BY <2>1, <2>2
<1>6. CASE InterruptRelock(p)
  BY <1>5, <1>6 DEF InterruptRelock
<1>7. CASE InterruptSection(p)
  BY <1>5, <1>7 DEF InterruptSection, InSection
<1>8. CASE OpenSection(p)
  <2>1. CASE num[other(side(p))] = 0
    BY <1>1, <1>8, <2>1 DEF OpenSection, InSection, Goto, Stays, Labelled, PC
  <2>2. CASE num[other(side(p))] # 0
    BY <1>8, <2>2 DEF OpenSection, InSection, Opens, Back
  <2> QED BY <2>1, <2>2
<1>9. CASE OpenRetest(p)
  <2>1. CASE num[other(side(p))] = 0
    BY <1>1, <1>9, <2>1 DEF OpenRetest, InSection, CondWait, Goto, Stays, Labelled,
       PC
  <2>2. CASE num[other(side(p))] # 0
    BY <1>9, <2>2 DEF OpenRetest, InSection, Opens, Back
  <2> QED BY <2>1, <2>2
<1>10. CASE OpenUndo(p)
  BY <1>10 DEF OpenUndo, InSection, Fails, Back, Labelled
<1>11. CASE ReleaseSection(p)
  BY <1>11 DEF ReleaseSection, InSection, Closes, Back
<1> QED
  BY <1>2, <1>3, <1>4, <1>6, <1>7, <1>8, <1>9, <1>10, <1>11, ReadOutcomes,
     WriteOutcomes DEF Driver, Section, Signal

-----------------------------------------------------------------------------
(***************************************************************************)
(* What a client is doing and what its file and its call are go together.  *)
(***************************************************************************)
Stages == {"start", "open", "loop", "sent", "received", "end", "exit",
           "close", "abort", "ok", "failed"}

ModeOf(p) == IF role[p] = "send" THEN {"FMODE_WRITE"} ELSE {"FMODE_READ"}

(* The call p has come back from succeeded. *)
Succeeded(p, l) == at[p] = l /\ pc[p] = "user" /\ ret[p].code = "OK"

FileOf(p) ==
  /\ fmode[p] \in {{}, ModeOf(p)}
  /\ at[p] \in {"loop", "sent", "received", "end", "exit"} => fmode[p] # {}
  /\ at[p] \in {"start", "ok", "failed"} => fmode[p] = {}
  /\ at[p] = "open" /\ pc[p] = "user" => (fmode[p] # {} <=> ret[p].code = "OK")
  /\ at[p] \in {"close", "abort"} /\ pc[p] = "user" => fmode[p] = {}

CallOf(p) ==
  /\ call[p] = "open" => at[p] = "open"
  /\ call[p] = "release" => at[p] \in {"close", "abort"}
  /\ call[p] = "read" => at[p] = "received" /\ length[p] = utmp_size
  /\ call[p] = "write" => at[p] = "sent" /\ kbuff[p] = utmp[i[p] + 1]
  /\ at[p] = "sent" => role[p] = "send" /\ i[p] < Len(utmp)
  /\ at[p] = "received" => role[p] = "receive"
  /\ role[p] = "print" => at[p] \in {"start", "ok", "failed"}
  /\ Succeeded(p, "sent") => Len(ret[p].data) = utmp_size
  /\ Labelled(p)

Clients ==
  /\ role \in [Procs -> Roles] /\ at \in [Procs -> Stages]
  /\ i \in [Procs -> 0 .. Len(utmp)] /\ got \in [Procs -> Seq(Seq(Byte))]
  /\ \A p \in Procs : FileOf(p) /\ CallOf(p)

(* A step of p leaves the others as they are. *)
Own(p) ==
  /\ UNCHANGED role
  /\ \A q \in Procs \ {p} :
       /\ fmode'[q] = fmode[q] /\ call'[q] = call[q] /\ pc'[q] = pc[q]
       /\ length'[q] = length[q] /\ kbuff'[q] = kbuff[q] /\ ret'[q] = ret[q]
       /\ at'[q] = at[q] /\ i'[q] = i[q] /\ got'[q] = got[q]

LEMMA OwnStep ==
  ASSUME Inv, Clients, NEW p \in Procs, Client(p) \/ Driver(p)
  PROVE  Own(p)
<1>1. /\ call \in [Procs -> Calls] /\ pc \in [Procs -> PC]
      /\ fmode \in [Procs -> SUBSET FMode]
      /\ length \in [Procs -> 0 .. BUF_LEN] /\ kbuff \in [Procs -> Seq(Byte)]
      /\ ret \in [Procs -> [code : Codes, data : Seq(Byte)]]
  BY DEF Inv, TypeOK
<1>2. /\ at \in [Procs -> Stages] /\ i \in [Procs -> 0 .. Len(utmp)]
      /\ got \in [Procs -> Seq(Seq(Byte))]
  BY DEF Clients
<1>3. CASE Driver(p)
  <2>1. UNCHANGED <<role, at, i, got>>
    BY <1>3 DEF Driver
  <2>2. CASE \/ Acquire(p) \/ Wake(p) \/ Signal(p)
    BY <1>1, <2>1, <2>2 DEF Own, Acquire, Wake, Signal, InterruptWait,
       InterruptEntry, InterruptRelock, InterruptHandler, Goto, Return
  <2>3. CASE OpenSection(p) \/ OpenRetest(p) \/ OpenUndo(p) \/ ReleaseSection(p)
    BY <1>1, <2>1, <2>3 DEF Own, OpenSection, OpenRetest, OpenUndo,
       ReleaseSection, CondWait, Goto, Return
  <2>4. CASE ReadSection(p) \/ WriteSection(p) \/ InterruptSection(p)
    BY <1>1, <2>1, <2>4 DEF Own, ReadSection, WriteSection, InterruptSection,
       InterruptHandler, CondWait, Goto, Return
  <2> QED BY <1>3, <2>2, <2>3, <2>4 DEF Driver, Section
<1>4. CASE \/ ReadUtmpFails(p) \/ PrintEntries(p) \/ OpenChecked(p)
           \/ SendChecked(p) \/ ReceiveChecked(p) \/ Exit(p)
  BY <1>2, <1>4 DEF Own, ReadUtmpFails, PrintEntries, OpenChecked,
     SendChecked, ReceiveChecked, Exit, Quiet, vars, Step
<1>5. CASE OpenFifo(p) \/ SendDone(p) \/ CloseFifo(p)
  BY <1>1, <1>2, <1>5 DEF Own, OpenFifo, SendDone, CloseFifo, OpenCall,
     ReleaseCall, Enter, Step
<1>6. CASE Send(p) \/ Receive(p)
  BY <1>1, <1>2, <1>6 DEF Own, Send, Receive, WriteCall, ReadCall, Enter,
     Return, Step
<1> QED
  BY <1>3, <1>4, <1>5, <1>6 DEF Client

LEMMA ClientsFrame ==
  ASSUME Clients, NEW p \in Procs, Own(p),
         at' \in [Procs -> Stages], i' \in [Procs -> 0 .. Len(utmp)],
         got' \in [Procs -> Seq(Seq(Byte))],
         FileOf(p)', CallOf(p)'
  PROVE  Clients'
<1>1. ASSUME NEW q \in Procs \ {p} PROVE FileOf(q)' /\ CallOf(q)'
  <2>1. FileOf(q) /\ CallOf(q)
    BY DEF Clients
  <2>2. /\ role' = role
        /\ fmode'[q] = fmode[q] /\ call'[q] = call[q] /\ pc'[q] = pc[q]
        /\ length'[q] = length[q] /\ kbuff'[q] = kbuff[q] /\ ret'[q] = ret[q]
        /\ at'[q] = at[q] /\ i'[q] = i[q] /\ got'[q] = got[q]
    BY DEF Own
  <2>3. FileOf(q)'
    BY <2>1, <2>2 DEF FileOf, ModeOf
  <2>4. CallOf(q)'
    BY <2>1, <2>2 DEF CallOf, Succeeded, Labelled
  <2> QED BY <2>3, <2>4
<1> QED
  BY <1>1 DEF Clients, Own

(* What a step of the driver does to the process that takes it. *)
LEMMA StaysOwn ==
  ASSUME Inv, NEW p \in Procs, Stays(p)
  PROVE  /\ pc[p] # "user" /\ pc'[p] # "user"
         /\ pc'[p] = "down" => pc[p] = "down"
BY DEF Inv, TypeOK, Stays

LEMMA BackOwn ==
  ASSUME Inv, NEW p \in Procs, NEW c, NEW d, Back(p, c, d)
  PROVE  /\ pc[p] # "user" /\ pc'[p] = "user"
         /\ call[p] # "none" /\ call'[p] = "none"
         /\ ret'[p].code = c /\ ret'[p].data = d
         /\ fmode[p] # {}
         /\ fmode'[p] = IF call[p] = "release" \/ (call[p] = "open" /\ c # "OK")
                        THEN {} ELSE fmode[p]
BY DEF Inv, InDriver, TypeOK, Back, Return, Result

LEMMA DriverClients ==
  ASSUME Inv, KbuffFilled, Clients, NEW p \in Procs, Driver(p)
  PROVE  Clients'
<1>1. /\ UNCHANGED <<role, at, i, got>> /\ Own(p)
      /\ FileOf(p) /\ CallOf(p) /\ Labelled(p)
  BY OwnStep DEF Driver, Clients, CallOf
<1>2. CASE Stays(p)
  <2>1. FileOf(p)'
    BY <1>1, <1>2, StaysOwn DEF FileOf, ModeOf, Stays
  <2>2. CallOf(p)'
    BY <1>1, <1>2, StaysOwn DEF CallOf, Succeeded, Stays
  <2> QED BY <1>1, <2>1, <2>2, ClientsFrame DEF Clients
<1>3. ASSUME NEW c, NEW d, Back(p, c, d),
             call[p] = "write" /\ c = "OK" => d = kbuff[p]
      PROVE  Clients'
  <2>1. FileOf(p)'
    BY <1>1, <1>3, BackOwn DEF FileOf, CallOf, ModeOf, Inv, InDriver, TypeOK,
       Calls
  <2>2. CallOf(p)'
    <3>1. Succeeded(p, "sent")' => Len(ret'[p].data) = utmp_size
      <4>1. call[p] = "write" => kbuff[p] \in [1 .. utmp_size -> Byte]
        BY <1>1, UtmpAssumption DEF CallOf, Clients
      <4>2. ASSUME NEW x \in [1 .. utmp_size -> Byte] PROVE Len(x) = utmp_size
        BY UtmpAssumption, DataAssumption
      <4>3. at[p] = "sent" => call[p] = "write"
        BY <1>1, <1>3, BackOwn DEF CallOf, Inv, TypeOK, Calls
      <4> QED BY <1>1, <1>3, <4>1, <4>2, <4>3, BackOwn DEF Succeeded
    <3> QED BY <1>1, <1>3, <3>1, BackOwn DEF CallOf, Labelled
  <2> QED BY <1>1, <2>1, <2>2, ClientsFrame DEF Clients
<1> QED
  BY <1>1, <1>2, <1>3, DriverOutcomes DEF Fails, Opens, Closes, FindsEnd,
     Takes, Puts

LEMMA ClientClients ==
  ASSUME Inv, Clients, NEW p \in Procs, Client(p)
  PROVE  Clients'
<1>1. /\ call \in [Procs -> Calls] /\ pc \in [Procs -> PC]
      /\ fmode \in [Procs -> SUBSET FMode]
      /\ length \in [Procs -> 0 .. BUF_LEN] /\ kbuff \in [Procs -> Seq(Byte)]
      /\ ret \in [Procs -> [code : Codes, data : Seq(Byte)]]
      /\ (pc[p] = "user" <=> call[p] = "none")
  BY DEF Inv, InDriver, TypeOK
<1>2. /\ at \in [Procs -> Stages] /\ i \in [Procs -> 0 .. Len(utmp)]
      /\ got \in [Procs -> Seq(Seq(Byte))] /\ role \in [Procs -> Roles]
      /\ FileOf(p) /\ CallOf(p) /\ Own(p)
      /\ at[p] = "start" => pc[p] = "user"
  BY OwnStep DEF Clients, CallOf, FileOf, Inv, InDriver
<1>3. ASSUME UNCHANGED vars, NEW l \in Stages, Step(p, l),
             i' \in [Procs -> 0 .. Len(utmp)], got' \in [Procs -> Seq(Seq(Byte))],
             pc[p] = "user",
             l \in {"loop", "end", "exit"} => fmode[p] # {},
             l \in {"ok", "failed"} => fmode[p] = {},
             l \in {"loop", "end", "exit", "ok", "failed"},
             role[p] = "print" => l \in {"ok", "failed"}
      PROVE  Clients'
  <2>1. at'[p] = l /\ at' \in [Procs -> Stages]
    BY <1>2, <1>3 DEF Step
  <2>2. FileOf(p)'
    BY <1>2, <1>3, <2>1, Zenon DEF FileOf, ModeOf, vars, Own
  <2>3. CallOf(p)'
    BY <1>1, <1>2, <1>3, <2>1 DEF CallOf, Succeeded, Labelled, vars, Own
  <2> QED BY <1>2, <1>3, <2>1, <2>2, <2>3, ClientsFrame
<1>4. CASE ReadUtmpFails(p) \/ PrintEntries(p)
  BY <1>2, <1>3, <1>4 DEF ReadUtmpFails, PrintEntries, Quiet, FileOf, Stages
<1>5. CASE OpenChecked(p) \/ Exit(p)
  BY <1>2, <1>3, <1>5 DEF OpenChecked, Exit, Returned, Quiet, FileOf, CallOf,
     Stages
<1>6. CASE SendChecked(p)
  <2>1. /\ i' \in [Procs -> 0 .. Len(utmp)] /\ i[p] < Len(utmp)
        /\ fmode[p] # {} /\ role[p] = "send"
    <3>1. /\ Len(utmp) \in Nat /\ i[p] \in 0 .. Len(utmp) /\ i[p] < Len(utmp)
          /\ fmode[p] # {} /\ role[p] = "send"
      BY <1>2, <1>6, UtmpAssumption, LenProperties
         DEF SendChecked, Returned, CallOf, FileOf
    <3>2. i[p] + 1 \in 0 .. Len(utmp)
      BY <3>1
    <3> QED BY <1>2, <1>6, <3>1, <3>2 DEF SendChecked
  <2> QED BY <1>2, <1>3, <1>6, <2>1 DEF SendChecked, Returned, Quiet, Stages
<1>7. CASE ReceiveChecked(p)
  <2>1. /\ got' \in [Procs -> Seq(Seq(Byte))]
        /\ fmode[p] # {} /\ role[p] = "receive"
    <3>1. ret[p].data \in Seq(Byte) /\ got[p] \in Seq(Seq(Byte))
      BY <1>1, <1>2
    <3>2. Append(got[p], ret[p].data) \in Seq(Seq(Byte))
      BY <3>1, AppendProperties
    <3> QED
      BY <1>2, <1>7, <3>2 DEF ReceiveChecked, Returned, CallOf, FileOf
  <2> QED BY <1>2, <1>3, <1>7, <2>1 DEF ReceiveChecked, Returned, Quiet, Stages
<1>8. CASE OpenFifo(p)
  <2>1. /\ at'[p] = "open" /\ call'[p] = "open" /\ pc'[p] = "down"
        /\ fmode'[p] = ModeOf(p) /\ fmode'[p] # {} /\ role[p] # "print"
        /\ UNCHANGED <<role, i, got>> /\ at' \in [Procs -> Stages]
    BY <1>1, <1>2, <1>8 DEF OpenFifo, OpenCall, Enter, Step, ModeOf, Stages
  <2>2. FileOf(p)' /\ CallOf(p)'
    BY <2>1 DEF FileOf, CallOf, ModeOf, Succeeded, Labelled
  <2> QED BY <1>2, <2>1, <2>2, ClientsFrame
<1>9. CASE SendDone(p) \/ CloseFifo(p)
  <2>1. /\ at'[p] \in {"close", "abort"} /\ call'[p] = "release"
        /\ pc'[p] = "down" /\ fmode'[p] = fmode[p] /\ role[p] # "print"
        /\ UNCHANGED <<role, i, got>> /\ at' \in [Procs -> Stages]
    BY <1>1, <1>2, <1>9 DEF SendDone, CloseFifo, ReleaseCall, Enter, Step,
       Stages, Returned, CallOf
  <2>2. FileOf(p)' /\ CallOf(p)'
    BY <1>2, <2>1 DEF FileOf, CallOf, ModeOf, Succeeded, Labelled
  <2> QED BY <1>2, <2>1, <2>2, ClientsFrame
<1>10. CASE Receive(p)
  <2>1. /\ at'[p] = "received" /\ fmode'[p] = fmode[p] /\ fmode[p] # {}
        /\ role[p] = "receive" /\ pc'[p] \in {"user", "down"}
        /\ call'[p] \in {"none", "read"}
        /\ call'[p] = "read" => length'[p] = utmp_size
        /\ UNCHANGED <<role, i, got>> /\ at' \in [Procs -> Stages]
    BY <1>1, <1>2, <1>10 DEF Receive, ReadCall, Enter, Return, Step, Stages,
       Returned, FileOf
  <2>2. FileOf(p)' /\ CallOf(p)'
    BY <1>2, <2>1 DEF FileOf, CallOf, ModeOf, Succeeded, Labelled
  <2> QED BY <1>2, <2>1, <2>2, ClientsFrame
<1>11. CASE Send(p)
  <2>1. /\ at'[p] = "sent" /\ fmode'[p] = fmode[p] /\ fmode[p] # {}
        /\ role[p] = "send" /\ i[p] < Len(utmp) /\ pc'[p] \in {"user", "down"}
        /\ call'[p] \in {"none", "write"}
        /\ call'[p] = "write" => kbuff'[p] = utmp[i[p] + 1]
        /\ ret'[p].code # "OK"
        /\ UNCHANGED <<role, i, got>> /\ at' \in [Procs -> Stages]
    BY <1>1, <1>2, <1>11 DEF Send, WriteCall, Enter, Return, Result, Step,
       Stages, Returned, FileOf
  <2>2. FileOf(p)' /\ CallOf(p)'
    BY <1>2, <2>1 DEF FileOf, CallOf, ModeOf, Succeeded, Labelled
  <2> QED BY <1>2, <2>1, <2>2, ClientsFrame
<1> QED
  BY <1>4, <1>5, <1>6, <1>7, <1>8, <1>9, <1>10, <1>11 DEF Client

LEMMA ClientsHold == UtmpSpec => []Clients
<1>1. UtmpInit => Clients
  <2> SUFFICES ASSUME UtmpInit PROVE Clients
    OBVIOUS
  <2>1. 0 \in 0 .. Len(utmp) /\ << >> \in Seq(Seq(Byte))
    BY UtmpAssumption, LenProperties
  <2> QED BY <2>1 DEF UtmpInit, Init, Clients, FileOf, CallOf, Succeeded,
     Labelled, Stages
<1>2. Inv /\ KbuffFilled /\ Clients /\ [UtmpNext]_utmpVars => Clients'
  <2> SUFFICES ASSUME Inv, KbuffFilled, Clients, [UtmpNext]_utmpVars
               PROVE  Clients'
    OBVIOUS
  <2>1. CASE UNCHANGED utmpVars
    <3>1. UNCHANGED <<pc, call, length, kbuff, ret, fmode, role, at, i, got>>
      BY <2>1 DEF utmpVars, vars
    <3>2. ASSUME NEW p \in Procs PROVE FileOf(p)' /\ CallOf(p)'
      <4>1. FileOf(p) /\ CallOf(p)
        BY DEF Clients
      <4>2. FileOf(p)'
        BY <3>1, <4>1 DEF FileOf, ModeOf
      <4>3. CallOf(p)'
        BY <3>1, <4>1 DEF CallOf, Succeeded, Labelled
      <4> QED BY <4>2, <4>3
    <3> QED BY <3>1, <3>2 DEF Clients
  <2> QED BY <2>1, DriverClients, ClientClients DEF UtmpNext
<1> QED
  BY <1>1, <1>2, DriverInvHolds, PTL DEF UtmpSpec

-----------------------------------------------------------------------------
(***************************************************************************)
(* Bytes that are whole records, and what the driver does to them.         *)
(***************************************************************************)
Record == [1 .. utmp_size -> Byte]
Records == {utmp[k] : k \in DOMAIN utmp}

(* s is the records f[1] to f[n], one after the other. *)
Made(s, n, f) ==
  /\ Len(s) = n * utmp_size
  /\ \A k \in 1 .. n : \A x \in 1 .. utmp_size :
       s[(k - 1) * utmp_size + x] = f[k][x]

(* Where byte x of record k is. *)
LEMMA Offsets ==
  ASSUME NEW z \in Nat \ {0}, NEW n \in Nat
  PROVE  /\ n * z \in Nat /\ (n + 1) * z = n * z + z
         /\ \A k \in 1 .. n : \A x \in 1 .. z : (k - 1) * z + x \in 1 .. n * z
         /\ n * z = 0 => n = 0
         /\ n # 0 => z <= n * z
<1>1. n * z \in Nat /\ (n + 1) * z = n * z + z
  OBVIOUS
<1>2. ASSUME NEW a \in Nat, NEW b \in Nat, a <= b
      PROVE  a * z \in Nat /\ b * z \in Nat /\ a * z <= b * z
  <2>1. b * z = a * z + (b - a) * z /\ (b - a) * z >= 0
    BY <1>2
  <2>2. a * z \in Nat /\ b * z \in Nat /\ (b - a) * z \in Int
    BY <1>2
  <2> QED BY <2>1, <2>2
<1>3. ASSUME NEW k \in 1 .. n, NEW x \in 1 .. z
      PROVE  (k - 1) * z + x \in 1 .. n * z
  <2>1. k - 1 \in Nat /\ (k - 1) + 1 = k /\ k \in Nat /\ k <= n
    OBVIOUS
  <2>2. k * z <= n * z /\ k * z \in Nat /\ (k - 1) * z \in Nat
    BY <1>2, <2>1
  <2>3. ((k - 1) + 1) * z = (k - 1) * z + z
    BY <2>1
  <2> DEFINE a == (k - 1) * z
             b == k * z
             c == n * z
  <2>4. b = a + z /\ b <= c /\ a \in Nat /\ b \in Nat /\ c \in Nat
    BY <1>1, <2>1, <2>2, <2>3
  <2> HIDE DEF a, b, c
  <2>5. a + x \in 1 .. c
    BY <2>4
  <2> QED BY <2>5 DEF a, c
<1>4. n # 0 => z <= n * z
  <2>1. n # 0 => 1 * z <= n * z
    BY <1>2
  <2> QED BY <2>1
<1> QED
  BY <1>1, <1>3, <1>4

(* A write adds a record. *)
LEMMA MadeAppend ==
  ASSUME NEW s \in Seq(Byte), NEW n \in Nat, NEW f, Made(s, n, f),
         NEW t \in Record, NEW g,
         \A k \in 1 .. n : g[k] = f[k], g[n + 1] = t
  PROVE  Made(s \o t, n + 1, g)
<1> DEFINE z == utmp_size
<1>1. z \in Nat \ {0} /\ t \in Seq(Byte) /\ Len(t) = z
  <2>1. utmp_size \in Nat \ {0}
    BY UtmpAssumption, DataAssumption
  <2> QED BY <2>1 DEF Record
<1>2. /\ n * z \in Nat /\ (n + 1) * z = n * z + z
      /\ \A k \in 1 .. n : \A x \in 1 .. z : (k - 1) * z + x \in 1 .. n * z
  <2> HIDE DEF z
  <2> QED BY <1>1, Offsets
<1>3. /\ Len(s) = n * z
      /\ \A k \in 1 .. n : \A x \in 1 .. z : s[(k - 1) * z + x] = f[k][x]
  BY DEF Made
<1> DEFINE c == n * z
           u == s \o t
<1>4. /\ u \in Seq(Byte) /\ Len(u) = c + z /\ c \in Nat
      /\ \A y \in 1 .. c + z : u[y] = IF y <= c THEN s[y] ELSE t[y - c]
  <2>1. /\ u \in Seq(Byte) /\ Len(u) = Len(s) + Len(t)
        /\ \A y \in 1 .. Len(s) + Len(t) :
             u[y] = IF y <= Len(s) THEN s[y] ELSE t[y - Len(s)]
    BY <1>1, ConcatProperties
  <2> HIDE DEF u, z
  <2> QED BY <1>1, <1>2, <1>3, <2>1
<1> HIDE DEF u
<1>5. ASSUME NEW k \in 1 .. n + 1, NEW x \in 1 .. z
      PROVE  u[(k - 1) * z + x] = g[k][x]
  <2>1. CASE k \in 1 .. n
    <3> DEFINE y == (k - 1) * z + x
    <3>1. y \in 1 .. c /\ s[y] = f[k][x]
      BY <1>2, <1>3, <2>1
    <3> HIDE DEF y, c, z
    <3>2. y \in 1 .. c + z /\ y <= c
      BY <1>1, <1>4, <3>1
    <3>3. u[y] = s[y]
      BY <1>4, <3>2
    <3> QED BY <2>1, <3>1, <3>3 DEF y
  <2>2. CASE ~ (k \in 1 .. n)
    <3>1. k = n + 1 /\ k - 1 = n
      BY <2>2
    <3> HIDE DEF c, z
    <3>2. c + x \in 1 .. c + z /\ ~ (c + x <= c) /\ (c + x) - c = x
      BY <1>1, <1>4
    <3>3. u[c + x] = t[x]
      BY <1>4, <3>2
    <3> QED BY <3>1, <3>3 DEF c
  <2> QED BY <2>1, <2>2
<1>6. Len(u) = (n + 1) * z
  BY <1>2, <1>4
<1> QED
  BY <1>5, <1>6 DEF Made, u

(* A read of a record takes the first one. *)
LEMMA MadeTake ==
  ASSUME NEW s \in Seq(Byte), NEW n \in Nat, NEW f, Made(s, n, f),
         \A k \in 1 .. n : f[k] \in Record, utmp_size <= Len(s)
  PROVE  /\ n # 0 /\ SubSeq(s, 1, utmp_size) = f[1]
         /\ \A g : (\A k \in 1 .. n - 1 : g[k] = f[k + 1])
                     => Made(SubSeq(s, utmp_size + 1, Len(s)), n - 1, g)
<1> DEFINE z == utmp_size
<1>1. z \in Nat \ {0} /\ Len(s) \in Nat
  BY UtmpAssumption, DataAssumption, LenProperties
<1>2. /\ Len(s) = n * z /\ z <= Len(s)
      /\ \A k \in 1 .. n : \A x \in 1 .. z : s[(k - 1) * z + x] = f[k][x]
  BY DEF Made
<1> HIDE DEF z
<1>3. n # 0
  BY <1>1, <1>2
<1> DEFINE m == n - 1
           c == m * z
<1>4. /\ m \in Nat /\ m + 1 = n /\ c \in Nat /\ n * z = c + z
      /\ \A k \in 1 .. m : \A x \in 1 .. z : (k - 1) * z + x \in 1 .. c
  <2>1. m \in Nat /\ m + 1 = n
    BY <1>3
  <2> HIDE DEF m
  <2>2. /\ m * z \in Nat /\ (m + 1) * z = m * z + z
        /\ \A k \in 1 .. m : \A x \in 1 .. z : (k - 1) * z + x \in 1 .. m * z
    BY <1>1, <2>1, Offsets
  <2> QED BY <2>1, <2>2
<1>5. SubSeq(s, 1, z) = f[1]
  <2>1. z \in 0 .. Len(s) /\ 1 \in 1 .. n
    BY <1>1, <1>2, <1>3
  <2>2. /\ SubSeq(s, 1, z) \in Seq(Byte) /\ Len(SubSeq(s, 1, z)) = z
        /\ \A x \in 1 .. z : SubSeq(s, 1, z)[x] = s[x]
    BY <2>1, SliceFromOne
  <2>3. f[1] \in Seq(Byte) /\ Len(f[1]) = z
    <3>1. f[1] \in [1 .. z -> Byte]
      BY <2>1 DEF Record, z
    <3> QED BY <1>1, <3>1
  <2>4. \A x \in 1 .. z : s[x] = f[1][x]
    <3> SUFFICES ASSUME NEW x \in 1 .. z PROVE s[x] = f[1][x]
      OBVIOUS
    <3>1. (1 - 1) * z + x = x
      BY <1>1
    <3> QED BY <1>2, <2>1, <3>1
  <2>5. \A x \in 1 .. z : SubSeq(s, 1, z)[x] = f[1][x]
    BY <2>2, <2>4
  <2> QED BY <2>2, <2>3, <2>5, SeqEqual
<1> DEFINE r == SubSeq(s, z + 1, Len(s))
<1>6. /\ Len(r) = c /\ \A y \in 1 .. c : r[y] = s[z + y]
  <2> DEFINE a == z + 1
             b == Len(s)
  <2>1. /\ a \in Nat \ {0} /\ b \in 0 .. Len(s) /\ a <= b + 1
        /\ b - a + 1 = c /\ \A y \in 1 .. c : a + y - 1 = z + y
    <3> HIDE DEF c, m
    <3> QED BY <1>1, <1>2, <1>4
  <2>2. /\ Len(SubSeq(s, a, b)) = b - a + 1
        /\ \A y \in 1 .. b - a + 1 : SubSeq(s, a, b)[y] = s[a + y - 1]
    <3> HIDE DEF a, b
    <3> QED BY <2>1, SliceOfSeq
  <2> HIDE DEF c
  <2>3. /\ Len(SubSeq(s, a, b)) = c
        /\ \A y \in 1 .. c : SubSeq(s, a, b)[y] = s[z + y]
    <3> HIDE DEF a, b
    <3> QED BY <2>1, <2>2
  <2> QED BY <2>3
<1>7. ASSUME NEW g, \A k \in 1 .. m : g[k] = f[k + 1],
             NEW k \in 1 .. m, NEW x \in 1 .. z
      PROVE  r[(k - 1) * z + x] = g[k][x]
  <2> DEFINE y == (k - 1) * z + x
  <2>1. y \in 1 .. c /\ k + 1 \in 1 .. n /\ (k + 1) - 1 = k
    BY <1>4
  <2>2. z + y = k * z + x
    <3>1. k - 1 \in Nat /\ (k - 1) + 1 = k
      OBVIOUS
    <3>2. ((k - 1) + 1) * z = (k - 1) * z + z
      BY <1>1, <3>1, Offsets
    <3>3. k * z = (k - 1) * z + z
      BY <3>1, <3>2
    <3>4. (k - 1) * z \in Nat
      BY <1>1, <3>1
    <3> DEFINE e == (k - 1) * z
               h == k * z
    <3>5. h = e + z /\ e \in Nat
      BY <3>3, <3>4
    <3> HIDE DEF e, h
    <3>6. z + (e + x) = h + x
      BY <1>1, <3>5
    <3> QED BY <3>6 DEF e, h
  <2>3. s[k * z + x] = f[k + 1][x]
    <3>1. s[((k + 1) - 1) * z + x] = f[k + 1][x]
      BY <1>2, <2>1
    <3> QED BY <2>1, <3>1
  <2>4. r[y] = s[z + y]
    BY <1>6, <2>1
  <2> QED BY <1>7, <2>2, <2>3, <2>4
<1>8. \A g : (\A k \in 1 .. m : g[k] = f[k + 1]) => Made(r, m, g)
  <2> HIDE DEF r, m
  <2> QED BY <1>6, <1>7 DEF Made, z, c
<1> QED
  BY <1>3, <1>5, <1>8 DEF z

-----------------------------------------------------------------------------
(***************************************************************************)
(* Records are never torn.  The buffer holds whole records of the file,    *)
(* and so is what a read that got its full length brings back.             *)
(***************************************************************************)
Full(p) == Succeeded(p, "received") /\ Len(ret[p].data) = utmp_size

Whole ==
  /\ \E n \in Nat : \E f \in [1 .. n -> Records] : Made(Bytes, n, f)
  /\ \A p \in Procs : Full(p) => ret[p].data \in Records
  /\ RecordsWhole

LEMMA RecordTypes ==
  /\ utmp_size \in Nat \ {0} /\ Len(utmp) \in Nat
  /\ \A k \in 1 .. Len(utmp) : utmp[k] \in Record /\ utmp[k] \in Records
  /\ Records \subseteq Record
  /\ \A x \in Record : x \in Seq(Byte) /\ Len(x) = utmp_size
<1>1. utmp_size \in Nat \ {0} /\ utmp \in Seq(Record)
  BY UtmpAssumption, DataAssumption DEF Record
<1>2. Len(utmp) \in Nat /\ DOMAIN utmp = 1 .. Len(utmp)
  BY <1>1, LenProperties
<1>3. \A k \in 1 .. Len(utmp) : utmp[k] \in Record
  BY <1>1, ElementOfSeq
<1> QED
  BY <1>1, <1>2, <1>3 DEF Records, Record

LEMMA BytesType == Inv => Bytes \in Seq(Byte) /\ Len(Bytes) = cbuffer.size
<1> SUFFICES ASSUME Inv PROVE Bytes \in Seq(Byte) /\ Len(Bytes) = cbuffer.size
  OBVIOUS
<1>1. BUF_LEN \in Nat \ {0} /\ cbuffer \in cbuffer_t(Byte, BUF_LEN)
  BY DataAssumption DEF Inv, TypeOK
<1> QED
  BY <1>1, ContentsIs DEF Bytes

(* What a release may leave in the buffer: everything or nothing. *)
LEMMA ClosesBytes ==
  ASSUME Inv, NEW p \in Procs, Closes(p)
  PROVE  UNCHANGED Bytes \/ (Unused(num') /\ Bytes' = << >>)
<1>1. CASE UNCHANGED cbuffer
  BY <1>1 DEF Bytes
<1>2. CASE Unused(num') /\ cbuffer' = [cbuffer EXCEPT !.size = 0]
  <2>1. cbuffer \in cbuffer_t(Byte, BUF_LEN)
    BY DEF Inv, TypeOK
  <2>2. cbuffer'.size = 0
    BY <1>2, <2>1 DEF cbuffer_t
  <2> QED BY <1>2, <2>2 DEF Bytes, Contents
<1> QED
  BY <1>1, <1>2 DEF Closes

LEMMA DriverWhole ==
  ASSUME Inv, KbuffFilled, Clients, Whole, NEW p \in Procs, Driver(p)
  PROVE  Whole'
<1>1. /\ UNCHANGED <<role, at, i, got>> /\ Own(p)
      /\ FileOf(p) /\ CallOf(p) /\ Labelled(p)
      /\ RecordsWhole'
  BY OwnStep DEF Driver, Clients, CallOf, Whole, RecordsWhole
<1>2. ASSUME Full(p)' => ret'[p].data \in Records,
             \E n \in Nat : \E f \in [1 .. n -> Records] : Made(Bytes', n, f)
      PROVE  Whole'
  <2>1. \A q \in Procs \ {p} : Full(q)' => ret'[q].data \in Records
    BY <1>1 DEF Own, Full, Succeeded, Whole
  <2> QED BY <1>1, <1>2, <2>1 DEF Whole
<1>3. CASE Stays(p)
  <2>1. ~ Full(p)'
    BY <1>3, StaysOwn DEF Full, Succeeded
  <2>2. UNCHANGED Bytes
    BY <1>3 DEF Stays, Bytes
  <2> QED BY <1>2, <2>1, <2>2 DEF Whole
<1>4. CASE Fails(p) \/ FindsEnd(p)
  <2>1. ~ Full(p)'
    BY <1>4, BackOwn DEF Fails, FindsEnd, Full, Succeeded
  <2>2. UNCHANGED Bytes
    BY <1>4 DEF Fails, FindsEnd, Bytes
  <2> QED BY <1>2, <2>1, <2>2 DEF Whole
<1>5. CASE Opens(p)
  <2>1. ~ Full(p)'
    BY <1>1, <1>5 DEF Opens, Full, Succeeded, CallOf
  <2>2. UNCHANGED Bytes
    BY <1>5 DEF Opens, Bytes
  <2> QED BY <1>2, <2>1, <2>2 DEF Whole
<1>6. CASE Closes(p)
  <2>1. ~ Full(p)'
    BY <1>1, <1>6 DEF Closes, Full, Succeeded, CallOf
  <2>2. CASE UNCHANGED Bytes
    BY <1>2, <2>1, <2>2 DEF Whole
  <2>3. CASE Bytes' = << >>
    <3>1. Made(Bytes', 0, [k \in 1 .. 0 |-> utmp[k]])
      BY <2>3, RecordTypes DEF Made
    <3>2. [k \in 1 .. 0 |-> utmp[k]] \in [1 .. 0 -> Records]
      OBVIOUS
    <3> QED BY <1>2, <2>1, <3>1, <3>2
  <2> QED BY <1>6, <2>2, <2>3, ClosesBytes
<1>7. CASE Takes(p)
  <2>1. PICK n \in Nat : \E f \in [1 .. n -> Records] : Made(Bytes, n, f)
    BY DEF Whole
  <2>2. PICK f \in [1 .. n -> Records] : Made(Bytes, n, f)
    BY <2>1
  <2>3. /\ length[p] = utmp_size /\ utmp_size <= Len(Bytes)
        /\ \A k \in 1 .. n : f[k] \in Record
    BY <1>1, <1>7, RecordTypes DEF Takes, CallOf
  <2>4. /\ n # 0 /\ SubSeq(Bytes, 1, utmp_size) = f[1]
        /\ \A g : (\A k \in 1 .. n - 1 : g[k] = f[k + 1])
                    => Made(SubSeq(Bytes, utmp_size + 1, Len(Bytes)), n - 1, g)
    BY <2>2, <2>3, BytesType, MadeTake
  <2> DEFINE g == [k \in 1 .. n - 1 |-> f[k + 1]]
  <2>5. n - 1 \in Nat /\ g \in [1 .. n - 1 -> Records]
    BY <2>4
  <2>6. Made(Bytes', n - 1, g)
    <3>1. Bytes' = SubSeq(Bytes, utmp_size + 1, Len(Bytes))
      BY <1>7, <2>3 DEF Takes
    <3>2. \A k \in 1 .. n - 1 : g[k] = f[k + 1]
      OBVIOUS
    <3> HIDE DEF g
    <3> QED BY <2>4, <3>1, <3>2
  <2>7. Full(p)' => ret'[p].data \in Records
    <3>1. PICK k \in 0 .. utmp_size :
            Back(p, "OK", SubSeq(Bytes, 1, utmp_size - k))
      BY <1>7, <2>3 DEF Takes
    <3>2. ret'[p].data = SubSeq(Bytes, 1, utmp_size - k)
      <4> DEFINE d == SubSeq(Bytes, 1, utmp_size - k)
      <4> HIDE DEF d
      <4>1. Back(p, "OK", d)
        BY <3>1 DEF d
      <4>2. ret'[p].data = d
        BY <4>1, BackOwn
      <4> QED BY <4>2 DEF d
    <3>3. Len(ret'[p].data) = utmp_size - k
      <4>1. utmp_size - k \in 0 .. Len(Bytes)
        BY <2>3, RecordTypes, BytesType, LenProperties
      <4> QED BY <3>2, <4>1, BytesType, SliceFromOne
    <3>4. Full(p)' => k = 0
      BY <3>3, RecordTypes DEF Full
    <3>5. 1 \in 1 .. n /\ utmp_size - 0 = utmp_size
      BY <2>4, RecordTypes
    <3>6. f[1] \in Records
      BY <3>5
    <3> QED BY <2>4, <3>2, <3>4, <3>5, <3>6
  <2> HIDE DEF g
  <2> QED BY <1>2, <2>5, <2>6, <2>7
<1>8. CASE Puts(p)
  <2>1. ~ Full(p)'
    BY <1>1, <1>8 DEF Puts, Full, Succeeded, CallOf
  <2>2. PICK n \in Nat : \E f \in [1 .. n -> Records] : Made(Bytes, n, f)
    BY DEF Whole
  <2>3. PICK f \in [1 .. n -> Records] : Made(Bytes, n, f)
    BY <2>2
  <2>4. kbuff[p] \in Records /\ kbuff[p] \in Record
    <3>1. kbuff[p] = utmp[i[p] + 1] /\ i[p] + 1 \in 1 .. Len(utmp)
      BY <1>1, <1>8, RecordTypes DEF Puts, CallOf, Clients
    <3> QED BY <3>1, RecordTypes
  <2> DEFINE g == [k \in 1 .. n + 1 |-> IF k <= n THEN f[k] ELSE kbuff[p]]
  <2>5. n + 1 \in Nat /\ g \in [1 .. n + 1 -> Records]
    BY <2>4
  <2>6. (\A k \in 1 .. n : g[k] = f[k]) /\ g[n + 1] = kbuff[p]
    OBVIOUS
  <2> HIDE DEF g
  <2>7. Made(Bytes \o kbuff[p], n + 1, g)
    BY <2>3, <2>4, <2>6, BytesType, MadeAppend
  <2>8. Made(Bytes', n + 1, g)
    BY <1>8, <2>7 DEF Puts
  <2> QED BY <1>2, <2>1, <2>5, <2>8
<1> QED
  BY <1>1, <1>3, <1>4, <1>5, <1>6, <1>7, <1>8, DriverOutcomes

LEMMA ClientWhole ==
  ASSUME Inv, Clients, Whole, NEW p \in Procs, Client(p)
  PROVE  Whole'
<1>1. /\ Own(p) /\ CallOf(p) /\ UNCHANGED Bytes
      /\ at \in [Procs -> Stages] /\ got \in [Procs -> Seq(Seq(Byte))]
      /\ ret \in [Procs -> [code : Codes, data : Seq(Byte)]]
  <2>1. UNCHANGED cbuffer
    BY DEF Client, ReadUtmpFails, PrintEntries, OpenFifo, OpenChecked, Send,
       SendChecked, SendDone, Receive, ReceiveChecked, CloseFifo, Exit, Quiet,
       vars, OpenCall, WriteCall, ReadCall, ReleaseCall
  <2> QED BY <2>1, OwnStep DEF Clients, Bytes, Inv, TypeOK
<1>2. ASSUME Full(p)' => ret'[p].data \in Records,
             \A k \in DOMAIN got'[p] : got'[p][k] \in Records
      PROVE  Whole'
  <2>1. \A q \in Procs \ {p} : Full(q)' => ret'[q].data \in Records
    BY <1>1 DEF Own, Full, Succeeded, Whole
  <2>2. ASSUME NEW q \in Procs, NEW k \in DOMAIN got'[q]
        PROVE  \E j \in DOMAIN utmp : got'[q][k] = utmp[j]
    <3>1. CASE q = p
      BY <1>2, <2>2, <3>1 DEF Records
    <3>2. CASE q # p
      BY <1>1, <2>2, <3>2 DEF Own, RecordsWhole, Whole
    <3> QED BY <3>1, <3>2
  <2>3. RecordsWhole'
    BY <2>2 DEF RecordsWhole
  <2> QED BY <1>1, <1>2, <2>1, <2>3 DEF Whole
<1>3. \A k \in DOMAIN got[p] : got[p][k] \in Records
  BY DEF Whole, RecordsWhole, Records
<1>4. CASE ReceiveChecked(p)
  <2>1. ~ Full(p)'
    BY <1>1, <1>4 DEF ReceiveChecked, Step, Full, Succeeded
  <2>2. CASE Full(p)
    <3>1. ret[p].data \in Records /\ ret[p].data \in Seq(Byte)
      BY <1>1, <2>2 DEF Whole
    <3>2. got'[p] = Append(got[p], ret[p].data) /\ got[p] \in Seq(Seq(Byte))
      BY <1>1, <1>4, <2>2 DEF ReceiveChecked, Full, Succeeded
    <3>3. \A k \in DOMAIN got'[p] : got'[p][k] \in Records
      <4>1. /\ DOMAIN got[p] = 1 .. Len(got[p]) /\ Len(got[p]) \in Nat
            /\ DOMAIN got'[p] = 1 .. Len(got[p]) + 1
            /\ got'[p][Len(got[p]) + 1] = ret[p].data
            /\ \A k \in 1 .. Len(got[p]) : got'[p][k] = got[p][k]
        BY <3>1, <3>2, AppendProperties, LenProperties
      <4> QED BY <1>3, <3>1, <4>1
    <3> QED BY <1>2, <2>1, <3>3
  <2>3. CASE ~ Full(p)
    <3>1. got'[p] = got[p]
      BY <1>4, <2>3 DEF ReceiveChecked, Returned, Full, Succeeded
    <3> QED BY <1>2, <1>3, <2>1, <3>1
  <2> QED BY <2>2, <2>3
<1>5. CASE ~ ReceiveChecked(p)
  <2>1. UNCHANGED got
    BY <1>5 DEF Client, ReadUtmpFails, PrintEntries, OpenFifo, OpenChecked,
       Send, SendChecked, SendDone, Receive, CloseFifo, Exit
  <2>2. ~ Full(p)'
    <3>1. CASE Receive(p)
      <4>1. ret'[p].code # "OK"
        BY <1>1, <3>1 DEF Receive, ReadCall, Enter, Return, Result
      <4> QED BY <4>1 DEF Full, Succeeded
    <3>2. CASE ~ Receive(p)
      <4>1. at'[p] # "received"
        BY <1>1, <1>5, <3>2 DEF Client, ReadUtmpFails, PrintEntries, OpenFifo,
           OpenChecked, Send, SendChecked, SendDone, CloseFifo, Exit, Step
      <4> QED BY <4>1 DEF Full, Succeeded
    <3> QED BY <3>1, <3>2
  <2> QED BY <1>2, <1>3, <2>1, <2>2
<1> QED
  BY <1>4, <1>5

LEMMA WholeHolds == UtmpSpec => []Whole
<1>1. UtmpInit => Whole
  <2> SUFFICES ASSUME UtmpInit PROVE Whole
    OBVIOUS
  <2>1. cbuffer.size = 0
    BY DEF UtmpInit, Init, create_cbuffer_t
  <2>2. Bytes = << >>
    BY <2>1 DEF Bytes, Contents
  <2>3. Made(Bytes, 0, [k \in 1 .. 0 |-> utmp[k]])
    BY <2>2, RecordTypes DEF Made
  <2>4. [k \in 1 .. 0 |-> utmp[k]] \in [1 .. 0 -> Records]
    OBVIOUS
  <2>5. \A p \in Procs : ~ Full(p) /\ DOMAIN got[p] = {}
    BY DEF UtmpInit, Full, Succeeded
  <2>6. \E n \in Nat : \E f \in [1 .. n -> Records] : Made(Bytes, n, f)
    <3> WITNESS 0 \in Nat
    <3> QED BY <2>3, <2>4
  <2> QED BY <2>5, <2>6 DEF Whole, RecordsWhole
<1>2. Inv /\ KbuffFilled /\ Clients /\ Whole /\ [UtmpNext]_utmpVars => Whole'
  <2> SUFFICES ASSUME Inv, KbuffFilled, Clients, Whole, [UtmpNext]_utmpVars
               PROVE  Whole'
    OBVIOUS
  <2>1. CASE UNCHANGED utmpVars
    BY <2>1 DEF utmpVars, vars, Whole, RecordsWhole, Full, Succeeded, Bytes
  <2> QED BY <2>1, DriverWhole, ClientWhole DEF UtmpNext
<1> QED
  BY <1>1, <1>2, DriverInvHolds, ClientsHold, PTL DEF UtmpSpec

(* Every record that a receiver prints is one of the file's, whole: writes *)
(* of the driver are atomic and its reads wait for their full length, so   *)
(* no record is cut or mixed with another, whatever the size of a record   *)
(* and of the buffer, however many processes send and receive, with faults *)
(* and signals.                                                            *)
THEOREM RecordsNeverTorn == UtmpSpec => []RecordsWhole
<1>1. Whole => RecordsWhole
  BY DEF Whole
<1> QED
  BY <1>1, WholeHolds, PTL

-----------------------------------------------------------------------------
(***************************************************************************)
(* Delivery between one sender and one receiver.  What the receiver has    *)
(* taken and what the buffer holds is, in order, what the sender has put.  *)
(* Neither gets past its open before the other has come to its own, so     *)
(* nothing is sent before the receiver is counted; and while it is, the    *)
(* buffer is not emptied.                                                  *)
(***************************************************************************)
Opening(p) == at[p] = "start" \/ (call[p] = "open" /\ pc[p] = "down")

Opened(p) ==
  \/ at[p] \in {"loop", "sent", "received", "end", "exit", "close", "abort", "ok"}
  \/ Succeeded(p, "open")

Taken(r) == Len(got[r]) + (IF Full(r) THEN 1 ELSE 0)

(* A read that copy_to_user cut short has lost bytes; it is the last. *)
Reading(r) ==
  /\ at[r] \in {"open", "loop", "received"} /\ fmode[r] # {} /\ ~ Opening(r)
  /\ Succeeded(r, "received") => Full(r)

AtEnd(r) ==
  \/ at[r] \in {"end", "close", "ok"}
  \/ at[r] = "received" /\ pc[r] = "user" /\ ret[r].code = "EOF"

(* The buffer holds the records after the a-th up to the b-th. *)
Queued(bytes, a, b) ==
  a <= b /\ Made(bytes, b - a, [k \in 1 .. b - a |-> utmp[a + k]])

Ordered(r) ==
  /\ Taken(r) <= Len(utmp)
  /\ \A k \in 1 .. Len(got[r]) : got[r][k] = utmp[k]
  /\ Full(r) => ret[r].data = utmp[Len(got[r]) + 1]

Delivered(s, r) ==
  /\ Ordered(r)
  /\ Reading(r) => Queued(Bytes, Taken(r), PutBy(s))
  /\ Opening(r) => /\ Len(Bytes) = 0 /\ Taken(r) = 0 /\ PutBy(s) = 0
                   /\ ~ Opened(s)
  /\ Opened(r) => ~ Opening(s)
  /\ lost["prod"] > 0 => ~ Opening(s)
  /\ lost["cons"] > 0 => ~ Opening(r)
  /\ AtEnd(r) => ~ Opening(s) /\ fmode[s] = {} /\ Taken(r) = PutBy(s)

Pair(s, r) == Sole(s, "send") /\ Sole(r, "receive")

DeliveryInv == \A s, r \in Procs : Pair(s, r) => Delivered(s, r)

(* Whose file it is tells which end it is. *)
LEMMA PairEnds ==
  ASSUME Inv, Clients, NEW s \in Procs, NEW r \in Procs, Pair(s, r)
  PROVE  /\ s # r /\ role[s] = "send" /\ role[r] = "receive"
         /\ fmode[s] # {} => side(s) = "prod"
         /\ fmode[r] # {} => side(r) = "cons"
         /\ \A p \in Procs \ {s, r} : /\ role[p] = "print" /\ fmode[p] = {}
                                      /\ call[p] = "none" /\ pc[p] = "user"
<1>1. s # r /\ role[s] = "send" /\ role[r] = "receive"
  BY DEF Pair, Sole
<1>2. FileOf(s) /\ FileOf(r)
  BY DEF Clients
<1>3. ASSUME NEW p \in Procs \ {s, r}
      PROVE  role[p] = "print" /\ fmode[p] = {} /\ call[p] = "none" /\ pc[p] = "user"
  <2>1. role[p] = "print" /\ FileOf(p) /\ CallOf(p)
    BY DEF Pair, Sole, Clients, Roles
  <2>2. fmode[p] = {}
    BY <2>1 DEF FileOf, CallOf
  <2> QED BY <2>1, <2>2 DEF Inv, InDriver
<1> QED
  BY <1>1, <1>2, <1>3 DEF FileOf, ModeOf, side

(* A counter of ends at zero means that nobody is at that end; above zero, *)
(* somebody is or a release was lost.                                      *)
LEMMA EndsZero ==
  ASSUME Inv, NEW x \in Side
  PROVE  /\ num[x] = 0 => \A p \in Procs : p \notin Ends(x)
         /\ num[x] # 0 => lost[x] > 0 \/ \E p \in Procs : p \in Ends(x)
<1>1. /\ IsFiniteSet(Ends(x)) /\ num[x] = Cardinality(Ends(x)) + lost[x]
      /\ lost[x] \in Nat /\ Cardinality(Ends(x)) \in Nat
  <2>1. IsFiniteSet(Ends(x))
    BY ProcsAssumption, FS_Subset DEF Ends
  <2> QED BY <2>1, FS_CardinalityType DEF Inv, TypeOK, OpenAccounting
<1>2. CASE num[x] = 0
  <2>1. Cardinality(Ends(x)) = 0
    BY <1>1, <1>2
  <2>2. Ends(x) = {}
    BY <1>1, <2>1, FS_EmptySet
  <2> QED BY <1>2, <2>2
<1>3. CASE num[x] # 0
  <2>1. lost[x] > 0 \/ Cardinality(Ends(x)) # 0
    BY <1>1, <1>3
  <2>2. CASE Cardinality(Ends(x)) # 0
    <3>1. Ends(x) # {}
      BY <2>2, FS_EmptySet
    <3>2. Ends(x) \subseteq Procs
      BY DEF Ends
    <3> QED BY <1>3, <3>1, <3>2
  <2> QED BY <1>3, <2>1, <2>2
<1> QED
  BY <1>2, <1>3

LEMMA PairCounts ==
  ASSUME Inv, Clients, NEW s \in Procs, NEW r \in Procs, Pair(s, r),
         lost["prod"] > 0 => ~ Opening(s), lost["cons"] > 0 => ~ Opening(r)
  PROVE  /\ num["prod"] # 0 => ~ Opening(s)
         /\ num["cons"] # 0 => ~ Opening(r)
         /\ num["prod"] = 0 /\ ~ Opening(s) => fmode[s] = {}
         /\ num["cons"] = 0 /\ ~ Opening(r) => fmode[r] = {}
<1>1. "prod" \in Side /\ "cons" \in Side /\ FileOf(s) /\ FileOf(r)
  BY DEF Side, Clients
<1>2. ASSUME NEW p \in {s, r}, ~ Opening(p), fmode[p] # {}
      PROVE  p \in Ends(side(p))
  BY <1>2 DEF Opening, Ends
<1>3. ASSUME NEW x \in Side, NEW p \in Ends(x)
      PROVE  /\ x = "prod" => p = s
             /\ x = "cons" => p = r
             /\ ~ Opening(p)
  <2>1. p \in Procs /\ fmode[p] # {} /\ side(p) = x
        /\ ~ (call[p] = "open" /\ pc[p] = "down")
    BY DEF Ends
  <2>2. p \in {s, r}
    BY <2>1, PairEnds
  <2> QED BY <1>1, <2>1, <2>2, PairEnds DEF Opening, FileOf
<1> QED
  BY <1>1, <1>2, <1>3, EndsZero, PairEnds

-----------------------------------------------------------------------------
(* Steps that leave one of the two as it is. *)
LEMMA SenderSame ==
  ASSUME NEW p \in Procs, Own(p), NEW s \in Procs \ {p}
  PROVE  /\ PutBy(s)' = PutBy(s) /\ (Opening(s)' <=> Opening(s))
         /\ (Opened(s)' <=> Opened(s)) /\ fmode'[s] = fmode[s]
BY DEF Own, PutBy, Opening, Opened, Succeeded

LEMMA ReceiverSame ==
  ASSUME NEW p \in Procs, Own(p), NEW r \in Procs \ {p}
  PROVE  /\ Taken(r)' = Taken(r) /\ (Ordered(r)' <=> Ordered(r))
         /\ (Reading(r)' <=> Reading(r)) /\ (Opening(r)' <=> Opening(r))
         /\ (Opened(r)' <=> Opened(r)) /\ (AtEnd(r)' <=> AtEnd(r))
         /\ fmode'[r] = fmode[r]
<1>1. /\ fmode'[r] = fmode[r] /\ call'[r] = call[r] /\ pc'[r] = pc[r]
      /\ ret'[r] = ret[r] /\ at'[r] = at[r] /\ got'[r] = got[r]
  BY DEF Own
<1>2. /\ Taken(r)' = Taken(r) /\ (Full(r)' <=> Full(r))
      /\ (Opening(r)' <=> Opening(r)) /\ (Opened(r)' <=> Opened(r))
      /\ (AtEnd(r)' <=> AtEnd(r))
  BY <1>1 DEF Taken, Full, Opening, Opened, AtEnd, Succeeded
<1>3. Reading(r)' <=> Reading(r)
  BY <1>1, <1>2 DEF Reading, Succeeded
<1>4. Ordered(r)' <=> Ordered(r)
  BY <1>1, <1>2 DEF Ordered
<1> QED
  BY <1>1, <1>2, <1>3, <1>4

(* A step of the receiver that neither takes bytes nor prints. *)
LEMMA ReceiverMoves ==
  ASSUME NEW r \in Procs, Own(r), NEW s \in Procs \ {r}, Delivered(s, r),
         got'[r] = got[r], ~ Full(r), ~ Full(r)',
         Bytes' = Bytes \/ (~ Reading(r)' /\ ~ Opening(r)'),
         Reading(r)' => Reading(r) \/ Opening(r),
         Opening(r)' => Opening(r),
         Opened(r)' => Opened(r) \/ ~ Opening(s),
         lost'["prod"] > 0 => lost["prod"] > 0,
         lost'["cons"] > 0 => lost["cons"] > 0 \/ ~ Opening(r)',
         AtEnd(r)' => \/ AtEnd(r)
                      \/ ~ Opening(s) /\ fmode[s] = {} /\ Taken(r) = PutBy(s)
  PROVE  Delivered(s, r)'
<1>1. /\ PutBy(s)' = PutBy(s) /\ (Opening(s)' <=> Opening(s))
      /\ (Opened(s)' <=> Opened(s)) /\ fmode'[s] = fmode[s]
  BY SenderSame
<1>2. Taken(r)' = Taken(r)
  BY DEF Taken
<1>3. Ordered(r)'
  <2>1. Ordered(r)
    BY DEF Delivered
  <2> QED BY <1>2, <2>1 DEF Ordered
<1>4. Reading(r)' => Queued(Bytes', Taken(r)', PutBy(s)')
  <2>1. CASE Reading(r)
    BY <1>1, <1>2, <2>1 DEF Delivered
  <2>2. CASE Opening(r)
    <3>1. Len(Bytes) = 0 /\ Taken(r) = 0 /\ PutBy(s) = 0
      BY <2>2 DEF Delivered
    <3>2. Queued(Bytes, 0, 0)
      BY <3>1, RecordTypes DEF Queued, Made
    <3> QED BY <1>1, <1>2, <3>1, <3>2
  <2> QED BY <2>1, <2>2
<1>5. Opening(r)' => /\ Len(Bytes') = 0 /\ Taken(r)' = 0 /\ PutBy(s)' = 0
                     /\ ~ Opened(s)'
  BY <1>1, <1>2 DEF Delivered
<1>6. /\ Opened(r)' => ~ Opening(s)'
      /\ lost'["prod"] > 0 => ~ Opening(s)'
      /\ lost'["cons"] > 0 => ~ Opening(r)'
      /\ AtEnd(r)' => ~ Opening(s)' /\ fmode'[s] = {} /\ Taken(r)' = PutBy(s)'
  BY <1>1, <1>2 DEF Delivered
<1> QED
  BY <1>3, <1>4, <1>5, <1>6 DEF Delivered

(* A step of the sender that puts nothing. *)
LEMMA SenderMoves ==
  ASSUME NEW s \in Procs, Own(s), NEW r \in Procs \ {s}, Delivered(s, r),
         PutBy(s)' = PutBy(s),
         Bytes' = Bytes \/ (Len(Bytes') = 0 /\ ~ Reading(r)),
         Opening(s)' => Opening(s),
         Opened(s)' => Opened(s) \/ ~ Opening(r),
         fmode[s] = {} /\ ~ Opening(s) => fmode'[s] = {},
         lost'["prod"] > 0 => lost["prod"] > 0 \/ ~ Opening(s)',
         lost'["cons"] > 0 => lost["cons"] > 0
  PROVE  Delivered(s, r)'
<1>1. /\ Taken(r)' = Taken(r) /\ (Ordered(r)' <=> Ordered(r))
      /\ (Reading(r)' <=> Reading(r)) /\ (Opening(r)' <=> Opening(r))
      /\ (Opened(r)' <=> Opened(r)) /\ (AtEnd(r)' <=> AtEnd(r))
  BY ReceiverSame
<1>2. /\ Ordered(r)'
      /\ Reading(r)' => Queued(Bytes', Taken(r)', PutBy(s)')
  BY <1>1 DEF Delivered
<1>3. Opening(r)' => /\ Len(Bytes') = 0 /\ Taken(r)' = 0 /\ PutBy(s)' = 0
                     /\ ~ Opened(s)'
  BY <1>1 DEF Delivered
<1>4. /\ Opened(r)' => ~ Opening(s)'
      /\ lost'["prod"] > 0 => ~ Opening(s)'
      /\ lost'["cons"] > 0 => ~ Opening(r)'
      /\ AtEnd(r)' => ~ Opening(s)' /\ fmode'[s] = {} /\ Taken(r)' = PutBy(s)'
  BY <1>1 DEF Delivered
<1> QED
  BY <1>2, <1>3, <1>4 DEF Delivered

-----------------------------------------------------------------------------
LEMMA TakenType ==
  ASSUME Clients, NEW r \in Procs
  PROVE  Taken(r) \in Nat /\ Len(got[r]) \in Nat
<1>1. got[r] \in Seq(Seq(Byte))
  BY DEF Clients
<1>2. Len(got[r]) \in Nat
  BY <1>1, LenProperties
<1>3. CASE Full(r)
  BY <1>2, <1>3 DEF Taken
<1>4. CASE ~ Full(r)
  BY <1>2, <1>4 DEF Taken
<1> QED
  BY <1>2, <1>3, <1>4

(* The receiver inside a system call. *)
LEMMA ReceiverTakes ==
  ASSUME Inv, Clients, NEW r \in Procs, Own(r), NEW s \in Procs \ {r},
         Delivered(s, r), Takes(r), UNCHANGED <<at, i, got>>
  PROVE  Delivered(s, r)'
<1> DEFINE a == Taken(r)
           b == PutBy(s)
           n == b - a
           f == [k \in 1 .. b - a |-> utmp[a + k]]
<1>1. /\ call[r] = "read" /\ length[r] = utmp_size /\ at[r] = "received"
      /\ utmp_size <= Len(Bytes)
  BY DEF Takes, Clients, CallOf
<1>2. PICK k \in 0 .. utmp_size : Back(r, "OK", SubSeq(Bytes, 1, utmp_size - k))
  BY <1>1 DEF Takes
<1>3. /\ pc[r] # "user" /\ pc'[r] = "user" /\ fmode[r] # {}
      /\ call'[r] = "none" /\ ret'[r].code = "OK"
      /\ ret'[r].data = SubSeq(Bytes, 1, utmp_size - k)
  <2> DEFINE d == SubSeq(Bytes, 1, utmp_size - k)
  <2> HIDE DEF d
  <2>1. Back(r, "OK", d)
    BY <1>2 DEF d
  <2>2. /\ pc[r] # "user" /\ pc'[r] = "user" /\ fmode[r] # {}
        /\ call'[r] = "none" /\ ret'[r].code = "OK" /\ ret'[r].data = d
    BY <2>1, BackOwn
  <2> QED BY <2>2 DEF d
<1>4. /\ ~ Full(r) /\ a = Len(got[r]) /\ Reading(r) /\ a \in Nat
      /\ Queued(Bytes, a, b)
  <2>1. ~ Full(r) /\ a = Len(got[r]) /\ got[r] \in Seq(Seq(Byte))
    BY <1>3 DEF Full, Succeeded, Taken, Clients
  <2>2. Reading(r)
    BY <1>1, <1>3 DEF Reading, Opening, Succeeded
  <2> QED BY <2>1, <2>2, LenProperties DEF Delivered
<1>5. b \in 0 .. Len(utmp) /\ a <= b /\ Len(utmp) \in Nat
  <2>1. i[s] \in 0 .. Len(utmp) /\ (at[s] = "sent" => i[s] < Len(utmp))
    BY DEF Clients, CallOf
  <2>2. b \in 0 .. Len(utmp)
    BY <2>1, RecordTypes DEF PutBy
  <2> QED BY <1>4, <2>2, RecordTypes DEF Queued
<1> HIDE DEF a, b
<1>6. n \in Nat /\ Made(Bytes, n, f)
      /\ \A j \in 1 .. n : f[j] = utmp[a + j] /\ f[j] \in Record
  <2>1. n \in Nat /\ \A j \in 1 .. n : a + j \in 1 .. Len(utmp)
    BY <1>4, <1>5
  <2> QED BY <1>4, <2>1, RecordTypes DEF Queued
<1> HIDE DEF f
<1>7. /\ n # 0 /\ SubSeq(Bytes, 1, utmp_size) = f[1]
      /\ \A g : (\A j \in 1 .. n - 1 : g[j] = f[j + 1])
                  => Made(SubSeq(Bytes, utmp_size + 1, Len(Bytes)), n - 1, g)
  <2> HIDE DEF n
  <2> QED BY <1>1, <1>6, BytesType, MadeTake
<1>8. f[1] = utmp[a + 1] /\ a + 1 <= b /\ a + 1 \in 1 .. Len(utmp)
  BY <1>4, <1>5, <1>6, <1>7
<1>9. Full(r)' <=> k = 0
  <2>1. utmp_size - k \in 0 .. Len(Bytes) /\ utmp_size \in Nat
    BY <1>1, RecordTypes, BytesType, LenProperties
  <2>2. Len(ret'[r].data) = utmp_size - k
    BY <1>3, <2>1, BytesType, SliceFromOne
  <2> QED BY <1>1, <1>3, <2>1, <2>2 DEF Full, Succeeded
<1>10. Taken(r)' = IF Full(r)' THEN a + 1 ELSE a
  <2>1. CASE Full(r)'
    BY <1>4, <2>1 DEF Taken
  <2>2. CASE ~ Full(r)'
    BY <1>4, <2>2 DEF Taken
  <2> QED BY <2>1, <2>2
<1>11. Ordered(r)'
  <2>1. Full(r)' => ret'[r].data = utmp[a + 1]
    <3>1. utmp_size - 0 = utmp_size
      BY RecordTypes
    <3> QED BY <1>3, <1>7, <1>8, <1>9, <3>1
  <2>2. Taken(r)' <= Len(utmp)
    BY <1>4, <1>5, <1>8, <1>10
  <2>3. \A j \in 1 .. Len(got[r]) : got[r][j] = utmp[j]
    BY DEF Delivered, Ordered
  <2> QED BY <1>4, <2>1, <2>2, <2>3 DEF Ordered
<1>12. Reading(r)' => Queued(Bytes', Taken(r)', PutBy(s)')
  <2> SUFFICES ASSUME Reading(r)' PROVE Queued(Bytes', Taken(r)', PutBy(s)')
    OBVIOUS
  <2>1. Taken(r)' = a + 1 /\ PutBy(s)' = b
    BY <1>1, <1>3, <1>10, SenderSame DEF Reading, Succeeded, b
  <2> DEFINE c == a + 1
             g == [j \in 1 .. b - c |-> utmp[c + j]]
  <2>2. /\ b - c = n - 1
        /\ \A j \in 1 .. b - c : /\ j \in Nat /\ j + 1 \in 1 .. n
                               /\ c + j = a + (j + 1)
    <3>1. a \in Nat /\ b \in Nat
      BY <1>4, <1>5
    <3>2. b - c = n - 1
      BY <3>1
    <3> QED BY <3>1
  <2>3. \A j \in 1 .. n - 1 : g[j] = f[j + 1]
    <3> HIDE DEF c, n
    <3> QED BY <1>6, <2>2
  <2>4. Made(SubSeq(Bytes, utmp_size + 1, Len(Bytes)), n - 1, g)
    <3> HIDE DEF g, n
    <3> QED BY <1>7, <2>3
  <2>5. Bytes' = SubSeq(Bytes, utmp_size + 1, Len(Bytes))
    BY <1>1 DEF Takes
  <2>6. Made(Bytes', b - c, g)
    <3> HIDE DEF g, c, n
    <3> QED BY <2>2, <2>4, <2>5
  <2>7. Queued(Bytes', c, b)
    BY <1>8, <2>6 DEF Queued
  <2> QED BY <2>1, <2>7
<1>13. /\ ~ Opening(r)' /\ ~ AtEnd(r)' /\ (Opened(r)' <=> Opened(r))
       /\ (Opening(s)' <=> Opening(s)) /\ UNCHANGED lost
  BY <1>1, <1>3, SenderSame DEF Opening, AtEnd, Opened, Takes
<1> QED
  BY <1>11, <1>12, <1>13 DEF Delivered

LEMMA ReceiverInCall ==
  ASSUME Inv, KbuffFilled, Clients, NEW s \in Procs, NEW r \in Procs,
         Pair(s, r), Delivered(s, r), Driver(r)
  PROVE  Delivered(s, r)'
<1>1. /\ UNCHANGED <<at, i, got>> /\ Own(r) /\ s # r
      /\ FileOf(r) /\ CallOf(r) /\ Labelled(r)
      /\ role[r] = "receive"
      /\ (pc[r] = "user" <=> call[r] = "none")
      /\ (call[r] # "none" => side(r) = "cons" /\ at[r] # "start")
  BY OwnStep, PairEnds DEF Driver, Clients, CallOf, FileOf, Inv, InDriver
<1>2. pc[r] # "user" => ~ Full(r) /\ ~ Succeeded(r, "open")
  BY DEF Full, Succeeded
<1>3. CASE Stays(r)
  <2>1. /\ pc[r] # "user" /\ pc'[r] # "user" /\ (pc'[r] = "down" => pc[r] = "down")
        /\ UNCHANGED <<call, ret, fmode, lost>> /\ Bytes' = Bytes
    BY <1>3, StaysOwn DEF Stays, Bytes
  <2>2. /\ ~ Full(r)' /\ (Opening(r)' => Opening(r)) /\ (Opened(r)' => Opened(r))
        /\ (AtEnd(r)' => AtEnd(r)) /\ (Reading(r)' => Reading(r) \/ Opening(r))
    BY <1>1, <1>2, <2>1 DEF Full, Opening, Opened, AtEnd, Reading, Succeeded
  <2> QED BY <1>1, <1>2, <2>1, <2>2, ReceiverMoves
<1>4. CASE Fails(r)
  <2>1. /\ pc[r] # "user" /\ pc'[r] = "user" /\ call[r] # "none"
        /\ call'[r] = "none" /\ ret'[r].code \in {"EINTR", "EPIPE"}
        /\ (call[r] \in {"open", "release"} => fmode'[r] = {})
        /\ (call[r] \notin {"open", "release"} => fmode'[r] = fmode[r])
        /\ Bytes' = Bytes
    BY <1>4, BackOwn DEF Fails, Bytes
  <2>2. lost'["prod"] = lost["prod"]
    BY <1>1, <1>4, <2>1 DEF Fails, Side
  <2>3. /\ ~ Full(r)' /\ ~ Opening(r)' /\ (Opened(r)' => Opened(r))
        /\ (AtEnd(r)' => AtEnd(r)) /\ (Reading(r)' => Reading(r))
    BY <1>1, <1>2, <2>1 DEF Full, Opening, Opened, AtEnd, Reading, Succeeded,
       CallOf
  <2> QED BY <1>1, <1>2, <2>1, <2>2, <2>3, ReceiverMoves
<1>5. CASE Opens(r)
  <2>1. /\ pc[r] # "user" /\ pc'[r] = "user" /\ call[r] = "open"
        /\ call'[r] = "none" /\ at[r] = "open" /\ fmode'[r] = fmode[r]
        /\ Bytes' = Bytes /\ UNCHANGED lost /\ num["prod"] # 0
    BY <1>1, <1>5, BackOwn DEF Opens, Bytes, CallOf, other
  <2>2. ~ Opening(s)
    BY <2>1, PairCounts DEF Delivered
  <2>3. /\ ~ Full(r)' /\ ~ Opening(r)' /\ ~ AtEnd(r)'
        /\ (Reading(r)' => Reading(r) \/ Opening(r))
    BY <1>1, <2>1 DEF Full, Opening, AtEnd, Reading, Succeeded
  <2> QED BY <1>1, <1>2, <2>1, <2>2, <2>3, ReceiverMoves
<1>6. CASE Closes(r)
  <2>1. /\ pc[r] # "user" /\ pc'[r] = "user" /\ call[r] = "release"
        /\ call'[r] = "none" /\ at[r] \in {"close", "abort"} /\ UNCHANGED lost
    BY <1>1, <1>6, BackOwn DEF Closes, CallOf
  <2>2. /\ ~ Full(r)' /\ ~ Opening(r)' /\ ~ Reading(r)'
        /\ (Opened(r)' => Opened(r)) /\ (AtEnd(r)' => AtEnd(r))
    BY <1>1, <2>1 DEF Full, Opening, Opened, AtEnd, Reading, Succeeded
  <2> QED BY <1>1, <1>2, <2>1, <2>2, ReceiverMoves
<1>7. CASE FindsEnd(r)
  <2>1. /\ pc[r] # "user" /\ pc'[r] = "user" /\ call[r] = "read"
        /\ call'[r] = "none" /\ at[r] = "received" /\ ret'[r].code = "EOF"
        /\ fmode'[r] = fmode[r] /\ fmode[r] # {}
        /\ Bytes' = Bytes /\ UNCHANGED lost /\ num["prod"] = 0 /\ Len(Bytes) = 0
    BY <1>1, <1>7, BackOwn DEF FindsEnd, Bytes, CallOf
  <2>2. /\ ~ Full(r)' /\ ~ Opening(r)' /\ (Opened(r)' => Opened(r))
        /\ Reading(r) /\ Opened(r)
    BY <1>1, <2>1 DEF Full, Opening, Opened, Reading, Succeeded
  <2>3. ~ Opening(s) /\ fmode[s] = {}
    BY <2>1, <2>2, PairCounts DEF Delivered
  <2>4. Taken(r) = PutBy(s)
    <3> DEFINE a == Taken(r)
               b == PutBy(s)
               n == b - a
    <3>1. a <= b /\ Len(Bytes) = n * utmp_size
      BY <2>2 DEF Delivered, Queued, Made
    <3>2. a \in Nat /\ b \in Nat
      <4>1. i[s] \in Nat
        BY RecordTypes DEF Clients
      <4>2. b \in Nat
        BY <4>1 DEF PutBy
      <4> QED BY <4>2, TakenType
    <3> HIDE DEF a, b
    <3>3. n \in Nat
      BY <3>1, <3>2
    <3>4. n = 0
      <4> HIDE DEF n
      <4> QED BY <2>1, <3>1, <3>3, RecordTypes, Offsets
    <3>5. a = b
      BY <3>2, <3>4
    <3> QED BY <3>5 DEF a, b
  <2> QED BY <1>1, <1>2, <2>1, <2>2, <2>3, <2>4, ReceiverMoves
<1>8. CASE Takes(r)
  BY <1>1, <1>8, ReceiverTakes
<1>9. ~ Puts(r)
  BY <1>1 DEF Puts, CallOf
<1> QED
  BY <1>1, <1>3, <1>4, <1>5, <1>6, <1>7, <1>8, <1>9, DriverOutcomes

(* The sender inside a system call. *)
LEMMA SenderPuts ==
  ASSUME Inv, Clients, NEW s \in Procs, Own(s), NEW r \in Procs \ {s},
         Delivered(s, r), Puts(s), UNCHANGED <<at, i, got>>
  PROVE  Delivered(s, r)'
<1> DEFINE a == Taken(r)
           b == PutBy(s)
           n == b - a
           c == b + 1
           f == [k \in 1 .. b - a |-> utmp[a + k]]
           g == [k \in 1 .. c - a |-> utmp[a + k]]
<1>1. /\ call[s] = "write" /\ at[s] = "sent" /\ pc[s] # "user" /\ fmode[s] # {}
      /\ kbuff[s] = utmp[i[s] + 1] /\ i[s] < Len(utmp) /\ i[s] \in Nat
      /\ pc'[s] = "user" /\ ret'[s].code = "OK" /\ call'[s] = "none"
      /\ fmode'[s] = fmode[s] /\ UNCHANGED lost /\ Bytes' = Bytes \o kbuff[s]
  BY BackOwn, RecordTypes DEF Puts, Clients, CallOf
<1>2. b = i[s] /\ PutBy(s)' = c
  BY <1>1 DEF PutBy
<1>3. /\ Taken(r)' = a /\ (Ordered(r)' <=> Ordered(r))
      /\ (Reading(r)' <=> Reading(r)) /\ (Opening(r)' <=> Opening(r))
      /\ (Opened(r)' <=> Opened(r)) /\ (AtEnd(r)' <=> AtEnd(r))
  BY ReceiverSame
<1>4. /\ Opened(s) /\ ~ Opening(r) /\ ~ AtEnd(r) /\ ~ Opening(s)'
  BY <1>1 DEF Opened, Opening, Delivered
<1>5. Reading(r) => Queued(Bytes', a, c)
  <2> SUFFICES ASSUME Reading(r) PROVE Queued(Bytes', a, c)
    OBVIOUS
  <2>1. Queued(Bytes, a, b)
    BY DEF Delivered
  <2>2. /\ a \in Nat /\ b \in Nat /\ a <= b /\ b + 1 \in 1 .. Len(utmp)
        /\ kbuff[s] = utmp[b + 1]
    <3>1. a \in Nat /\ a <= b
      BY <2>1, TakenType DEF Queued
    <3> HIDE DEF a, b
    <3> QED BY <1>1, <1>2, <3>1, RecordTypes
  <2> HIDE DEF a, b
  <2>3. /\ n \in Nat /\ n + 1 = c - a /\ a + (n + 1) = b + 1 /\ a <= c
        /\ n + 1 \in 1 .. c - a /\ \A k \in 1 .. n : k \in 1 .. c - a
    <3>1. a \in Nat /\ b \in Nat /\ a <= b
      BY <2>2
    <3>2. n \in Nat /\ n + 1 = c - a /\ a + (n + 1) = b + 1 /\ a <= c
      BY <3>1
    <3> HIDE DEF n, c
    <3> QED BY <3>2
  <2>4. Made(Bytes, n, f) /\ \A k \in 1 .. n : f[k] = utmp[a + k]
    BY <2>1 DEF Queued
  <2>5. (\A k \in 1 .. n : g[k] = f[k]) /\ g[n + 1] = kbuff[s]
    <3> HIDE DEF n, c, f
    <3> QED BY <2>2, <2>3, <2>4
  <2>6. kbuff[s] \in Record
    BY <2>2, RecordTypes
  <2>7. Made(Bytes \o kbuff[s], n + 1, g)
    <3> HIDE DEF n, f, g
    <3> QED BY <2>3, <2>4, <2>5, <2>6, BytesType, MadeAppend
  <2>8. Made(Bytes', c - a, g)
    <3> HIDE DEF n, g
    <3> QED BY <1>1, <2>3, <2>7
  <2> QED BY <2>3, <2>8 DEF Queued
<1> QED
  BY <1>1, <1>2, <1>3, <1>4, <1>5 DEF Delivered

LEMMA SenderInCall ==
  ASSUME Inv, Inv', KbuffFilled, Clients, NEW s \in Procs, NEW r \in Procs,
         Pair(s, r), Delivered(s, r), Driver(s)
  PROVE  Delivered(s, r)'
<1>1. /\ UNCHANGED <<at, i, got>> /\ Own(s) /\ s # r
      /\ FileOf(s) /\ CallOf(s) /\ Labelled(s)
      /\ role[s] = "send"
      /\ (call[s] # "none" => side(s) = "prod" /\ at[s] # "start")
  <2>1. /\ UNCHANGED <<at, i, got>> /\ Own(s) /\ s # r
        /\ FileOf(s) /\ CallOf(s) /\ Labelled(s)
        /\ role[s] = "send"
    BY OwnStep, PairEnds DEF Driver, Clients, CallOf
  <2>2. call[s] # "none" => fmode[s] # {} /\ call[s] \in Calls
    BY DEF Inv, InDriver, TypeOK
  <2>3. call[s] # "none" => side(s) = "prod"
    BY <2>2, PairEnds
  <2>4. call[s] # "none" => at[s] # "start"
    BY <2>1, <2>2 DEF CallOf, Calls
  <2> QED BY <2>1, <2>3, <2>4
<1>2. CASE Stays(s)
  <2>1. /\ pc[s] # "user" /\ pc'[s] # "user" /\ (pc'[s] = "down" => pc[s] = "down")
        /\ UNCHANGED <<call, ret, fmode, lost>> /\ Bytes' = Bytes
    BY <1>2, StaysOwn DEF Stays, Bytes
  <2>2. /\ PutBy(s)' = PutBy(s) /\ (Opening(s)' => Opening(s))
        /\ (Opened(s)' => Opened(s))
    BY <1>1, <2>1 DEF PutBy, Opening, Opened, Succeeded
  <2> QED BY <1>1, <2>1, <2>2, SenderMoves
<1>3. CASE Fails(s)
  <2>1. /\ pc[s] # "user" /\ pc'[s] = "user" /\ call[s] # "none"
        /\ call'[s] = "none" /\ ret'[s].code \in {"EINTR", "EPIPE"}
        /\ fmode[s] # {} /\ Bytes' = Bytes
    BY <1>3, BackOwn DEF Fails, Bytes
  <2>2. lost'["cons"] = lost["cons"]
    BY <1>1, <1>3, <2>1 DEF Fails, Side
  <2>3. /\ PutBy(s)' = PutBy(s) /\ ~ Opening(s)' /\ (Opened(s)' => Opened(s))
    BY <1>1, <2>1 DEF PutBy, Opening, Opened, Succeeded
  <2> QED BY <1>1, <2>1, <2>2, <2>3, SenderMoves
<1>4. CASE Opens(s)
  <2>1. /\ pc[s] # "user" /\ pc'[s] = "user" /\ call[s] = "open"
        /\ call'[s] = "none" /\ at[s] = "open" /\ fmode'[s] = fmode[s]
        /\ Bytes' = Bytes /\ UNCHANGED lost /\ num["cons"] # 0
    BY <1>1, <1>4, BackOwn DEF Opens, Bytes, CallOf, other
  <2>2. ~ Opening(r)
    BY <2>1, PairCounts DEF Delivered
  <2>3. PutBy(s)' = PutBy(s) /\ ~ Opening(s)'
    BY <1>1, <2>1 DEF PutBy, Opening
  <2> QED BY <1>1, <2>1, <2>2, <2>3, SenderMoves
<1>5. CASE Closes(s)
  <2>1. /\ pc[s] # "user" /\ pc'[s] = "user" /\ call[s] = "release"
        /\ call'[s] = "none" /\ at[s] \in {"close", "abort"} /\ UNCHANGED lost
        /\ fmode'[s] = {}
    BY <1>1, <1>5, BackOwn DEF Closes, CallOf
  <2>2. /\ PutBy(s)' = PutBy(s) /\ ~ Opening(s)' /\ (Opened(s)' => Opened(s))
    BY <1>1, <2>1 DEF PutBy, Opening, Opened, Succeeded
  <2>3. Bytes' = Bytes \/ (Len(Bytes') = 0 /\ ~ Reading(r))
    <3>1. CASE Unused(num') /\ Bytes' = << >>
      <4>1. r \notin Ends("cons")'
        <5>1. num'["cons"] = 0 /\ "cons" \in Side
          BY <3>1 DEF Unused, Side
        <5>2. /\ num'["cons"] = Cardinality(Ends("cons")') + lost'["cons"]
              /\ lost'["cons"] \in Nat
          BY <5>1 DEF Inv, TypeOK, OpenAccounting
        <5>3. IsFiniteSet(Ends("cons")')
          BY ProcsAssumption, FS_Subset DEF Ends
        <5>4. Cardinality(Ends("cons")') \in Nat
          BY <5>3, FS_CardinalityType
        <5>5. Cardinality(Ends("cons")') = 0
          BY <5>1, <5>2, <5>4
        <5>6. Ends("cons")' = {}
          BY <5>3, <5>5, FS_EmptySet
        <5> QED BY <5>6
      <4>2. /\ fmode'[r] = fmode[r] /\ call'[r] = call[r] /\ pc'[r] = pc[r]
        BY <1>1 DEF Own
      <4>3. Reading(r) => side(r) = "cons" /\ fmode[r] # {} /\ ~ Opening(r)
        BY PairEnds DEF Reading
      <4>4. ~ Reading(r)
        BY <4>1, <4>2, <4>3 DEF Ends, Opening, side
      <4> QED BY <3>1, <4>4
    <3> QED BY <1>5, <3>1, ClosesBytes
  <2> QED BY <1>1, <2>1, <2>2, <2>3, SenderMoves
<1>6. CASE Puts(s)
  BY <1>1, <1>6, SenderPuts
<1>7. ~ FindsEnd(s) /\ ~ Takes(s)
  BY <1>1 DEF FindsEnd, Takes, CallOf
<1> QED
  BY <1>1, <1>2, <1>3, <1>4, <1>5, <1>6, <1>7, DriverOutcomes

-----------------------------------------------------------------------------
(* The two outside the driver. *)
LEMMA ClientFrame ==
  ASSUME Inv, Clients, NEW p \in Procs, Client(p)
  PROVE  /\ Own(p) /\ CallOf(p) /\ Bytes' = Bytes /\ UNCHANGED lost
         /\ pc[p] = "user" /\ call[p] = "none" /\ at \in [Procs -> Stages]
         /\ call \in [Procs -> Calls] /\ pc \in [Procs -> PC]
         /\ fmode \in [Procs -> SUBSET FMode]
         /\ ret \in [Procs -> [code : Codes, data : Seq(Byte)]]
<1>1. UNCHANGED <<cbuffer, lost>>
  BY DEF Client, ReadUtmpFails, PrintEntries, OpenFifo, OpenChecked, Send,
     SendChecked, SendDone, Receive, ReceiveChecked, CloseFifo, Exit, Quiet,
     vars, OpenCall, WriteCall, ReadCall, ReleaseCall
<1>2. CallOf(p) /\ (pc[p] = "user" <=> call[p] = "none")
  BY DEF Clients, Inv, InDriver
<1>3. pc[p] = "user"
  <2>1. CASE at[p] = "start"
    BY <1>2, <2>1 DEF CallOf, Inv, TypeOK, Calls
  <2>2. CASE at[p] # "start"
    BY <2>2 DEF Client, ReadUtmpFails, PrintEntries, OpenFifo, OpenChecked,
       Send, SendChecked, SendDone, Receive, ReceiveChecked, CloseFifo, Exit,
       Returned
  <2> QED BY <2>1, <2>2
<1> QED
  BY <1>1, <1>2, <1>3, OwnStep DEF Bytes, Clients, Inv, TypeOK

LEMMA ReceiverPrints ==
  ASSUME Inv, Clients, NEW r \in Procs, NEW s \in Procs \ {r}, Own(r),
         Delivered(s, r), ReceiveChecked(r), Full(r),
         Bytes' = Bytes, UNCHANGED lost
  PROVE  Delivered(s, r)'
<1> DEFINE n == Len(got[r])
<1>1. /\ at[r] = "received" /\ pc[r] = "user" /\ ret[r].code = "OK"
      /\ Len(ret[r].data) = utmp_size /\ UNCHANGED <<pc, call, fmode, ret>>
  BY DEF Full, Succeeded, ReceiveChecked, Quiet, vars
<1>2. /\ at'[r] = "loop" /\ got'[r] = Append(got[r], ret[r].data)
  BY <1>1 DEF ReceiveChecked, Step, Clients
<1>3. /\ n \in Nat /\ Len(got'[r]) = n + 1 /\ got'[r][n + 1] = ret[r].data
      /\ \A k \in 1 .. n : got'[r][k] = got[r][k]
  <2>1. got[r] \in Seq(Seq(Byte)) /\ ret[r].data \in Seq(Byte)
    BY DEF Clients, Inv, TypeOK
  <2> QED BY <1>2, <2>1, AppendProperties, LenProperties
<1>4. ~ Full(r)' /\ ~ Opening(r)' /\ ~ AtEnd(r)' /\ Opened(r) /\ Reading(r)' = Reading(r)
  <2>1. ~ Full(r)' /\ ~ AtEnd(r)' /\ Opened(r)
    BY <1>1, <1>2 DEF Full, AtEnd, Opened, Succeeded
  <2>2. call[r] = "none"
    BY <1>1 DEF Inv, InDriver
  <2>3. ~ Opening(r) /\ ~ Opening(r)'
    BY <1>1, <1>2, <2>2 DEF Opening
  <2>4. Reading(r) <=> fmode[r] # {}
    BY <1>1, <2>3 DEF Reading
  <2>5. Reading(r)' <=> fmode'[r] # {}
    BY <1>2, <2>3 DEF Reading, Succeeded
  <2> QED BY <1>1, <2>1, <2>3, <2>4, <2>5 DEF Reading
<1>5. Taken(r)' = Taken(r) /\ Taken(r) = n + 1
  BY <1>3, <1>4 DEF Taken
<1>6. Ordered(r)'
  <2>1. /\ n + 1 <= Len(utmp) /\ ret[r].data = utmp[n + 1]
        /\ \A k \in 1 .. n : got[r][k] = utmp[k]
    BY <1>5 DEF Delivered, Ordered
  <2>2. ASSUME NEW k \in 1 .. n + 1 PROVE got'[r][k] = utmp[k]
    <3>1. CASE k \in 1 .. n
      BY <1>3, <2>1, <3>1
    <3>2. CASE k = n + 1
      BY <1>3, <2>1, <3>2
    <3> QED BY <1>3, <3>1, <3>2
  <2> QED BY <1>3, <1>4, <1>5, <2>1, <2>2 DEF Ordered
<1>7. /\ PutBy(s)' = PutBy(s) /\ (Opening(s)' <=> Opening(s))
  BY SenderSame
<1> QED
  BY <1>4, <1>5, <1>6, <1>7 DEF Delivered

LEMMA ReceiverOutside ==
  ASSUME Inv, Clients, NEW s \in Procs, NEW r \in Procs,
         Pair(s, r), Delivered(s, r), Client(r)
  PROVE  Delivered(s, r)'
<1>1. role[r] = "receive" /\ s # r
  BY PairEnds
<1>2. /\ Own(r) /\ CallOf(r) /\ Bytes' = Bytes /\ UNCHANGED lost
      /\ pc[r] = "user" /\ call[r] = "none" /\ at \in [Procs -> Stages]
      /\ call \in [Procs -> Calls] /\ pc \in [Procs -> PC]
      /\ fmode \in [Procs -> SUBSET FMode]
      /\ ret \in [Procs -> [code : Codes, data : Seq(Byte)]]
  BY ClientFrame
<1>3. ASSUME ~ Full(r), ~ Full(r)', got'[r] = got[r],
             Reading(r)' => Reading(r), Opening(r)' => Opening(r),
             Opened(r)' => Opened(r), AtEnd(r)' => AtEnd(r)
      PROVE  Delivered(s, r)'
  <2>1. lost'["cons"] > 0 => lost["cons"] > 0
    BY <1>2
  <2>2. AtEnd(r) => ~ Opening(s) /\ fmode[s] = {} /\ Taken(r) = PutBy(s)
    BY DEF Delivered
  <2> QED BY <1>1, <1>2, <1>3, <2>1, <2>2, ReceiverMoves
<1>4. CASE OpenFifo(r)
  <2>1. /\ at[r] = "start" /\ at'[r] = "open" /\ pc'[r] = "down"
        /\ got'[r] = got[r] /\ call'[r] = "open"
    BY <1>2, <1>4 DEF OpenFifo, OpenCall, Enter, Step
  <2> QED
    BY <1>3, <2>1 DEF Full, Succeeded, Reading, Opening, Opened, AtEnd
<1>5. CASE OpenChecked(r)
  <2>1. /\ at[r] = "open" /\ got'[r] = got[r]
        /\ at'[r] = IF ret[r].code = "OK" THEN "loop" ELSE "failed"
        /\ UNCHANGED <<pc, call, fmode, ret>>
    BY <1>2, <1>5 DEF OpenChecked, Returned, Step, Quiet, vars
  <2> QED
    BY <1>2, <1>3, <2>1 DEF Full, Succeeded, Reading, Opening, Opened, AtEnd
<1>6. CASE Receive(r)
  <2>1. /\ at[r] = "loop" /\ got'[r] = got[r] /\ at'[r] = "received"
        /\ UNCHANGED fmode /\ call'[r] \in {"none", "read"}
        /\ ret'[r].code \notin {"OK", "EOF"}
    BY <1>2, <1>6 DEF Receive, Returned, ReadCall, Enter, Return, Result, Step
  <2> QED
    BY <1>2, <1>3, <2>1 DEF Full, Succeeded, Reading, Opening, Opened, AtEnd
<1>7. CASE ReceiveChecked(r)
  <2>1. CASE Full(r)
    BY <1>1, <1>2, <1>7, <2>1, ReceiverPrints
  <2>2. CASE ~ Full(r)
    <3>1. /\ at[r] = "received" /\ got'[r] = got[r]
          /\ at'[r] = IF ret[r].code = "EOF" THEN "end" ELSE "exit"
          /\ UNCHANGED <<pc, call, fmode, ret>>
      BY <1>2, <1>7, <2>2 DEF ReceiveChecked, Returned, Step, Quiet, vars,
         Full, Succeeded
    <3> QED
      BY <1>2, <1>3, <2>2, <3>1
         DEF Full, Succeeded, Reading, Opening, Opened, AtEnd
  <2> QED BY <2>1, <2>2
<1>8. CASE CloseFifo(r)
  <2>1. /\ at[r] \in {"end", "exit"} /\ got'[r] = got[r] /\ call'[r] = "release"
        /\ at'[r] = IF at[r] = "end" THEN "close" ELSE "abort"
    BY <1>2, <1>8 DEF CloseFifo, Returned, Step, ReleaseCall, Enter
  <2> QED
    BY <1>2, <1>3, <2>1 DEF Full, Succeeded, Reading, Opening, Opened, AtEnd
<1>9. CASE Exit(r)
  <2>1. /\ at[r] \in {"close", "abort"} /\ got'[r] = got[r]
        /\ at'[r] = IF at[r] = "close" THEN "ok" ELSE "failed"
        /\ UNCHANGED <<pc, call, fmode, ret>>
    BY <1>2, <1>9 DEF Exit, Returned, Step, Quiet, vars
  <2> QED
    BY <1>2, <1>3, <2>1 DEF Full, Succeeded, Reading, Opening, Opened, AtEnd
<1>10. ~ (ReadUtmpFails(r) \/ PrintEntries(r) \/ Send(r) \/ SendChecked(r)
            \/ SendDone(r))
  BY <1>1, <1>2 DEF ReadUtmpFails, PrintEntries, Send, SendChecked, SendDone,
     Returned, CallOf
<1> QED
  BY <1>4, <1>5, <1>6, <1>7, <1>8, <1>9, <1>10 DEF Client

LEMMA SenderOutside ==
  ASSUME Inv, Clients, NEW s \in Procs, NEW r \in Procs,
         Pair(s, r), Delivered(s, r), Client(s)
  PROVE  Delivered(s, r)'
<1>1. role[s] = "send" /\ s # r
  BY PairEnds
<1>2. /\ Own(s) /\ CallOf(s) /\ Bytes' = Bytes /\ UNCHANGED lost
      /\ pc[s] = "user" /\ call[s] = "none" /\ at \in [Procs -> Stages]
      /\ call \in [Procs -> Calls] /\ pc \in [Procs -> PC]
      /\ fmode \in [Procs -> SUBSET FMode]
      /\ ret \in [Procs -> [code : Codes, data : Seq(Byte)]]
  BY ClientFrame
<1>3. ASSUME PutBy(s)' = PutBy(s), Opening(s)' => Opening(s),
             Opened(s)' => Opened(s),
             fmode[s] = {} /\ ~ Opening(s) => fmode'[s] = {}
      PROVE  Delivered(s, r)'
  <2>1. /\ lost'["prod"] > 0 => lost["prod"] > 0
        /\ lost'["cons"] > 0 => lost["cons"] > 0
    BY <1>2
  <2> QED BY <1>1, <1>2, <1>3, <2>1, SenderMoves
<1>4. CASE OpenFifo(s)
  <2>1. /\ at[s] = "start" /\ at'[s] = "open" /\ pc'[s] = "down"
        /\ UNCHANGED i
    BY <1>2, <1>4 DEF OpenFifo, OpenCall, Enter, Step
  <2> QED
    BY <1>3, <2>1 DEF PutBy, Succeeded, Opening, Opened
<1>5. CASE ReadUtmpFails(s) \/ OpenChecked(s) \/ Exit(s)
  <2>1. /\ at[s] \in {"start", "open", "close", "abort"} /\ UNCHANGED i
        /\ at'[s] \in {"loop", "ok", "failed"}
        /\ (at'[s] = "loop" => at[s] = "open" /\ ret[s].code = "OK")
        /\ (at'[s] = "ok" => at[s] = "close")
        /\ UNCHANGED <<pc, call, fmode, ret>>
    BY <1>2, <1>5 DEF ReadUtmpFails, OpenChecked, Exit, Returned, Step, Quiet,
       vars
  <2> QED
    BY <1>2, <1>3, <2>1 DEF PutBy, Succeeded, Opening, Opened
<1>6. CASE Send(s)
  <2>1. /\ at[s] = "loop" /\ UNCHANGED <<i, fmode>> /\ at'[s] = "sent"
        /\ call'[s] \in {"none", "write"} /\ ret'[s].code # "OK"
    BY <1>2, <1>6 DEF Send, Returned, WriteCall, Enter, Return, Result, Step
  <2> QED
    BY <1>2, <1>3, <2>1 DEF PutBy, Succeeded, Opening, Opened
<1>7. CASE SendChecked(s)
  <2>1. /\ at[s] = "sent" /\ at'[s] \in {"loop", "exit"}
        /\ UNCHANGED <<pc, call, fmode, ret>>
    BY <1>2, <1>7 DEF SendChecked, Returned, Step, Quiet, vars
  <2>2. PutBy(s)' = PutBy(s)
    <3>1. i \in [Procs -> 0 .. Len(utmp)] /\ Len(utmp) \in Nat
      BY RecordTypes DEF Clients
    <3>2. ret[s].code = "OK" => Len(ret[s].data) = utmp_size
      BY <1>2, <2>1 DEF CallOf, Succeeded
    <3>3. i'[s] = IF ret[s].code = "OK" THEN i[s] + 1 ELSE i[s]
      BY <1>7, <3>1, <3>2 DEF SendChecked
    <3>4. i[s] \in Nat
      BY <3>1
    <3> QED BY <1>2, <2>1, <3>3, <3>4 DEF PutBy
  <2> QED
    BY <1>2, <1>3, <2>1, <2>2 DEF Succeeded, Opening, Opened
<1>8. CASE SendDone(s) \/ CloseFifo(s)
  <2>1. /\ at[s] \in {"loop", "end", "exit"} /\ UNCHANGED <<i, fmode>>
        /\ at'[s] \in {"close", "abort"} /\ call'[s] = "release"
    BY <1>2, <1>8 DEF SendDone, CloseFifo, Returned, Step, ReleaseCall, Enter
  <2> QED
    BY <1>2, <1>3, <2>1 DEF PutBy, Succeeded, Opening, Opened
<1>9. ~ (PrintEntries(s) \/ Receive(s) \/ ReceiveChecked(s))
  BY <1>1, <1>2 DEF PrintEntries, Receive, ReceiveChecked, Returned, CallOf
<1> QED
  BY <1>4, <1>5, <1>6, <1>7, <1>8, <1>9 DEF Client

(* Anybody else only prints its file. *)
LEMMA OthersPrint ==
  ASSUME Inv, KbuffFilled, Clients, NEW s \in Procs, NEW r \in Procs,
         Pair(s, r), Delivered(s, r), NEW p \in Procs \ {s, r},
         Client(p) \/ Driver(p)
  PROVE  Delivered(s, r)'
<1>1. s # r /\ role[p] = "print" /\ call[p] = "none" /\ pc[p] = "user"
  BY PairEnds
<1>2. ~ Driver(p)
  <2> SUFFICES ASSUME Driver(p) PROVE FALSE
    OBVIOUS
  <2>1. Labelled(p)
    BY DEF Clients, CallOf
  <2>2. \/ Stays(p) \/ Fails(p) \/ Opens(p) \/ Closes(p)
        \/ FindsEnd(p) \/ Takes(p) \/ Puts(p)
    BY <2>1, DriverOutcomes
  <2>3. pc[p] # "user"
    BY <2>2 DEF Stays, Fails, Opens, Closes, FindsEnd, Takes, Puts, Back
  <2> QED BY <1>1, <2>3
<1>3. /\ Own(p) /\ Bytes' = Bytes /\ UNCHANGED lost
  BY <1>2, ClientFrame
<1>4. /\ PutBy(s)' = PutBy(s) /\ (Opening(s)' <=> Opening(s))
      /\ (Opened(s)' <=> Opened(s)) /\ fmode'[s] = fmode[s]
      /\ Taken(r)' = Taken(r) /\ (Ordered(r)' <=> Ordered(r))
      /\ (Reading(r)' <=> Reading(r)) /\ (Opening(r)' <=> Opening(r))
      /\ (Opened(r)' <=> Opened(r)) /\ (AtEnd(r)' <=> AtEnd(r))
  BY <1>3, SenderSame, ReceiverSame
<1> QED
  BY <1>3, <1>4 DEF Delivered

LEMMA NextDelivery ==
  Inv /\ Inv' /\ KbuffFilled /\ Clients /\ DeliveryInv /\ [UtmpNext]_utmpVars
    => DeliveryInv'
<1> SUFFICES ASSUME Inv, Inv', KbuffFilled, Clients, DeliveryInv,
                    [UtmpNext]_utmpVars, NEW s \in Procs, NEW r \in Procs,
                    Pair(s, r)'
             PROVE  Delivered(s, r)'
  BY DEF DeliveryInv
<1>1. CASE UNCHANGED utmpVars
  <2>1. Pair(s, r)
    BY <1>1 DEF utmpVars, Pair, Sole
  <2>2. Delivered(s, r)
    BY <2>1 DEF DeliveryInv
  <2>3. UNCHANGED <<pc, call, ret, fmode, cbuffer, lost, at, i, got>>
    BY <1>1 DEF utmpVars, vars
  <2>4. /\ Bytes' = Bytes /\ PutBy(s)' = PutBy(s) /\ (Full(r)' <=> Full(r))
        /\ (Opening(s)' <=> Opening(s)) /\ (Opened(s)' <=> Opened(s))
        /\ (Opening(r)' <=> Opening(r)) /\ (Opened(r)' <=> Opened(r))
        /\ (AtEnd(r)' <=> AtEnd(r))
    BY <2>3 DEF Bytes, PutBy, Full, Opening, Opened, AtEnd, Succeeded
  <2>5. /\ Taken(r)' = Taken(r) /\ (Reading(r)' <=> Reading(r))
    BY <2>3, <2>4 DEF Taken, Reading, Succeeded
  <2>6. Ordered(r)' <=> Ordered(r)
    BY <2>3, <2>4, <2>5 DEF Ordered
  <2> QED BY <2>2, <2>3, <2>4, <2>5, <2>6 DEF Delivered
<1>2. CASE \E p \in Procs : Client(p) \/ Driver(p)
  <2>1. PICK p \in Procs : Client(p) \/ Driver(p)
    BY <1>2
  <2>2. Pair(s, r)
    BY <2>1, OwnStep DEF Own, Pair, Sole
  <2>3. Delivered(s, r)
    BY <2>2 DEF DeliveryInv
  <2>4. CASE p = r
    BY <2>1, <2>2, <2>3, <2>4, ReceiverInCall, ReceiverOutside
  <2>5. CASE p = s
    BY <2>1, <2>2, <2>3, <2>5, SenderInCall, SenderOutside
  <2>6. CASE p \notin {s, r}
    BY <2>1, <2>2, <2>3, <2>6, OthersPrint
  <2> QED BY <2>4, <2>5, <2>6
<1> QED
  BY <1>1, <1>2 DEF UtmpNext

LEMMA InitDelivery == UtmpInit => DeliveryInv
<1> SUFFICES ASSUME UtmpInit, NEW s \in Procs, NEW r \in Procs, Pair(s, r)
             PROVE  Delivered(s, r)
  BY DEF DeliveryInv
<1>1. Len(Bytes) = 0
  <2>1. cbuffer.size = 0
    BY DEF UtmpInit, Init, create_cbuffer_t
  <2> QED BY <2>1 DEF Bytes, Contents
<1>2. /\ at[s] = "start" /\ at[r] = "start" /\ got[r] = << >> /\ i[s] = 0
      /\ lost["prod"] = 0 /\ lost["cons"] = 0
  BY DEF UtmpInit, Init, Side
<1>3. /\ Opening(r) /\ Opening(s) /\ ~ Opened(r) /\ ~ Opened(s) /\ ~ Full(r)
      /\ ~ Reading(r) /\ ~ AtEnd(r) /\ PutBy(s) = 0 /\ Taken(r) = 0
  BY <1>2 DEF Opening, Opened, Full, Succeeded, Reading, AtEnd, PutBy, Taken
<1>4. Ordered(r)
  BY <1>2, <1>3, RecordTypes DEF Ordered
<1> QED
  BY <1>1, <1>2, <1>3, <1>4 DEF Delivered

LEMMA DeliveredInOrder == Clients /\ DeliveryInv => Delivery
<1> SUFFICES ASSUME Clients, DeliveryInv, NEW s \in Procs, NEW r \in Procs,
                    Pair(s, r)
             PROVE  /\ got[r] = SubSeq(utmp, 1, Len(got[r]))
                    /\ at[r] = "ok" => Len(got[r]) = PutBy(s)
  BY DEF Delivery, Pair
<1> DEFINE n == Len(got[r])
<1>1. Ordered(r) /\ (AtEnd(r) => Taken(r) = PutBy(s))
  BY DEF DeliveryInv, Delivered
<1>2. n \in Nat /\ Taken(r) \in Nat /\ n <= Taken(r) /\ got[r] \in Seq(Seq(Byte))
  <2>1. CASE Full(r)
    BY <2>1, TakenType DEF Taken, Clients
  <2>2. CASE ~ Full(r)
    BY <2>2, TakenType DEF Taken, Clients
  <2> QED BY <2>1, <2>2
<1>3. at[r] = "ok" => n = PutBy(s)
  <2> SUFFICES ASSUME at[r] = "ok" PROVE n = PutBy(s)
    OBVIOUS
  <2>1. AtEnd(r) /\ ~ Full(r)
    BY DEF AtEnd, Full, Succeeded
  <2>2. Taken(r) = n
    BY <1>2, <2>1 DEF Taken
  <2> QED BY <1>1, <2>1, <2>2
<1>4. got[r] = SubSeq(utmp, 1, n)
  <2>1. n \in 0 .. Len(utmp)
    BY <1>1, <1>2, RecordTypes DEF Ordered
  <2>2. utmp \in Seq(Seq(Byte))
    BY UtmpAssumption, RecordTypes DEF Record
  <2>3. /\ SubSeq(utmp, 1, n) \in Seq(Seq(Byte)) /\ Len(SubSeq(utmp, 1, n)) = n
        /\ \A x \in 1 .. n : SubSeq(utmp, 1, n)[x] = utmp[x]
    BY <2>1, <2>2, SliceFromOne
  <2>4. \A x \in 1 .. n : got[r][x] = SubSeq(utmp, 1, n)[x]
    BY <1>1, <2>3 DEF Ordered
  <2> QED BY <1>2, <2>3, <2>4, SeqEqual
<1> QED
  BY <1>3, <1>4

(* Between one sender and one receiver, whatever the sizes of the records  *)
(* and of the buffer, with faults and signals: what the receiver prints is *)
(* the beginning of the file, in its order, and when the receiver ends     *)
(* with EXIT_SUCCESS it has printed every record the sender has put.       *)
THEOREM SenderReachesReceiver == UtmpSpec => []Delivery
BY InitDelivery, NextDelivery, DeliveredInOrder, DriverInvHolds, ClientsHold,
   PTL DEF UtmpSpec
=============================================================================
