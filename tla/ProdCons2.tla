----------------------------- MODULE ProdCons2 -----------------------------
(***************************************************************************)
(* ProdCons2/prodcons2.c: the buffer guarded by the mutex mtx, and two     *)
(* semaphores used as wait queues, with the number of processes that wait  *)
(* in each.  Whoever makes room (or an item) wakes one of them.            *)
(*                                                                         *)
(* "mtx"    at the first down_interruptible(&mtx)                          *)
(* "cond"   at down_interruptible(&prod_queue) or (&cons_queue)            *)
(* "redown" woken, at the down_interruptible(&mtx) that closes the loop    *)
(* "intr"   interrupted in the queue, at down(&mtx)                        *)
(***************************************************************************)
EXTENDS ProdCons

VARIABLES
  queue,       \* counts of prod_queue and cons_queue, by the call that waits
  nr_waiting,  \* nr_prod_waiting and nr_cons_waiting, likewise
  swallowed    \* history: wake-ups taken by a call that then gave up

p2Vars == <<pcVars, queue, nr_waiting, swallowed>>

Kind == {"write", "read"}
Opposite(c) == IF c = "write" THEN "read" ELSE "write"
Zero == [c \in Kind |-> 0]

P2Init == PCInit /\ queue = Zero /\ nr_waiting = Zero /\ swallowed = Zero

P2Load == /\ InitModule
          /\ queue' = Zero /\ nr_waiting' = Zero /\ swallowed' = Zero

P2Unload == ExitModule /\ UNCHANGED <<queue, nr_waiting, swallowed>>

P2Write(p) ==
  WriteStart(p, "mtx") /\ UNCHANGED <<queue, nr_waiting, swallowed>>

P2Read(p) ==
  ReadStart(p, "mtx") /\ UNCHANGED <<queue, nr_waiting, swallowed>>

P2Acquire(p) ==
  /\ AcquireMtx(p, {"mtx", "redown", "intr"})
  /\ UNCHANGED <<queue, nr_waiting, swallowed>>

(* The item of a write that a signal ends is never freed. *)
P2GiveUp(p) == Return(p, "none", << >>, FALSE) /\ Lose(Len(item[p]))

(* A signal ends a down_interruptible(&mtx): the first one, or the one     *)
(* after a wake-up, which is lost with it.                                 *)
P2InterruptMtx(p) ==
  /\ pc[p] \in {"mtx", "redown"} /\ CutShortAtMutex(p, mtx)
  /\ P2GiveUp(p)
  /\ pc[p] = "redown" => swallowed[call[p]] < MaxLost
  /\ swallowed' = [swallowed EXCEPT ![call[p]] =
                     IF pc[p] = "redown" THEN @ + 1 ELSE @]
  /\ UNCHANGED <<loaded, cbuf, mtx, queue, nr_waiting>>

(* down_interruptible(&prod_queue), or (&cons_queue). *)
P2Wake(p) ==
  /\ pc[p] = "cond" /\ queue[call[p]] > 0
  /\ queue' = [queue EXCEPT ![call[p]] = @ - 1]
  /\ Goto(p, "redown")
  /\ UNCHANGED <<loaded, cbuf, mtx, call, item, ret, heap, lost, nr_waiting,
                 swallowed>>

P2InterruptWait(p) ==
  /\ pc[p] = "cond" /\ CutShortAtSemaphore(p, queue[call[p]])
  /\ Goto(p, "intr")
  /\ UNCHANGED <<loaded, cbuf, mtx, call, item, ret, heap, lost, queue,
                 nr_waiting, swallowed>>

(* Mutant: the interrupted waiter stays counted. *)
P2InterruptUncounted(p) ==
  /\ InMtx(p, "intr") /\ UpMtx
  /\ P2GiveUp(p)
  /\ UNCHANGED <<loaded, cbuf, queue, nr_waiting, swallowed>>

(* down(&mtx); nr_prod_waiting--; up(&mtx); return -EINTR *)
P2InterruptSection(p) ==
  /\ InMtx(p, "intr") /\ UpMtx
  /\ nr_waiting' = [nr_waiting EXCEPT ![call[p]] = @ - 1]
  /\ P2GiveUp(p)
  /\ UNCHANGED <<loaded, cbuf, queue, swallowed>>

(* nr_prod_waiting++; up(&mtx), and to the queue. *)
P2CondWait(p) ==
  /\ nr_waiting' = [nr_waiting EXCEPT ![call[p]] = @ + 1]
  /\ Goto(p, "cond")
  /\ UNCHANGED <<cbuf, call, item, ret, heap, queue>>

(* Mutant: the test is nr_cons_waiting > 1. *)
P2SignalAllButOne(c) ==
  IF nr_waiting[c] > 1
  THEN /\ queue' = [queue EXCEPT ![c] = @ + 1]
       /\ nr_waiting' = [nr_waiting EXCEPT ![c] = @ - 1]
  ELSE UNCHANGED <<queue, nr_waiting>>

(* if (nr_cons_waiting > 0) { up(&cons_queue); nr_cons_waiting--; } *)
P2Signal(c) ==
  IF nr_waiting[c] > 0
  THEN /\ queue' = [queue EXCEPT ![c] = @ + 1]
       /\ nr_waiting' = [nr_waiting EXCEPT ![c] = @ - 1]
  ELSE UNCHANGED <<queue, nr_waiting>>

InLoop(p) == InMtx(p, "mtx") \/ InMtx(p, "redown")

(* The loop of prodcons_write and what follows it, up to up(&mtx). *)
P2WriteSection(p) ==
  /\ InLoop(p) /\ call[p] = "write" /\ UpMtx
  /\ \/ ptr_is_full(cbuf) /\ P2CondWait(p)
     \/ /\ ~ ptr_is_full(cbuf)
        /\ cbuf' = ptr_insert(cbuf, item[p][1])
        /\ P2Signal("read")
        /\ Return(p, "OK", item[p], FALSE)
  /\ UNCHANGED <<loaded, lost, swallowed>>

(* What follows the loop of prodcons_read: item, up to vfree(item). *)
P2Take(p) ==
  /\ cbuf' = ptr_remove(cbuf)
  /\ P2Signal("write")
  /\ call' = [call EXCEPT ![p] = "none"]
  /\ Goto(p, "user")
  /\ ret' = [ret EXCEPT ![p] = Result("OK", <<cbuf.data[cbuf.head]>>)]
  /\ heap' = heap - 1
  /\ UNCHANGED item

(* The whole section of prodcons_read, up to up(&mtx). *)
P2ReadSection(p) ==
  /\ InLoop(p) /\ call[p] = "read" /\ UpMtx
  /\ \/ ptr_is_empty(cbuf) /\ P2CondWait(p)
     \/ ~ ptr_is_empty(cbuf) /\ P2Take(p)
  /\ UNCHANGED <<loaded, lost, swallowed>>

P2Section(p) == \/ P2WriteSection(p) \/ P2ReadSection(p)
                \/ P2InterruptSection(p)

P2Next ==
  \/ P2Load \/ P2Unload
  \/ \E p \in Procs :
       \/ P2Write(p) \/ P2Read(p) \/ P2Acquire(p) \/ P2InterruptMtx(p)
       \/ P2Wake(p) \/ P2InterruptWait(p) \/ P2Section(p)

P2Spec == P2Init /\ [][P2Next]_p2Vars

-----------------------------------------------------------------------------
(* Between the ++ of a wait and its wake-up, or its -- after a signal. *)
P2Waiting(c) == {p \in Procs : pc[p] \in {"cond", "intr"} /\ call[p] = c}
Woken(c) == {p \in Procs : pc[p] = "redown" /\ call[p] = c}

(* A waker and an interrupted waiter may both subtract the same process,   *)
(* and the count goes negative; with the wake-ups left in the queue it     *)
(* still adds up to the processes that wait.                               *)
WaitersAccounted ==
  loaded => \A c \in Kind :
    nr_waiting[c] + queue[c] = Cardinality(P2Waiting(c))

(* What a call that waits needs, and how many of them could be served. *)
Available(c) ==
  IF c = "write" THEN MAX_ITEMS_CBUF - cbuf.size ELSE cbuf.size

(* While some process sleeps without a wake-up to take, every gap (every   *)
(* item) is spoken for by a wake-up on its way, except one for each        *)
(* wake-up that a call interrupted at the second mtx took with it: the     *)
(* code has no other way to let a process sleep beside what it waits for.  *)
WakeUpForEachGap ==
  loaded => \A c \in Kind :
    nr_waiting[c] > 0 =>
      Available(c) <= queue[c] + Cardinality(Woken(c)) + swallowed[c]

(* prodcons2.c implements the queue of ItemQueue too. *)
P2Queue == INSTANCE ItemQueue WITH
  queue <- PtrContents(cbuf), Capacity <- MAX_ITEMS_CBUF
P2ImplementsQueue == P2Queue!Spec
=============================================================================
