----------------------------- MODULE ProdCons1 -----------------------------
(***************************************************************************)
(* ProdCons1/prodcons1.c: the buffer guarded by two counting semaphores,   *)
(* huecos (gaps) and elementos (items), and by the mutex mtx.              *)
(*                                                                         *)
(* "sem"  at down_interruptible of huecos (write) or elementos (read)      *)
(* "mtx"  at down_interruptible(&mtx), or in its section when mtx = p      *)
(* "up"   out of the section, before the up of the other semaphore         *)
(***************************************************************************)
EXTENDS ProdCons

VARIABLE sem  \* counts of huecos and of elementos

p1Vars == <<pcVars, sem>>

(* The semaphore a call takes, and the one it gives when it is done. *)
Takes(p) == IF call[p] = "write" THEN "huecos" ELSE "elementos"
Gives(p) == IF call[p] = "write" THEN "elementos" ELSE "huecos"

Up(s) == sem' = [sem EXCEPT ![s] = @ + 1]

P1Init == PCInit /\ sem = [huecos |-> MAX_ITEMS_CBUF, elementos |-> 0]

P1Load ==
  InitModule /\ sem' = [huecos |-> MAX_ITEMS_CBUF, elementos |-> 0]

P1Unload == ExitModule /\ UNCHANGED sem

P1Write(p) == WriteStart(p, "sem") /\ UNCHANGED sem

P1Read(p) == ReadStart(p, "sem") /\ UNCHANGED sem

(* down_interruptible(&huecos) or down_interruptible(&elementos). *)
P1Down(p) ==
  /\ pc[p] = "sem" /\ sem[Takes(p)] > 0
  /\ sem' = [sem EXCEPT ![Takes(p)] = @ - 1]
  /\ Goto(p, "mtx")
  /\ UNCHANGED <<loaded, cbuf, mtx, call, item, ret, heap, lost>>

(* Mutant: the interrupted producer does not free its item. *)
P1InterruptSemKeepsItem(p) ==
  /\ pc[p] = "sem" /\ CutShortAtSemaphore(p, sem[Takes(p)])
  /\ Return(p, "none", << >>, FALSE)
  /\ UNCHANGED <<loaded, cbuf, mtx, lost, sem>>

(* A signal ends it: vfree(item); return -EINTR. *)
P1InterruptSem(p) ==
  /\ pc[p] = "sem" /\ CutShortAtSemaphore(p, sem[Takes(p)])
  /\ Return(p, "none", << >>, TRUE)
  /\ UNCHANGED <<loaded, cbuf, mtx, lost, sem>>

P1Acquire(p) == AcquireMtx(p, {"mtx"}) /\ UNCHANGED sem

(* Mutant: the gap or the element is not given back. *)
P1InterruptMtxKeeps(p) ==
  /\ pc[p] = "mtx" /\ CutShortAtMutex(p, mtx)
  /\ Return(p, "none", << >>, FALSE)
  /\ Lose(Len(item[p]))
  /\ UNCHANGED <<loaded, cbuf, mtx, sem>>

(* A signal ends down_interruptible(&mtx): up(&huecos) or up(&elementos),  *)
(* return -EINTR; the producer's item is not freed.                        *)
P1InterruptMtx(p) ==
  /\ pc[p] = "mtx" /\ CutShortAtMutex(p, mtx)
  /\ Up(Takes(p))
  /\ Return(p, "none", << >>, FALSE)
  /\ Lose(Len(item[p]))
  /\ UNCHANGED <<loaded, cbuf, mtx>>

(* insert_cbuffer_t; up(&mtx) *)
P1Insert(p) ==
  /\ InMtx(p, "mtx") /\ call[p] = "write" /\ UpMtx
  /\ cbuf' = ptr_insert(cbuf, item[p][1])
  /\ item' = [item EXCEPT ![p] = << >>]
  /\ ret' = [ret EXCEPT ![p] = Result("none", item[p])]
  /\ Goto(p, "up")
  /\ UNCHANGED <<loaded, call, heap, lost, sem>>

(* head_cbuffer_t, remove_cbuffer_t; up(&mtx) *)
P1Remove(p) ==
  /\ InMtx(p, "mtx") /\ call[p] = "read" /\ UpMtx
  /\ \E x \in ptr_head(cbuf) :
       /\ item' = [item EXCEPT ![p] = <<x>>]
       /\ ret' = [ret EXCEPT ![p] = Result("none", <<x>>)]
  /\ cbuf' = ptr_remove(cbuf)
  /\ Goto(p, "up")
  /\ UNCHANGED <<loaded, call, heap, lost, sem>>

(* up(&elementos), or up(&huecos); vfree(item); return. *)
P1Finish(p) ==
  /\ pc[p] = "up"
  /\ Up(Gives(p))
  /\ Return(p, "OK", ret[p].data, TRUE)
  /\ UNCHANGED <<loaded, cbuf, mtx, lost>>

P1Section(p) == P1Insert(p) \/ P1Remove(p)

P1Next ==
  \/ P1Load \/ P1Unload
  \/ \E p \in Procs :
       \/ P1Write(p) \/ P1Read(p) \/ P1Down(p) \/ P1InterruptSem(p)
       \/ P1Acquire(p) \/ P1InterruptMtx(p) \/ P1Section(p) \/ P1Finish(p)

P1Spec == P1Init /\ [][P1Next]_p1Vars

-----------------------------------------------------------------------------
(* The calls that have taken a gap (or an item) and not yet used it, and   *)
(* those that have used it and not yet told the other side.                *)
Granted(c) == {p \in Procs : pc[p] = "mtx" /\ call[p] = c}
Untold(c) == {p \in Procs : pc[p] = "up" /\ call[p] = c}

(* huecos and elementos never promise more than the buffer has: at every   *)
(* moment the free semaphore counts, the calls that hold a permit and the  *)
(* ones about to give one add up to the gaps and to the items, whatever    *)
(* producers and consumers a signal sends back at mtx.  So no insert finds *)
(* the buffer full and no remove finds it empty.                           *)
PermitsMatchBuffer ==
  loaded =>
    /\ sem.huecos + Cardinality(Granted("write")) + Cardinality(Untold("read"))
         = MAX_ITEMS_CBUF - cbuf.size
    /\ sem.elementos + Cardinality(Granted("read"))
         + Cardinality(Untold("write")) = cbuf.size

(* prodcons1.c implements the queue of ItemQueue: items leave in the order *)
(* they came, none is overwritten, no call returns one it did not take.    *)
P1Queue == INSTANCE ItemQueue WITH
  queue <- PtrContents(cbuf), Capacity <- MAX_ITEMS_CBUF
P1ImplementsQueue == P1Queue!Spec
=============================================================================
