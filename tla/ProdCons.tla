------------------------------ MODULE ProdCons ------------------------------
(***************************************************************************)
(* The state and the code that /proc/prodcons has in common in its two     *)
(* versions, ProdCons1 and ProdCons2: the module's life, the checks that   *)
(* start a call and the memory of the items.                               *)
(*                                                                         *)
(* procfs is external: it calls prodcons_read and prodcons_write only      *)
(* while the entry exists, and remove_proc_entry waits until no call is    *)
(* inside them.  A failed vmalloc(sizeof(int)) is not tested by the code   *)
(* and stops the kernel: it is left out.                                   *)
(***************************************************************************)
EXTENDS Kernel, PtrBuffer

CONSTANTS Item,            \* the integers a write may carry
          MAX_ITEMS_CBUF,  \* capacity of the buffer
          MaxLost          \* bound on the blocks (and the wake-ups) that may be lost

ASSUME ProdConsAssumption ==
  MAX_ITEMS_CBUF \in Nat \ {0} /\ MaxLost \in Nat /\ Item # {}

VARIABLES
  loaded,  \* the module is in the kernel and its /proc entry exists
  cbuf,    \* the buffer
  mtx,     \* the holder of the semaphore mtx
  call,    \* "write" or "read": the function a process is in
  pc,      \* where in it
  item,    \* what its local item points to: << >> or one item it must free
  ret,     \* the item its last call put or took; "none" for 0 and errors
  heap,    \* blocks obtained with vmalloc and not freed
  lost     \* history: those of them that nobody can free any more

pcVars == <<loaded, cbuf, mtx, call, pc, item, ret, heap, lost>>

Result(c, d) == [code |-> c, data |-> d]

PCInit ==
  /\ loaded = FALSE
  /\ cbuf \in ptr_create(Item, MAX_ITEMS_CBUF)
  /\ mtx = NoProc
  /\ call = [p \in Procs |-> "none"]
  /\ pc = [p \in Procs |-> "user"]
  /\ item = [p \in Procs |-> << >>]
  /\ ret = [p \in Procs |-> Result("none", << >>)]
  /\ heap = 0 /\ lost = 0

Goto(p, label) == pc' = [pc EXCEPT ![p] = label]

(* A call begins at label l with item i. *)
Enter(p, c, l, i) ==
  /\ call' = [call EXCEPT ![p] = c]
  /\ Goto(p, l)
  /\ item' = [item EXCEPT ![p] = i]
  /\ heap' = heap + Len(i)
  /\ ret' = [ret EXCEPT ![p] = Result("none", << >>)]

(* The call returns; freed says whether it has called vfree(item). *)
Return(p, c, d, freed) ==
  /\ call' = [call EXCEPT ![p] = "none"]
  /\ Goto(p, "user")
  /\ item' = [item EXCEPT ![p] = << >>]
  /\ ret' = [ret EXCEPT ![p] = Result(c, d)]
  /\ heap' = IF freed THEN heap - Len(item[p]) ELSE heap

(* The blocks that become unreachable in a step. *)
Lose(n) == lost + n <= MaxLost /\ lost' = lost + n

(***************************************************************************)
(* The start of prodcons_write.  The text of the user is too long, cannot  *)
(* be copied, is no integer (-ENOSPC, -EFAULT, -EINVAL), or it is the    *)
(* integer x; l is the first down.                                         *)
(***************************************************************************)
WriteStart(p, l) ==
  /\ loaded /\ pc[p] = "user"
  /\ \/ Return(p, "none", << >>, FALSE)
     \/ \E x \in Item : Enter(p, "write", l, <<x>>)
  /\ UNCHANGED <<loaded, cbuf, mtx, lost>>

(* The start of prodcons_read: for any offset but zero the file has ended. *)
ReadStart(p, l) ==
  /\ loaded /\ pc[p] = "user"
  /\ Return(p, "none", << >>, FALSE) \/ Enter(p, "read", l, << >>)
  /\ UNCHANGED <<loaded, cbuf, mtx, lost>>

(* down(&mtx) or down_interruptible(&mtx) succeeds. *)
AcquireMtx(p, labels) ==
  /\ pc[p] \in labels /\ mtx = NoProc
  /\ mtx' = p
  /\ UNCHANGED <<loaded, cbuf, call, pc, item, ret, heap, lost>>

InMtx(p, l) == mtx = p /\ pc[p] = l
UpMtx == mtx' = NoProc

(***************************************************************************)
(* create_cbuffer_t as init_prodcons_module sees it.  When the second      *)
(* vmalloc fails, vfree gets the null pointer and the struct is lost.      *)
(***************************************************************************)
CreateLosesStruct == heap' = heap + 1 /\ Lose(1)
CreateSucceeds ==
  cbuf' \in ptr_create(Item, MAX_ITEMS_CBUF) /\ heap' = heap + 2

(***************************************************************************)
(* init_prodcons_module after its sema_init.  It leaves nothing behind     *)
(* when the struct cannot be allocated, nor when create_proc_entry fails:  *)
(* destroy_cbuffer_t frees both blocks then.                               *)
(***************************************************************************)
InitModule ==
  /\ ~ loaded
  /\ mtx' = NoProc
  /\ \/ UNCHANGED <<loaded, cbuf, heap, lost>>
     \/ CreateLosesStruct /\ UNCHANGED <<loaded, cbuf>>
     \/ CreateSucceeds /\ loaded' = TRUE /\ UNCHANGED lost
  /\ UNCHANGED <<call, pc, item, ret>>

(***************************************************************************)
(* exit_prodcons_module: destroy_cbuffer_t frees the array of pointers and *)
(* the struct, not the items that the pointers lead to.                    *)
(***************************************************************************)
ExitModule ==
  /\ loaded /\ \A p \in Procs : pc[p] = "user"
  /\ loaded' = FALSE
  /\ Lose(cbuf.size)
  /\ heap' = heap - 2
  /\ cbuf' = [cbuf EXCEPT !.size = 0, !.head = 0]
  /\ UNCHANGED <<mtx, call, pc, item, ret>>

-----------------------------------------------------------------------------
PCTypeOK ==
  /\ loaded \in BOOLEAN
  /\ cbuf \in [data : [0 .. MAX_ITEMS_CBUF - 1 -> Item],
               head : 0 .. MAX_ITEMS_CBUF - 1, size : 0 .. MAX_ITEMS_CBUF,
               max_size : {MAX_ITEMS_CBUF}]
  /\ mtx \in Procs \cup {NoProc}
  /\ call \in [Procs -> {"none", "write", "read"}]
  /\ item \in [Procs -> Seq(Item)] /\ \A p \in Procs : Len(item[p]) <= 1
  /\ heap \in Nat /\ lost \in 0 .. MaxLost

(* Every block of memory is in the buffer, in the hands of one call, or    *)
(* lost by one of the three paths that forget it: the second failure in    *)
(* create_cbuffer_t, an interrupted producer that does not vfree(item),    *)
(* and the removal of the module with items in the buffer.  No block is    *)
(* freed twice.                                                            *)
MemoryAccounted ==
  heap = (IF loaded THEN 2 + cbuf.size ELSE 0) + lost
           + Cardinality({p \in Procs : item[p] # << >>})
=============================================================================
