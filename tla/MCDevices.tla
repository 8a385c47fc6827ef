----------------------------- MODULE MCDevices -----------------------------
(* The FIFO's module, its buffer, the example device and, small as they    *)
(* are, the locks of the run queues; one behaviour runs one of them, the   *)
(* others stay in one of their initial states.                             *)
EXTENDS FifoModule, CBufferOps, Chardev, RqLocks, TLC

VARIABLE part

Rests(p, vars) == part = p \/ UNCHANGED vars

Init ==
  /\ FMInit /\ OpsInit /\ CDInit /\ LocksInit
  /\ part \in {"module", "buffer", "chardev", "locks"}
  /\ part # "buffer" =>
       /\ cb = CHOOSE b \in create_cbuffer_t(Byte, max_size) : TRUE
       /\ api = {"items"}
  /\ part # "locks" =>
       /\ fair
       /\ \A t \in LockTasks, q \in Queues : task_rq[t] <= q

Next ==
  /\ \/ part = "module" /\ FMNext
     \/ part = "buffer" /\ OpsNext
     \/ part = "chardev" /\ CDNext
     \/ part = "locks" /\ LocksNext
  /\ UNCHANGED part
  /\ Rests("module", fmVars) /\ Rests("buffer", opsVars)
  /\ Rests("chardev", cdVars) /\ Rests("locks", lockVars)

Spec == Init /\ [][Next]_<<part, fmVars, opsVars, cdVars, lockVars>>

Symmetry == Permutations(LockCpus) \cup Permutations(Procs)
=============================================================================
