------------------------------- MODULE Kernel -------------------------------
(***************************************************************************)
(* What the drivers and the /proc modules of this repository share: the    *)
(* processes that call them and the outcomes of the kernel services they   *)
(* use.  The services are external: each is modelled by what its callers   *)
(* in src/ can observe.                                                    *)
(***************************************************************************)
EXTENDS Integers, Sequences, FiniteSets

CONSTANTS Procs,         \* processes in user mode, each in one call at a time
          NoProc,        \* "nobody": a lock that is free
          Interruptible  \* the processes a signal may reach while they sleep

ASSUME KernelAssumption ==
  /\ IsFiniteSet(Procs) /\ NoProc \notin Procs
  /\ Interruptible \subseteq Procs

(* down_interruptible gives up only where it would sleep: on a mutex that  *)
(* another process holds, or on a semaphore whose count is zero.           *)
CutShortAtMutex(p, holder) == p \in Interruptible /\ holder \notin {NoProc, p}
CutShortAtSemaphore(p, count) == p \in Interruptible /\ count = 0
=============================================================================
