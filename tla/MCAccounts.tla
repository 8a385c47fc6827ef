----------------------------- MODULE MCAccounts -----------------------------
(* Completions, the load average and the CPU load; a behaviour runs one.   *)
EXTENDS Completion, LoadAverage, TLC

VARIABLE subsystem

Init == CInit /\ LAInit /\ subsystem \in {"completion", "load", "cpu_load"}

Next ==
  \/ subsystem = "completion" /\ CNext /\ UNCHANGED <<subsystem, laVars>>
  \/ subsystem = "load" /\ LoadNext /\ UNCHANGED <<subsystem, cVars>>
  \/ subsystem = "cpu_load" /\ CpuLoadNext /\ UNCHANGED <<subsystem, cVars>>

Spec == Init /\ [][Next]_<<subsystem, cVars, laVars>>

Symmetry == Permutations(Tasks) \cup Permutations(Cpus)
=============================================================================
