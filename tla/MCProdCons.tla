----------------------------- MODULE MCProdCons -----------------------------
(* One behaviour runs one of the two versions of /proc/prodcons. *)
EXTENDS ProdCons1, ProdCons2, TLC

VARIABLE version

p1Own == sem
p2Own == <<queue, nr_waiting, swallowed>>
mcVars == <<version, pcVars, sem, queue, nr_waiting, swallowed>>

Init == P1Init /\ P2Init /\ version \in {1, 2}

Next == \/ version = 1 /\ P1Next /\ UNCHANGED <<version, p2Own>>
        \/ version = 2 /\ P2Next /\ UNCHANGED <<version, p1Own>>

Spec == Init /\ [][Next]_mcVars

(* The property of a version is asked of that version. *)
Permits == version = 1 => PermitsMatchBuffer

(* Each version is a bounded queue of items to its readers and writers.    *)
ImplementsQueue == P1ImplementsQueue /\ P2ImplementsQueue

Symmetry == Permutations(Procs)
=============================================================================
