------------------------------ MODULE MCLists ------------------------------
(* The list modules and the KIFS registry; one behaviour runs one of them. *)
EXTENDS ModList, Kifs, TLC

CONSTANTS n1, n2, n3

VARIABLE subsystem

Init == MLInit /\ KifsInit /\ subsystem \in {"modlist", "kifs"}

(* Bound: who reads the list meets lookups, creations and removals, but no *)
(* call inside the list or the clipboard, which share nothing with it.     *)
Listing == {"size", "list", "terminate"}
Clipping == {"strlen", "copyout", "copyin", "nul"}
OneLists ==
  \A p, q \in Callers : p # q /\ kf[p].pc \in Listing =>
    kf[q].pc \notin Listing \cup Clipping

(* Bound: the spin lock, under which nothing happens that does not under   *)
(* the other, is run by two processes.                                     *)
TwoSpin == lock_kind = "spin" => \A p \in Procs \ Callers : ml[p] = Idle

Next ==
  \/ subsystem = "modlist" /\ MLNext /\ TwoSpin' /\ UNCHANGED <<subsystem, kifsVars>>
  \/ subsystem = "kifs" /\ KifsNext /\ OneLists' /\ UNCHANGED <<subsystem, mlVars>>

Spec == Init /\ [][Next]_<<subsystem, mlVars, kifsVars>>

(* The word "cleanup", shortened to two letters: a prefix of it, a longer  *)
(* word, and a word that differs.                                          *)
Cleanup == <<"c", "l">>
Words == {<< >>, Cleanup, <<"c", "l", "x">>, <<"x">>}

NameLength ==
  [n \in Name |-> IF n \in {"list", "x"} THEN 1 ELSE NAME_SIZE]

Symmetry == Permutations(Callers) \cup Permutations({n1, n2, n3})
=============================================================================
