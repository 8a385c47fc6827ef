----------------------------- MODULE ItemQueue -----------------------------
(***************************************************************************)
(* What both /proc/prodcons modules promise: a queue of at most Capacity   *)
(* items, in which a write that succeeds appends its item and a read that  *)
(* succeeds takes the oldest one; every other call leaves it alone.  Items *)
(* disappear only with the module.                                         *)
(***************************************************************************)
EXTENDS Naturals, Sequences

CONSTANTS Procs, Item, Capacity

VARIABLES queue,  \* the items, oldest first
          ret     \* the item that each process's last call put or took

vars == <<queue, ret>>

Result(c, d) == [code |-> c, data |-> d]
Returns(p, c, d) == ret' = [ret EXCEPT ![p] = Result(c, d)]

Init == queue = << >> /\ ret = [p \in Procs |-> Result("none", << >>)]

(* A call begins, or ends without an item having moved. *)
Idle(p) == Returns(p, "none", << >>) /\ UNCHANGED queue

Put(p, x) ==
  /\ Len(queue) < Capacity
  /\ queue' = Append(queue, x)
  /\ \E c \in {"none", "OK"} : Returns(p, c, <<x>>)

Take(p) ==
  /\ queue # << >>
  /\ queue' = Tail(queue)
  /\ \E c \in {"none", "OK"} : Returns(p, c, <<Head(queue)>>)

(* The item was moved inside the call; the call returns it, or its length. *)
Done(p) == ret[p].data # << >> /\ Returns(p, "OK", ret[p].data)
             /\ UNCHANGED queue

Unload == queue' = << >> /\ UNCHANGED ret

Next ==
  \/ \E p \in Procs : Idle(p) \/ Take(p) \/ Done(p)
  \/ \E p \in Procs, x \in Item : Put(p, x)
  \/ Unload

Spec == Init /\ [][Next]_vars
=============================================================================
