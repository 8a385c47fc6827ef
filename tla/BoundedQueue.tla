---------------------------- MODULE BoundedQueue ----------------------------
(***************************************************************************)
(* What cbuffer.h promises of a cbuffer_t: a first-in first-out queue of   *)
(* at most Capacity bytes that makes room by dropping the oldest ones, and *)
(* that ignores a request it cannot meet, and no other.                    *)
(***************************************************************************)
EXTENDS Integers, Sequences

CONSTANTS Byte, Capacity, NUL

VARIABLES queue,  \* the bytes, oldest first
          req,    \* the last request: operation, bytes given, bytes asked for
          out     \* what it handed to its caller

vars == <<queue, req, out>>

Request(o, items, n) == [op |-> o, items |-> items, n |-> n]

(* The last Capacity elements of s. *)
Newest(s) ==
  IF Len(s) <= Capacity THEN s ELSE SubSeq(s, Len(s) - Capacity + 1, Len(s))

Init == queue = << >> /\ req = Request("create", << >>, 0) /\ out = << >>

Put(o, items) ==
  /\ req' = Request(o, items, 0)
  /\ queue' = IF Len(items) <= Capacity THEN Newest(queue \o items) ELSE queue
  /\ out' = << >>

(* n bytes leave the queue; otherwise is returned when there are fewer. *)
Take(o, n, otherwise) ==
  /\ req' = Request(o, << >>, n)
  /\ IF n <= Len(queue)
     THEN queue' = SubSeq(queue, n + 1, Len(queue)) /\ out' = SubSeq(queue, 1, n)
     ELSE UNCHANGED queue /\ out' = otherwise

Peek ==
  /\ req' = Request("head", << >>, 0)
  /\ out' = IF queue = << >> THEN << >> ELSE <<queue[1]>>
  /\ UNCHANGED queue

Next ==
  \/ \E n \in 0 .. Capacity + 1 : \E items \in [1 .. n -> Byte] :
       Put("insert_items", items)
  \/ \E n \in 0 .. Capacity + 1 : Take("remove_items", n, << >>)
  \/ \E x \in Byte : Put("insert", <<x>>)
  \/ Take("remove", 1, <<NUL>>)
  \/ Peek

Spec == Init /\ [][Next]_vars
=============================================================================
