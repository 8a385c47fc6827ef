----------------------------- MODULE CBufferOps -----------------------------
(***************************************************************************)
(* A cbuffer_t and a sequential client that calls any of its operations in *)
(* any order.  api, chosen once, says which families of operations it      *)
(* uses: "items" are the ones of several bytes, which fifo.c calls,        *)
(* "single" the ones of one byte.                                          *)
(***************************************************************************)
EXTENDS CBuffer

CONSTANTS Byte, max_size, NUL,
          Apis  \* the combinations of families a client may use

ASSUME ApisAssumption == Apis \subseteq SUBSET {"items", "single"}
ASSUME SizeAssumption == max_size \in Nat \ {0} /\ NUL \in Byte

VARIABLES cb,   \* the buffer
          req,  \* the last call: operation, bytes given, bytes asked for
          api,  \* the families of operations this client uses
          out   \* what it handed to its caller

opsVars == <<cb, req, api, out>>

Request(o, items, n) == [op |-> o, items |-> items, n |-> n]

OpsInit ==
  /\ cb \in create_cbuffer_t(Byte, max_size)
  /\ req = Request("create", << >>, 0)
  /\ api \in Apis
  /\ out = << >>

(* Up to one item more than fits, to meet the restriction on nr_items. *)
insert_items ==
  /\ "items" \in api
  /\ \E n \in 0 .. max_size + 1 : \E items \in [1 .. n -> Byte] :
       /\ req' = Request("insert_items", items, 0)
       /\ cb' = insert_items_cbuffer_t(cb, items)
  /\ out' = << >>

remove_items ==
  /\ "items" \in api
  /\ \E n \in 0 .. max_size + 1 :
       /\ req' = Request("remove_items", << >>, n)
       /\ cb' = remove_items_cbuffer_t(cb, n)
       /\ out' = removed_items(cb, n)

insert ==
  /\ "single" \in api
  /\ \E x \in Byte : /\ req' = Request("insert", <<x>>, 0)
                     /\ cb' = insert_cbuffer_t(cb, x)
  /\ out' = << >>

remove ==
  /\ "single" \in api
  /\ req' = Request("remove", << >>, 1)
  /\ cb' = remove_cbuffer_t(cb)
  /\ \E x \in (IF cb.size # 0 THEN byte_at_head(cb, Byte) ELSE {NUL}) :
       out' = <<x>>

(* head_cbuffer_t returns NULL, or a pointer the client reads through. *)
head ==
  /\ "single" \in api
  /\ req' = Request("head", << >>, 0)
  /\ IF cb.size # 0
     THEN \E x \in byte_at_head(cb, Byte) : out' = <<x>>
     ELSE out' = << >>
  /\ UNCHANGED cb

OpsNext ==
  /\ insert_items \/ remove_items \/ insert \/ remove \/ head
  /\ UNCHANGED api

OpsSpec == OpsInit /\ [][OpsNext]_opsVars

-----------------------------------------------------------------------------
(* Every operation does to Contents(cb) what the queue of BoundedQueue     *)
(* does, through every position of head and every wrap of the two memcpy   *)
(* of cbuffer.c.                                                           *)
Abstract == INSTANCE BoundedQueue WITH
  queue <- Contents(cb), Capacity <- max_size
ImplementsQueue == Abstract!Spec

(* "Removes the first element in the buffer and returns a copy of it"      *)
(* (cbuffer.h:39), about remove_cbuffer_t.  A client that mixes the two    *)
(* families breaks it (README); with one family it follows from the queue. *)
RemovesFirst ==
  [][req'.op = "remove" /\ cb.size # 0
       => /\ out' = <<Contents(cb)[1]>>
          /\ Contents(cb') = Tail(Contents(cb))]_opsVars
=============================================================================
