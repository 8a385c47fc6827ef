----------------------------- MODULE PtrBuffer -----------------------------
(***************************************************************************)
(* The circular buffer of pointers of ProdCons1/cbuffer.c (ProdCons2 has   *)
(* the same file).  A pointer is abstracted to the value it points to.     *)
(***************************************************************************)
EXTENDS Integers, Sequences

(* create_cbuffer_t, when both allocations succeed. *)
ptr_create(Item, max) ==
  [data : [0 .. max - 1 -> Item], head : {0}, size : {0}, max_size : {max}]

ptr_is_full(cb) == cb.size = cb.max_size

(* size_cbuffer_t(cb) == 0, is_empty_cbuffer_t(cb) *)
ptr_is_empty(cb) == cb.size = 0

(* Mutant: the position of the new item is not reduced modulo max_size. *)
ptr_insert_AtSize(cb, new_item) ==
  IF cb.size = cb.max_size
  THEN [cb EXCEPT !.data[cb.head] = new_item,
                  !.head = (@ + 1) % cb.max_size]
  ELSE [cb EXCEPT !.data[cb.size] = new_item, !.size = @ + 1]

(* insert_cbuffer_t, for max_size > 0: a full buffer loses its first item. *)
ptr_insert(cb, new_item) ==
  IF cb.size = cb.max_size
  THEN [cb EXCEPT !.data[cb.head] = new_item,
                  !.head = (@ + 1) % cb.max_size]
  ELSE [cb EXCEPT !.data[(cb.head + cb.size) % cb.max_size] = new_item,
                  !.size = @ + 1]

(* remove_cbuffer_t *)
ptr_remove(cb) ==
  IF cb.size # 0
  THEN [cb EXCEPT !.head = (@ + 1) % cb.max_size, !.size = @ - 1]
  ELSE cb

(* head_cbuffer_t: the set of the item it returns, {} for NULL. *)
ptr_head(cb) == IF cb.size # 0 THEN {cb.data[cb.head]} ELSE {}

(* The items in the buffer, oldest first. *)
PtrContents(cb) ==
  [i \in 1 .. cb.size |-> cb.data[(cb.head + i - 1) % cb.max_size]]
=============================================================================
