------------------------------- MODULE CBuffer -------------------------------
(***************************************************************************)
(* The circular byte buffer of parteB/cbuffer.c (FicherosP3/cbuffer.c is   *)
(* the same file).  A cbuffer_t is a record with the four fields of the    *)
(* struct; each C function is an operator from a buffer to a buffer.       *)
(*                                                                         *)
(* The index arithmetic is the code's: remove_items_cbuffer_t advances     *)
(* head without reducing it modulo max_size, so head = max_size is a state *)
(* the code really reaches.                                                *)
(***************************************************************************)
EXTENDS Integers, Sequences

(***************************************************************************)
(* struct cbuffer_t, over a set of bytes.  head = max_size is included.    *)
(***************************************************************************)
cbuffer_t(Byte, max) ==
  [data : [0 .. max - 1 -> Byte], head : 0 .. max, size : 0 .. max,
   max_size : {max}]

(***************************************************************************)
(* create_cbuffer_t: data is vmalloc'ed and not initialized, so any        *)
(* contents are possible.                                                  *)
(***************************************************************************)
create_cbuffer_t(Byte, max) ==
  [data : [0 .. max - 1 -> Byte], head : {0}, size : {0}, max_size : {max}]

size_cbuffer_t(cb) == cb.size

(* Mutant: one gap too many. *)
nr_gaps_OneTooMany(cb) == cb.max_size - cb.size + 1

nr_gaps_cbuffer_t(cb) == cb.max_size - cb.size

is_full_cbuffer_t(cb) == cb.size = cb.max_size

is_empty_cbuffer_t(cb) == cb.size = 0

(* Mutant: items is not moved forward, so the second memcpy starts over. *)
CopyInFromStart(data, at, items, from, n) ==
  [i \in DOMAIN data |->
     IF at <= i /\ i < at + n THEN items[(i - at) + 1] ELSE data[i]]

(***************************************************************************)
(* memcpy(&data[at], &items[from], n), items indexed from 0 as in C.       *)
(***************************************************************************)
CopyIn(data, at, items, from, n) ==
  [i \in DOMAIN data |->
     IF at <= i /\ i < at + n THEN items[from + (i - at) + 1] ELSE data[i]]

(***************************************************************************)
(* memcpy(items, &data[at], n)                                             *)
(***************************************************************************)
CopyOut(data, at, n) == [i \in 1 .. n |-> data[at + i - 1]]

(***************************************************************************)
(* insert_items_cbuffer_t: append nr_items bytes, wrapping once.  When     *)
(* there are not enough gaps the oldest bytes are overwritten.             *)
(***************************************************************************)
insert_items_cbuffer_t(cb, items) ==
  LET nr_items == Len(items)
      nr_gaps  == cb.max_size - cb.size
      whead    == (cb.head + cb.size) % cb.max_size
      wraps    == whead + nr_items > cb.max_size
      copied   == IF wraps THEN cb.max_size - whead ELSE 0
      whead2   == IF wraps THEN 0 ELSE whead
      data1    == CopyIn(cb.data, whead, items, 0, copied)
      data2    == CopyIn(data1, whead2, items, copied, nr_items - copied)
  IN  IF nr_items > cb.max_size
      THEN cb
      ELSE IF nr_gaps >= nr_items
           THEN [cb EXCEPT !.data = data2, !.size = @ + nr_items]
           ELSE [cb EXCEPT !.data = data2, !.size = cb.max_size,
                           !.head = (@ + (nr_items - nr_gaps)) % cb.max_size]

(***************************************************************************)
(* remove_items_cbuffer_t is two results: the buffer it leaves and the     *)
(* bytes it stores in items.  A request for more than size is ignored.     *)
(***************************************************************************)
remove_items_cbuffer_t(cb, nr_items) ==
  LET wraps  == cb.head + nr_items > cb.max_size
      copied == IF wraps THEN cb.max_size - cb.head ELSE 0
      head2  == IF wraps THEN 0 ELSE cb.head
  IN  IF nr_items > cb.size
      THEN cb
      ELSE [cb EXCEPT !.head = head2 + (nr_items - copied),
                      !.size = @ - nr_items]

removed_items(cb, nr_items) ==
  LET wraps  == cb.head + nr_items > cb.max_size
      copied == IF wraps THEN cb.max_size - cb.head ELSE 0
      head2  == IF wraps THEN 0 ELSE cb.head
  IN  IF nr_items > cb.size
      THEN << >>
      ELSE CopyOut(cb.data, cb.head, copied)
             \o CopyOut(cb.data, head2, nr_items - copied)

(***************************************************************************)
(* insert_cbuffer_t, for max_size > 0.  On a full buffer with head =       *)
(* max_size the store goes past the end of data: EXCEPT leaves data as it  *)
(* is, and head skips position 0.                                          *)
(***************************************************************************)
insert_cbuffer_t(cb, new_item) ==
  IF cb.size = cb.max_size
  THEN [cb EXCEPT !.data[cb.head] = new_item,
                  !.head = (@ + 1) % cb.max_size]
  ELSE [cb EXCEPT !.data[(cb.head + cb.size) % cb.max_size] = new_item,
                  !.size = @ + 1]

(* remove_cbuffer_t: the buffer it leaves. *)
remove_cbuffer_t(cb) ==
  IF cb.size # 0
  THEN [cb EXCEPT !.head = (@ + 1) % cb.max_size, !.size = @ - 1]
  ELSE cb

(***************************************************************************)
(* The byte at &data[head], which remove_cbuffer_t returns and             *)
(* head_cbuffer_t points to; for head = max_size it is past the end of     *)
(* data and may be any byte.                                               *)
(***************************************************************************)
byte_at_head(cb, Byte) ==
  IF cb.head \in DOMAIN cb.data THEN {cb.data[cb.head]} ELSE Byte

(***************************************************************************)
(* The bytes in the buffer, oldest first: what the buffer means to its     *)
(* users.  Every property about data is stated on it.                      *)
(***************************************************************************)
Contents(cb) ==
  [i \in 1 .. cb.size |-> cb.data[(cb.head + i - 1) % cb.max_size]]
==============================================================================
