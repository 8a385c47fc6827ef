------------------------------ MODULE ModList ------------------------------
(***************************************************************************)
(* The list of integers behind /proc/modlist.  parteA/modlist.c guards it  *)
(* with a spin lock, opcional1/modlist.c, otherwise the same file, with a  *)
(* reader-writer lock; lock_kind, chosen once, says which module is        *)
(* loaded.                                                                 *)
(*                                                                         *)
(* A reader walks the list one node per step, because under the second     *)
(* lock readers run side by side.  A writer's section, which excludes      *)
(* everybody, is one step; the nodes it unlinks are in a list of its own,  *)
(* bin, and are freed one by one after the lock is released.               *)
(***************************************************************************)
EXTENDS Kernel, SequencesExt

CONSTANTS
  Node,        \* the memory: nodes that vmalloc can return
  NoNode,      \* the end of a list
  Value,       \* the integers that are added and removed
  Lines,       \* lines that are neither "add" nor "remove", as words
  cleanup,     \* the word "cleanup"
  buffer_len,  \* room for the text of a read
  LockKinds    \* the modules to load: "spin", "rw"

ASSUME ModListAssumption ==
  /\ IsFiniteSet(Node) /\ NoNode \notin Node /\ Value \subseteq Nat
  /\ buffer_len \in Nat \ {0} /\ LockKinds \subseteq {"spin", "rw"}

VARIABLES
  lock_kind,
  in_proc,  \* the module is loaded and its /proc entry exists
  mylist,   \* the nodes linked in mylist, first to last
  data,     \* the integer of each node
  free,     \* the nodes that are not allocated
  readers,  \* the processes inside a reader's section
  ml        \* for each process: where it is and its local variables

mlVars == <<lock_kind, in_proc, mylist, data, free, readers, ml>>

(* item: an allocated node not yet linked; num: the integer to remove;     *)
(* bin: nodes unlinked and not freed; elem, used, text: a reader's cursor, *)
(* count of characters and integers written so far.                        *)
Idle == [pc |-> "user", item |-> NoNode, num |-> 0, bin |-> << >>,
         elem |-> NoNode, used |-> 0, text |-> << >>]

MLInit ==
  /\ lock_kind \in LockKinds
  /\ in_proc = FALSE
  /\ mylist = << >>
  /\ data = [n \in Node |-> 0]
  /\ free = Node
  /\ readers = {}
  /\ ml = [p \in Procs |-> Idle]

-----------------------------------------------------------------------------
(* The locks, which are external. *)

CanRead == lock_kind = "rw" \/ readers = {}

(* Mutant: writers take the lock for reading too. *)
CanWriteShared == lock_kind = "rw" \/ readers = {}

CanWrite == readers = {}

-----------------------------------------------------------------------------
modlist_init ==
  /\ ~ in_proc /\ in_proc' = TRUE
  /\ UNCHANGED <<lock_kind, mylist, data, free, readers, ml>>

(* remove_proc_entry waits for the calls in progress; then the list is     *)
(* cleared and freed, and nobody is left to see it.                        *)
modlist_clean ==
  /\ in_proc /\ in_proc' = FALSE
  /\ \A p \in Procs : ml[p].pc = "user"
  /\ mylist' = << >>
  /\ free' = free \cup ToSet(mylist)
  /\ UNCHANGED <<lock_kind, data, readers, ml>>

-----------------------------------------------------------------------------
(* procfile_read *)

Read(p) ==
  /\ in_proc /\ ml[p].pc = "user"
  /\ ml' = [ml EXCEPT ![p] = [Idle EXCEPT !.pc = "lock"]]
  /\ UNCHANGED <<lock_kind, in_proc, mylist, data, free, readers>>

First == IF mylist = << >> THEN NoNode ELSE Head(mylist)

(* elem->links.next, for a node that is still in mylist. *)
After(n) ==
  LET at == {i \in 1 .. Len(mylist) - 1 : mylist[i] = n}
  IN  IF at = {} THEN NoNode ELSE mylist[(CHOOSE i \in at : TRUE) + 1]

ReadLock(p) ==
  /\ ml[p].pc = "lock" /\ CanRead
  /\ readers' = readers \cup {p}
  /\ ml' = [ml EXCEPT ![p].pc = "walk", ![p].elem = First]
  /\ UNCHANGED <<lock_kind, in_proc, mylist, data, free>>

(* The length of "%d\n": the end of line, the first digit, and one digit   *)
(* for each power of ten that n reaches.                                   *)
Chars(n) == 2 + Cardinality({d \in 1 .. 9 : n >= 10^d})

(***************************************************************************)
(* The value of snprintf(buf, size, "%d\n", n), external: what would have  *)
(* been written if there were room, and zero for a negative size.          *)
(***************************************************************************)
snprintf(size, n) == IF size < 0 THEN 0 ELSE Chars(n)

(* Mutant: the loop does not stop when the buffer is full. *)
FullNever(p) == FALSE

(* if (buffer_len - used == 0) break *)
Full(p) == buffer_len - ml[p].used = 0

(* The body of list_for_each_entry and its step to the next node. *)
ReadStep(p) ==
  LET n == ml[p].elem
  IN  /\ ml[p].pc = "walk" /\ n # NoNode /\ ~ Full(p)
      /\ ml' = [ml EXCEPT
                  ![p].used = @ + snprintf(buffer_len - @, data[n]),
                  ![p].text = Append(@, data[n]),
                  ![p].elem = After(n)]
      /\ UNCHANGED <<lock_kind, in_proc, mylist, data, free, readers>>

ReadUnlock(p) ==
  /\ ml[p].pc = "walk" /\ (ml[p].elem = NoNode \/ Full(p))
  /\ readers' = readers \ {p}
  /\ ml' = [ml EXCEPT ![p].pc = "user"]
  /\ UNCHANGED <<lock_kind, in_proc, mylist, data, free>>

-----------------------------------------------------------------------------
(* procfile_write *)

(* streq compares up to the end of the shorter word. *)
streq(a, b) == IsPrefix(a, b) \/ IsPrefix(b, a)

(***************************************************************************)
(* The dispatch on the line.  add_item_list allocates its node before it   *)
(* takes the lock (a vmalloc that fails stops the kernel and is left out). *)
(* A line that is no command does nothing.                                 *)
(***************************************************************************)
Write(p) ==
  /\ in_proc /\ ml[p].pc = "user"
  /\ \/ \E n \in free, v \in Value :
          /\ free' = free \ {n}
          /\ data' = [data EXCEPT ![n] = v]
          /\ ml' = [ml EXCEPT ![p] = [Idle EXCEPT !.pc = "add", !.item = n]]
     \/ /\ \E v \in Value :
             ml' = [ml EXCEPT ![p] = [Idle EXCEPT !.pc = "remove", !.num = v]]
        /\ UNCHANGED <<data, free>>
     \/ /\ \E line \in Lines :
             ml' = [ml EXCEPT ![p] =
               [Idle EXCEPT !.pc = IF streq(line, cleanup)
                                   THEN "clear" ELSE "user"]]
        /\ UNCHANGED <<data, free>>
  /\ UNCHANGED <<lock_kind, in_proc, mylist, readers>>

add_item_list(p) ==
  /\ ml[p].pc = "add" /\ CanWrite
  /\ mylist' = <<ml[p].item>> \o mylist
  /\ ml' = [ml EXCEPT ![p] = Idle]
  /\ UNCHANGED <<lock_kind, in_proc, data, free, readers>>

(* The loop that moves nodes of mylist to the front of bin. *)
Unlink(p, Gone) ==
  LET moved[k \in 0 .. Len(mylist)] ==
        IF k = 0 THEN [kept |-> << >>, bin |-> << >>]
        ELSE LET l == moved[k - 1]
                 n == mylist[k]
             IN  IF n \in Gone
                 THEN [kept |-> l.kept, bin |-> <<n>> \o l.bin]
                 ELSE [kept |-> Append(l.kept, n), bin |-> l.bin]
      end == moved[Len(mylist)]
  IN  /\ CanWrite
      /\ mylist' = end.kept
      /\ ml' = [ml EXCEPT ![p] = [Idle EXCEPT !.pc = "free", !.bin = end.bin]]
      /\ UNCHANGED <<lock_kind, in_proc, data, free, readers>>

remove_items_list(p) ==
  /\ ml[p].pc = "remove"
  /\ Unlink(p, {n \in Node : data[n] = ml[p].num})

(* Mutant: list_add instead of list_move, the nodes stay in mylist. *)
safe_clear_listAdds(p) ==
  /\ ml[p].pc = "clear" /\ CanWrite
  /\ ml' = [ml EXCEPT ![p] =
              [Idle EXCEPT !.pc = "free", !.bin = Reverse(mylist)]]
  /\ UNCHANGED <<lock_kind, in_proc, mylist, data, free, readers>>

safe_clear_list(p) ==
  /\ ml[p].pc = "clear"
  /\ Unlink(p, Node)

(* One round of the loop of _unsafe_clear_list, or its end. *)
unsafe_clear_list(p) ==
  /\ ml[p].pc = "free"
  /\ IF ml[p].bin = << >>
     THEN ml' = [ml EXCEPT ![p] = Idle] /\ UNCHANGED free
     ELSE /\ ml' = [ml EXCEPT ![p].bin = Tail(@)]
          /\ free' = free \cup {Head(ml[p].bin)}
  /\ UNCHANGED <<lock_kind, in_proc, mylist, data, readers>>

MLNext ==
  \/ modlist_init \/ modlist_clean
  \/ \E p \in Procs :
       \/ Read(p) \/ ReadLock(p) \/ ReadStep(p) \/ ReadUnlock(p)
       \/ Write(p) \/ add_item_list(p) \/ remove_items_list(p)
       \/ safe_clear_list(p) \/ unsafe_clear_list(p)

MLSpec == MLInit /\ [][MLNext]_mlVars

-----------------------------------------------------------------------------
Held(p) == ToSet(ml[p].bin) \cup ({ml[p].item} \ {NoNode})

(* Every allocated node is in exactly one place: linked in mylist, in the  *)
(* bin of one writer, or in the hands of the process that adds it.  So no  *)
(* node is freed twice or while it is linked, and none is lost.            *)
NodesAccounted ==
  /\ IsInjective(mylist)
  /\ Node \ free = ToSet(mylist) \cup UNION {Held(p) : p \in Procs}
  /\ \A p \in Procs : /\ IsInjective(ml[p].bin)
                      /\ Held(p) \cap ToSet(mylist) = {}
                      /\ \A q \in Procs \ {p} : Held(p) \cap Held(q) = {}

Written(s) == [i \in DOMAIN s |-> data[s[i]]]

(* What a reader has written and the nodes it still has to visit are the   *)
(* list as it was when the reader took the lock and as it still is: no     *)
(* reader, however many walk at once, stands on a node that a writer has   *)
(* unlinked or freed, or mixes two states of the list.                     *)
SnapshotRead ==
  \A p \in readers :
    LET k == Len(ml[p].text)
    IN  /\ k <= Len(mylist) /\ ml[p].text = SubSeq(Written(mylist), 1, k)
        /\ ml[p].elem = IF k < Len(mylist) THEN mylist[k + 1] ELSE NoNode

(* used may pass buffer_len, because snprintf counts what it cuts off, but *)
(* by less than one number: once it has, nothing more is counted or        *)
(* written (buffer_len - used is negative, and never zero again).          *)
ReadOvershoot ==
  \A p \in Procs : ml[p].used > buffer_len =>
    \E v \in Value : ml[p].used < buffer_len + Chars(v)
=============================================================================
