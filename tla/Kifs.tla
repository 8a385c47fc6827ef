-------------------------------- MODULE Kifs --------------------------------
(***************************************************************************)
(* The registry of named entries of opcional2/kernel/kifs.c, behind the    *)
(* system call sys_kifs, and its two built-in entries, "list" and          *)
(* "clipboard".  Kernel modules create and remove further entries.         *)
(*                                                                         *)
(* A section under the spin lock mutex is one step.  sys_kifs releases the *)
(* lock before it uses the entry it has found, list_kifs sizes its buffer  *)
(* before it takes the lock, and the clipboard has no lock at all: between *)
(* those steps any other call may run.                                     *)
(***************************************************************************)
EXTENDS Kernel, SequencesExt

CONSTANTS
  Callers,    \* the processes that use the registry
  MAX_KIFS_ENTRY,
  NoSlot,     \* list_for_each_entry has ended without finding
  Name,       \* names that modules and users may use
  namelen,    \* [Name -> 1 .. NAME_SIZE], the length of a name
  NAME_SIZE,  \* MAX_KIFS_ENTRY_NAME_SIZE
  CLIP_SIZE,
  Maxchars    \* the sizes of buffer a user may pass

ASSUME KifsAssumption ==
  /\ Callers \subseteq Procs
  /\ MAX_KIFS_ENTRY \in Nat /\ MAX_KIFS_ENTRY >= 2
  /\ NoSlot \notin 1 .. MAX_KIFS_ENTRY
  /\ {"list", "clipboard"} \subseteq Name
  /\ NAME_SIZE \in Nat \ {0} /\ namelen \in [Name -> 1 .. NAME_SIZE]
  /\ CLIP_SIZE \in Nat \ {0} /\ Maxchars \subseteq Nat

VARIABLES
  entry,       \* entry_buff: name and callbacks of each slot
  entry_list,  \* slots in use, first to last
  free_list,   \* slots not in use
  num_entry,
  clipboard,   \* the characters, 0 is the terminator
  kf,          \* for each process: where it is and its local variables
  reused       \* history: slots removed since each process found its entry

kifsVars == <<entry, entry_list, free_list, num_entry, clipboard, kf, reused>>

(* The indices of entry_buff, from one. *)
Slot == 1 .. MAX_KIFS_ENTRY

(* A callback is NULL, one of kifs.c, or one of another module, which does *)
(* not touch this state.                                                   *)
Callback == {"NULL", "list", "clipboard", "module"}
Entry(n, r, w) == [name |-> n, read |-> r, write |-> w]

Out == [pc |-> "user", name |-> "list", elem |-> NoSlot,
        maxchars |-> 0, buffsize |-> 0, used |-> 0]

(***************************************************************************)
(* init_kifs_entry_set, called once by sched_init before any process runs: *)
(* list_add leaves the last slot first in free_list, and the two entries   *)
(* of kifs.c are created from there.                                       *)
(***************************************************************************)
KifsInit ==
  LET n == MAX_KIFS_ENTRY
      slots == [i \in 1 .. n |-> n + 1 - i]
  IN  /\ entry = [[s \in Slot |-> Entry("list", "NULL", "NULL")] EXCEPT
                    ![slots[1]] = Entry("list", "list", "NULL"),
                    ![slots[2]] = Entry("clipboard", "clipboard", "clipboard")]
      /\ entry_list = <<slots[2], slots[1]>>
      /\ free_list = SubSeq(slots, 3, n)
      /\ num_entry = 2
      /\ clipboard = [i \in 0 .. CLIP_SIZE - 1 |-> 0]
      /\ kf = [p \in Callers |-> Out]
      /\ reused = [p \in Callers |-> FALSE]

(* list_for_each_entry with strncmp: the slot of a name, or NoSlot. *)
Lookup(n) ==
  LET found == {s \in ToSet(entry_list) : entry[s].name = n}
  IN  IF found = {} THEN NoSlot ELSE CHOOSE s \in found : TRUE

-----------------------------------------------------------------------------
(* Where a slot is in entry_list. *)
Position(s) == CHOOSE i \in DOMAIN entry_list : entry_list[i] = s

(* Mutant: list_move_tail, while the first entry is still the one filled. *)
create_kifs_entryTail(n, r, w) ==
  /\ free_list # << >> /\ Lookup(n) = NoSlot
  /\ entry_list' = Append(entry_list, Head(free_list))
  /\ free_list' = Tail(free_list)
  /\ num_entry' = num_entry + 1
  /\ entry' = [entry EXCEPT ![Head(entry_list')] = Entry(n, r, w)]
  /\ UNCHANGED <<clipboard, kf, reused>>

(* Without a free slot, or if the name is taken, NULL and no change. *)
create_kifs_entry(n, r, w) ==
  /\ free_list # << >> /\ Lookup(n) = NoSlot
  /\ entry_list' = <<Head(free_list)>> \o entry_list
  /\ free_list' = Tail(free_list)
  /\ num_entry' = num_entry + 1
  /\ entry' = [entry EXCEPT ![Head(entry_list')] = Entry(n, r, w)]
  /\ UNCHANGED <<clipboard, kf, reused>>

(* Mutant: the slot goes back to free_list and stays in entry_list. *)
remove_kifs_entryKeeps(n) ==
  /\ Lookup(n) # NoSlot
  /\ free_list' = <<Lookup(n)>> \o free_list
  /\ num_entry' = num_entry - 1
  /\ reused' = [p \in Callers |-> reused[p] \/ kf[p].elem = Lookup(n)]
  /\ UNCHANGED <<entry, entry_list, clipboard, kf>>

(* An unknown name returns -EINVAL and changes nothing. *)
remove_kifs_entry(n) ==
  /\ Lookup(n) # NoSlot
  /\ entry_list' = RemoveAt(entry_list, Position(Lookup(n)))
  /\ free_list' = <<Lookup(n)>> \o free_list
  /\ num_entry' = num_entry - 1
  /\ reused' = [p \in Callers |-> reused[p] \/ kf[p].elem = Lookup(n)]
  /\ UNCHANGED <<entry, clipboard, kf>>

-----------------------------------------------------------------------------
Return(p) == kf' = [kf EXCEPT ![p] = Out]
Goto(p, l, m) ==
  kf' = [kf EXCEPT ![p] = [Out EXCEPT !.pc = l, !.maxchars = m]]

(* sys_kifs up to spin_unlock: an entry is found, or the call returns      *)
(* -EINVAL.                                                                *)
sys_kifs(p, n) ==
  /\ kf[p].pc = "user" /\ Lookup(n) # NoSlot
  /\ kf' = [kf EXCEPT ![p] = [Out EXCEPT !.pc = "found", !.name = n,
                                         !.elem = Lookup(n)]]
  /\ UNCHANGED <<entry, entry_list, free_list, num_entry, clipboard, reused>>

(* Whether a call reads or writes through the entry is its op_mode. *)
CallbackOf(s, op_mode) ==
  IF op_mode = "read" THEN entry[s].read ELSE entry[s].write

(* The switch on op_mode, with the call's two other arguments: a callback  *)
(* that is NULL returns -EPERM.                                            *)
Dispatch(p, op_mode, m) ==
  /\ kf[p].pc = "found"
  /\ IF CallbackOf(kf[p].elem, op_mode) = "NULL"
       THEN Return(p) /\ reused' = [reused EXCEPT ![p] = FALSE]
       ELSE /\ kf' = [kf EXCEPT ![p].pc = op_mode, ![p].maxchars = m]
            /\ UNCHANGED reused
  /\ UNCHANGED <<entry, entry_list, free_list, num_entry, clipboard>>

(* The call through elem reads the callback again.  One of another module  *)
(* returns without touching this state; one that is NULL by now kills the  *)
(* process.                                                                *)
CallEntry(p) ==
  LET callback == CallbackOf(kf[p].elem, kf[p].pc)
  IN  /\ kf[p].pc \in {"read", "write"}
      /\ \/ callback = "list" /\ Goto(p, "size", kf[p].maxchars)
         \/ callback = "clipboard" /\ kf[p].pc = "read"
              /\ Goto(p, "strlen", kf[p].maxchars)
         \/ callback = "clipboard" /\ kf[p].pc = "write"
              /\ Goto(p, "copyin", kf[p].maxchars)
         \/ callback = "module" /\ Return(p)
         \/ callback = "NULL" /\ Goto(p, "killed", 0)
      /\ reused' = [reused EXCEPT ![p] = FALSE]
      /\ UNCHANGED <<entry, entry_list, free_list, num_entry, clipboard>>

-----------------------------------------------------------------------------
(* list_kifs *)

LINE == NAME_SIZE + 2
MinOf(a, b) == IF a < b THEN a ELSE b

(* num_entry is read without the lock; vmalloc(0) fails. *)
ListSize(p) ==
  LET size == MinOf(kf[p].maxchars, LINE * num_entry)
  IN  /\ kf[p].pc = "size"
      /\ IF size = 0 THEN Return(p)
         ELSE kf' = [kf EXCEPT ![p] = [Out EXCEPT !.pc = "list",
                                                  !.buffsize = size]]
      /\ UNCHANGED <<entry, entry_list, free_list, num_entry, clipboard,
                     reused>>

(* Characters used by the first k names, each followed by a newline. *)
Used(k) ==
  LET used[j \in 0 .. Len(entry_list)] ==
        IF j = 0 THEN 0
        ELSE used[j - 1] + namelen[entry[entry_list[j]].name] + 1
  IN  used[k]

(* Mutant: the room for the newline and the terminator is forgotten. *)
NoRoomLax(p) ==
  \E k \in 0 .. Len(entry_list) - 1 : Used(k) + NAME_SIZE > kf[p].buffsize

(* Some entry meets used + MAX_KIFS_ENTRY_NAME_SIZE + 2 > buffsize. *)
NoRoom(p) ==
  \E k \in 0 .. Len(entry_list) - 1 : Used(k) + LINE > kf[p].buffsize

(* The loop under the lock: -ENOSPC, or the text and its length. *)
ListSection(p) ==
  /\ kf[p].pc = "list"
  /\ IF NoRoom(p) THEN Return(p)
     ELSE kf' = [kf EXCEPT ![p].pc = "terminate",
                           ![p].used = Used(Len(entry_list))]
  /\ UNCHANGED <<entry, entry_list, free_list, num_entry, clipboard, reused>>

(* kbuff[used++] = '\0', copy_to_user, vfree, return used. *)
ListEnd(p) ==
  /\ kf[p].pc = "terminate" /\ Return(p)
  /\ UNCHANGED <<entry, entry_list, free_list, num_entry, clipboard, reused>>

-----------------------------------------------------------------------------
(* clipboard_kifs_read and clipboard_kifs_write *)

(* strlen walks to the first 0, past the end if there is none. *)
strlen ==
  LET ends == {i \in 0 .. CLIP_SIZE - 1 : clipboard[i] = 0}
  IN  IF ends = {} THEN CLIP_SIZE
      ELSE CHOOSE i \in ends : \A j \in ends : i <= j

ClipRead(p) ==
  /\ kf[p].pc = "strlen"
  /\ IF strlen <= kf[p].maxchars
     THEN kf' = [kf EXCEPT ![p] = [Out EXCEPT !.pc = "copyout",
                                              !.used = strlen]]
     ELSE Return(p)
  /\ UNCHANGED <<entry, entry_list, free_list, num_entry, clipboard, reused>>

(* copy_to_user(buffer, clipboard, used): used may be stale by now. *)
ClipCopyOut(p) ==
  /\ kf[p].pc = "copyout" /\ Return(p)
  /\ UNCHANGED <<entry, entry_list, free_list, num_entry, clipboard, reused>>

ClipFits(m) == m < CLIP_SIZE

(* copy_from_user stores maxchars characters; after a fault the last ones  *)
(* are zero.                                                               *)
ClipCopyIn(p) ==
  /\ kf[p].pc = "copyin"
  /\ IF ClipFits(kf[p].maxchars)
     THEN \E n \in 0 .. kf[p].maxchars :
            /\ clipboard' = [i \in DOMAIN clipboard |->
                               IF i < n THEN 1
                               ELSE IF i < kf[p].maxchars THEN 0
                               ELSE clipboard[i]]
            /\ kf' = [kf EXCEPT ![p] = [Out EXCEPT !.pc = "nul", !.used = n]]
     ELSE Return(p) /\ UNCHANGED clipboard
  /\ UNCHANGED <<entry, entry_list, free_list, num_entry, reused>>

(* clipboard[used] = '\0' *)
ClipTerminate(p) ==
  /\ kf[p].pc = "nul"
  /\ clipboard' = [clipboard EXCEPT ![kf[p].used] = 0]
  /\ Return(p)
  /\ UNCHANGED <<entry, entry_list, free_list, num_entry, reused>>

KifsNext ==
  \/ \E n \in Name : create_kifs_entry(n, "module", "NULL")
  \/ \E n \in Name : remove_kifs_entry(n)
  \/ \E p \in Callers :
       \/ \E n \in Name : sys_kifs(p, n)
       \/ \E o \in {"read", "write"}, m \in Maxchars : Dispatch(p, o, m)
       \/ CallEntry(p)
       \/ ListSize(p) \/ ListSection(p) \/ ListEnd(p)
       \/ ClipRead(p) \/ ClipCopyOut(p) \/ ClipCopyIn(p) \/ ClipTerminate(p)

KifsSpec == KifsInit /\ [][KifsNext]_kifsVars

-----------------------------------------------------------------------------
(* The two lists share the slots out between them, num_entry counts the    *)
(* first, and "no entry will be created as long as another entry with the  *)
(* same name already exists" (kifs.h:29), through any sequence of creates  *)
(* and removes.                                                            *)
RegistryConsistent ==
  /\ IsInjective(entry_list) /\ IsInjective(free_list)
  /\ ToSet(entry_list) \cap ToSet(free_list) = {}
  /\ ToSet(entry_list) \cup ToSet(free_list) = Slot
  /\ num_entry = Len(entry_list)
  /\ \A s, t \in ToSet(entry_list) : entry[s].name = entry[t].name => s = t

(* sys_kifs uses the entry it found after it has released the lock: until  *)
(* the call goes through, the slot still holds that entry, and the         *)
(* callback the call has tested is not NULL.  Only if the slot was removed *)
(* in between may the callback be another entry's, or none.                *)
FoundEntryStands ==
  \A p \in Callers :
    kf[p].pc \in {"found", "read", "write"} /\ ~ reused[p]
      => /\ kf[p].elem \in ToSet(entry_list)
         /\ entry[kf[p].elem].name = kf[p].name
         /\ kf[p].pc \in {"read", "write"}
              => CallbackOf(kf[p].elem, kf[p].pc) # "NULL"

(* list_kifs never writes past its buffer, terminator included, although   *)
(* the number of entries it was sized for may have changed.                *)
ListFits ==
  \A p \in Callers : kf[p].pc = "terminate" => kf[p].used < kf[p].buffsize

(* However the unlocked writes to the clipboard interleave, it has a       *)
(* terminator inside, so strlen stays inside, and what a reader copies     *)
(* with a length that is stale is inside too.                              *)
ClipboardTerminated ==
  /\ \E i \in 0 .. CLIP_SIZE - 1 : clipboard[i] = 0
  /\ \A p \in Callers : kf[p].pc \in {"copyout", "nul"} =>
                        kf[p].used <= CLIP_SIZE - 1

(* What the two entries of the registry itself give their readers stays    *)
(* inside its buffers, whatever changes while it is prepared.              *)
BuffersHold == ListFits /\ ClipboardTerminated
=============================================================================
