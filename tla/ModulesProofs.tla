----------------------------- MODULE ModulesProofs -----------------------------
(***************************************************************************)
(* Proofs about the smaller modules of the repository: the list of         *)
(* integers (ModList) and the registry of named entries (Kifs), for any    *)
(* number of nodes, slots and processes; the count that fifo_open and      *)
(* fifo_release keep by hand (FifoModule) and the device of chardev.c that *)
(* may be open only once, for any pattern of signals and any length of the *)
(* message; and the circular buffer as a queue (CBufferOps), for any       *)
(* capacity.                                                               *)
(***************************************************************************)
EXTENDS ModList, Kifs, FifoModule, Chardev, CBufferOps, CBufferProofs

-----------------------------------------------------------------------------
(***************************************************************************)
(* The registry.  Two facts make it inductive: only slots of free_list are *)
(* given a name, so an entry in use keeps its own; and the last character  *)
(* of the clipboard is never anything but 0.                               *)
(***************************************************************************)
Places == {"user", "found", "read", "write", "killed", "size", "list",
           "terminate", "strlen", "copyout", "copyin", "nul"}
Using == {"found", "read", "write"}
Locals == [pc : Places, name : Name, elem : Slot \cup {NoSlot},
           maxchars : Nat, buffsize : Nat, used : Nat]

KTypes ==
  /\ entry \in [Slot -> [name : Name, read : Callback, write : Callback]]
  /\ entry_list \in Seq(Slot) /\ free_list \in Seq(Slot)
  /\ num_entry \in Nat
  /\ clipboard \in [0 .. CLIP_SIZE - 1 -> 0 .. 1]
  /\ kf \in [Callers -> Locals]
  /\ reused \in [Callers -> BOOLEAN]

Registry ==
  /\ Distinct(entry_list) /\ Distinct(free_list)
  /\ Elements(entry_list) \cap Elements(free_list) = {}
  /\ Elements(entry_list) \cup Elements(free_list) = Slot
  /\ num_entry = Len(entry_list)
  /\ \A s, t \in Elements(entry_list) : entry[s].name = entry[t].name => s = t

(* What a call that has found slot s and is at place l may rely on.        *)
Stands(s, n, l) == /\ s \in Elements(entry_list) /\ entry[s].name = n
                   /\ l = "read" => entry[s].read # "NULL"
                   /\ l = "write" => entry[s].write # "NULL"

Found ==
  \A p \in Callers :
    kf[p].pc \in Using /\ ~ reused[p]
      => Stands(kf[p].elem, kf[p].name, kf[p].pc)

Sized ==
  \A p \in Callers : /\ kf[p].pc = "list" => kf[p].buffsize > 0
                     /\ kf[p].pc = "terminate" => kf[p].used < kf[p].buffsize

LastIsZero ==
  /\ clipboard[CLIP_SIZE - 1] = 0
  /\ \A p \in Callers : kf[p].pc \in {"copyout", "nul"} =>
                        kf[p].used <= CLIP_SIZE - 1

KInv == KTypes /\ Registry /\ Found /\ Sized /\ LastIsZero

(* The sets and injections of the community modules. *)
LEMMA SequenceSets ==
  ASSUME NEW S, NEW q \in Seq(S)
  PROVE  ToSet(q) = Elements(q) /\ (IsInjective(q) <=> Distinct(q))
<1>1. DOMAIN q = 1 .. Len(q)
  OBVIOUS
<1> QED
  BY <1>1 DEF ToSet, Elements, IsInjective, Distinct

LEMMA KInvMeans ==
  ASSUME KifsAssumption, KInv
  PROVE  RegistryConsistent /\ FoundEntryStands /\ BuffersHold
<1>1. /\ ToSet(entry_list) = Elements(entry_list) /\ ToSet(free_list) = Elements(free_list)
      /\ (IsInjective(entry_list) <=> Distinct(entry_list))
      /\ (IsInjective(free_list) <=> Distinct(free_list))
  BY SequenceSets DEF KInv, KTypes
<1>2. RegistryConsistent
  BY <1>1 DEF KInv, Registry, RegistryConsistent
<1>3. FoundEntryStands
  BY <1>1 DEF KInv, Found, Stands, Using, FoundEntryStands, CallbackOf
<1>4. BuffersHold
  BY DEF KInv, Sized, LastIsZero, BuffersHold, ListFits, ClipboardTerminated,
         KifsAssumption
<1> QED
  BY <1>2, <1>3, <1>4

LEMMA KInitial ==
  ASSUME KifsAssumption, KifsInit
  PROVE  KInv
<1> DEFINE n == MAX_KIFS_ENTRY
           slots == [i \in 1 .. n |-> n + 1 - i]
<1>1. n \in Nat /\ n >= 2 /\ Slot = 1 .. n
  BY DEF KifsAssumption, Slot
<1>2. /\ entry_list = <<n - 1, n>> /\ free_list = SubSeq(slots, 3, n)
      /\ num_entry = 2
      /\ entry = [[s \in Slot |-> Entry("list", "NULL", "NULL")] EXCEPT
                    ![n] = Entry("list", "list", "NULL"),
                    ![n - 1] = Entry("clipboard", "clipboard", "clipboard")]
  <2>1. slots[1] = n /\ slots[2] = n - 1
    BY <1>1
  <2> QED BY <2>1 DEF KifsInit
<1>3. /\ free_list \in Seq(Slot) /\ Len(free_list) = n - 2
      /\ \A i \in 1 .. n - 2 : free_list[i] = n - 1 - i
  <2>1. slots \in Seq(Slot) /\ Len(slots) = n
    BY <1>1
  <2>2. Len(SubSeq(slots, 3, n)) = n - 2 /\ SubSeq(slots, 3, n) \in Seq(Slot)
        /\ \A i \in 1 .. n - 2 : SubSeq(slots, 3, n)[i] = slots[i + 2]
    <3> HIDE DEF slots
    <3> QED BY <1>1, <2>1
  <2>3. \A i \in 1 .. n - 2 : slots[i + 2] = n - 1 - i
    BY <1>1
  <2> QED BY <1>2, <2>2, <2>3
<1>4. entry_list \in Seq(Slot) /\ Len(entry_list) = 2
      /\ entry_list[1] = n - 1 /\ entry_list[2] = n
  BY <1>1, <1>2
<1> HIDE DEF n, slots
<1>5. Elements(entry_list) = {n - 1, n}
  BY <1>1, <1>4 DEF Elements
<1>6. Elements(free_list) = 1 .. n - 2
  <2>1. ASSUME NEW k \in 1 .. n - 2  PROVE k \in Elements(free_list)
    <3>1. n - 1 - k \in 1 .. n - 2 /\ n - 1 - (n - 1 - k) = k
      BY <1>1
    <3>2. free_list[n - 1 - k] = k
      <4> DEFINE i == n - 1 - k
      <4> HIDE DEF i
      <4>1. free_list[i] = n - 1 - i
        BY <1>3, <3>1 DEF i
      <4> QED BY <3>1, <4>1 DEF i
    <3> QED BY <1>3, <3>1, <3>2 DEF Elements
  <2>2. ASSUME NEW k \in 1 .. n - 2  PROVE free_list[k] \in 1 .. n - 2
    <3>1. free_list[k] = n - 1 - k
      BY <1>3
    <3> QED BY <1>1, <3>1
  <2>3. Elements(free_list) = {free_list[k] : k \in 1 .. n - 2}
    BY <1>3 DEF Elements
  <2> QED BY <2>1, <2>2, <2>3
<1>7. /\ entry[n].name = "list" /\ entry[n - 1].name = "clipboard"
      /\ entry \in [Slot -> [name : Name, read : Callback, write : Callback]]
  <2>1. "list" \in Name /\ "clipboard" \in Name
    BY DEF KifsAssumption
  <2> DEFINE E == [name : Name, read : Callback, write : Callback]
             a == Entry("list", "NULL", "NULL")
             b == Entry("list", "list", "NULL")
             c == Entry("clipboard", "clipboard", "clipboard")
  <2>2. a \in E /\ b \in E /\ c \in E /\ b.name = "list" /\ c.name = "clipboard"
    BY <2>1 DEF Entry, Callback
  <2> HIDE DEF E, a, b, c
  <2>3. n \in Slot /\ n - 1 \in Slot /\ n # n - 1
    BY <1>1
  <2>4. entry = [[s \in Slot |-> a] EXCEPT ![n] = b, ![n - 1] = c]
    BY <1>2 DEF a, b, c
  <2>5. entry \in [Slot -> E] /\ entry[n] = b /\ entry[n - 1] = c
    BY <2>2, <2>3, <2>4
  <2> QED BY <2>2, <2>5 DEF E
<1>8. Registry
  <2>1. Distinct(entry_list) /\ Distinct(free_list)
    BY <1>1, <1>3, <1>4 DEF Distinct
  <2>2. Elements(entry_list) \cap Elements(free_list) = {}
        /\ Elements(entry_list) \cup Elements(free_list) = Slot
    BY <1>1, <1>5, <1>6
  <2>3. \A s, t \in Elements(entry_list) : entry[s].name = entry[t].name => s = t
    BY <1>5, <1>7
  <2>4. num_entry = Len(entry_list)
    BY <1>2, <1>4
  <2> QED BY <2>1, <2>2, <2>3, <2>4 DEF Registry
<1>9. /\ kf = [p \in Callers |-> Out] /\ reused = [p \in Callers |-> FALSE]
      /\ clipboard = [i \in 0 .. CLIP_SIZE - 1 |-> 0]
  BY DEF KifsInit
<1>10. KTypes
  <2>1. Out \in Locals
    BY DEF Out, Locals, Places, KifsAssumption
  <2>2. kf \in [Callers -> Locals] /\ reused \in [Callers -> BOOLEAN]
    BY <1>9, <2>1
  <2>3. clipboard \in [0 .. CLIP_SIZE - 1 -> 0 .. 1]
    BY <1>9
  <2>4. num_entry \in Nat
    BY <1>2
  <2> QED BY <1>3, <1>4, <1>7, <2>2, <2>3, <2>4 DEF KTypes
<1> QED
  BY <1>8, <1>9, <1>10
  DEF KInv, Found, Using, Sized, LastIsZero, Out, KifsAssumption

(* What a lookup finds. *)
LEMMA LookupFinds ==
  ASSUME KifsAssumption, KInv, NEW n \in Name
  PROVE  /\ Lookup(n) # NoSlot => /\ Lookup(n) \in Elements(entry_list)
                                  /\ entry[Lookup(n)].name = n
         /\ Lookup(n) = NoSlot => \A s \in Elements(entry_list) : entry[s].name # n
<1> DEFINE found == {s \in ToSet(entry_list) : entry[s].name = n}
<1>1. Lookup(n) = IF found = {} THEN NoSlot ELSE CHOOSE s \in found : TRUE
  BY DEF Lookup
<1>2. ToSet(entry_list) = Elements(entry_list) /\ Elements(entry_list) \subseteq Slot
  BY SequenceSets DEF KInv, KTypes, Elements
<1>3. \A s \in found : s \in Elements(entry_list) /\ entry[s].name = n /\ s # NoSlot
  BY <1>2 DEF KifsAssumption, Slot
<1>4. CASE found = {}
  BY <1>1, <1>2, <1>4
<1>5. CASE found # {}
  <2> HIDE DEF found
  <2>1. Lookup(n) \in found
    BY <1>1, <1>5
  <2> QED BY <1>3, <2>1
<1> QED
  BY <1>4, <1>5

(* create_kifs_entry fills a slot that nobody has found. *)
LEMMA KCreate ==
  ASSUME KifsAssumption, KInv, NEW n \in Name, create_kifs_entry(n, "module", "NULL")
  PROVE  KInv'
<1> DEFINE h == Head(free_list)
           e == Entry(n, "module", "NULL")
           E == [name : Name, read : Callback, write : Callback]
<1>1. /\ free_list # << >> /\ Lookup(n) = NoSlot
      /\ entry_list' = <<h>> \o entry_list /\ free_list' = Tail(free_list)
      /\ num_entry' = num_entry + 1
      /\ entry' = [entry EXCEPT ![h] = e]
      /\ UNCHANGED <<clipboard, kf, reused>>
  <2>1. h = Head(<<h>> \o entry_list)
    BY DEF KInv, KTypes
  <2> QED BY <2>1 DEF create_kifs_entry
<1>2. h \in Slot /\ h \in Elements(free_list) /\ h \notin Elements(entry_list)
  <2>1. free_list \in Seq(Slot)
    BY DEF KInv, KTypes
  <2>2. h \in Slot /\ h \in Elements(free_list)
    BY <1>1, <2>1, DistinctTail
  <2> QED BY <2>2 DEF KInv, Registry
<1>3. e \in E /\ e.name = n
  BY DEF Entry, Callback
<1> HIDE DEF h, e, E
<1>4. entry' \in [Slot -> E] /\ entry'[h].name = n
      /\ \A s \in Slot \ {h} : entry'[s] = entry[s]
  BY <1>1, <1>2, <1>3 DEF KInv, KTypes, E
<1>5. /\ Distinct(entry_list') /\ Elements(entry_list') = {h} \cup Elements(entry_list)
      /\ entry_list' \in Seq(Slot) /\ Len(entry_list') = Len(entry_list) + 1
  <2>1. entry_list \in Seq(Slot) /\ Distinct(entry_list)
    BY DEF KInv, KTypes, Registry
  <2> QED BY <1>1, <1>2, <2>1, DistinctCons
<1>6. /\ Distinct(free_list') /\ Elements(free_list') = Elements(free_list) \ {h}
      /\ free_list' \in Seq(Slot)
  <2>1. free_list \in Seq(Slot) /\ Distinct(free_list)
    BY DEF KInv, KTypes, Registry
  <2> QED BY <1>1, <2>1, DistinctTail DEF h
<1>7. Elements(entry_list) \subseteq Slot
  BY DEF KInv, KTypes, Elements
<1>8. \A s \in Elements(entry_list) : entry[s].name # n
  BY <1>1, LookupFinds
<1>9. Registry'
  <2>1. ASSUME NEW s \in Elements(entry_list'), NEW t \in Elements(entry_list'),
               entry'[s].name = entry'[t].name
        PROVE  s = t
    BY <1>2, <1>4, <1>5, <1>7, <1>8, <2>1 DEF KInv, Registry
  <2>2. num_entry' = Len(entry_list')
    BY <1>1, <1>5 DEF KInv, KTypes, Registry
  <2>3. /\ Elements(entry_list') \cap Elements(free_list') = {}
        /\ Elements(entry_list') \cup Elements(free_list') = Slot
    BY <1>2, <1>5, <1>6 DEF KInv, Registry
  <2> QED BY <1>5, <1>6, <2>1, <2>2, <2>3 DEF Registry
<1>10. KTypes'
  BY <1>1, <1>4, <1>5, <1>6 DEF KInv, KTypes, E
<1>11. Found'
  <2> SUFFICES ASSUME NEW p \in Callers, kf[p].pc \in Using, ~ reused[p]
               PROVE  Stands(kf[p].elem, kf[p].name, kf[p].pc)'
    BY <1>1 DEF Found
  <2>1. Stands(kf[p].elem, kf[p].name, kf[p].pc)
    BY DEF KInv, Found
  <2>2. kf[p].elem \in Elements(entry_list') /\ entry'[kf[p].elem] = entry[kf[p].elem]
    BY <1>2, <1>4, <1>5, <1>7, <2>1 DEF Stands
  <2> QED BY <1>1, <2>1, <2>2 DEF Stands
<1>12. Sized' /\ LastIsZero'
  BY <1>1 DEF KInv, Sized, LastIsZero
<1> QED
  BY <1>9, <1>10, <1>11, <1>12 DEF KInv

(* remove_kifs_entry moves a slot back, and marks those who have found it. *)
LEMMA KRemove ==
  ASSUME KifsAssumption, KInv, NEW n \in Name, remove_kifs_entry(n)
  PROVE  KInv'
<1> DEFINE h == Lookup(n)
           at == Position(h)
<1>1. /\ h # NoSlot /\ entry_list' = RemoveAt(entry_list, at)
      /\ free_list' = <<h>> \o free_list
      /\ num_entry' = num_entry - 1
      /\ reused' = [p \in Callers |-> reused[p] \/ kf[p].elem = h]
      /\ UNCHANGED <<entry, clipboard, kf>>
  BY DEF remove_kifs_entry
<1>2. h \in Elements(entry_list)
  BY <1>1, LookupFinds
<1>3. at \in 1 .. Len(entry_list) /\ entry_list[at] = h
  <2>1. DOMAIN entry_list = 1 .. Len(entry_list)
    BY DEF KInv, KTypes
  <2> HIDE DEF h
  <2>2. \E i \in DOMAIN entry_list : entry_list[i] = h
    BY <1>2, <2>1 DEF Elements
  <2> QED BY <2>1, <2>2 DEF Position
<1> HIDE DEF h, at
<1>4. /\ Distinct(entry_list') /\ Elements(entry_list') = Elements(entry_list) \ {h}
      /\ entry_list' \in Seq(Slot) /\ Len(entry_list') = Len(entry_list) - 1
  <2>0. at \in 1 .. Len(entry_list)
    BY <1>3
  <2>1. entry_list \in Seq(Slot) /\ Distinct(entry_list)
    BY DEF KInv, KTypes, Registry
  <2>2. /\ RemoveAt(entry_list, at) \in Seq(Slot)
        /\ Len(RemoveAt(entry_list, at)) = Len(entry_list) - 1
    BY <2>0, <2>1, DistinctRemove, Zenon
  <2>3. /\ Distinct(RemoveAt(entry_list, at))
        /\ Elements(RemoveAt(entry_list, at)) = Elements(entry_list) \ {entry_list[at]}
    <3> DEFINE q == entry_list
    <3>1. q \in Seq(Slot) /\ Distinct(q) /\ at \in 1 .. Len(q) BY <2>0, <2>1
    <3> HIDE DEF q
    <3>2. Distinct(RemoveAt(q, at)) /\ Elements(RemoveAt(q, at)) = Elements(q) \ {q[at]}
      BY <3>1, DistinctRemove
    <3> QED BY <3>2, Zenon DEF q
  <2> QED BY <1>1, <1>3, <2>2, <2>3
<1>5. h \in Slot /\ h \notin Elements(free_list)
  BY <1>2 DEF KInv, KTypes, Registry, Elements
<1>6. /\ Distinct(free_list') /\ Elements(free_list') = {h} \cup Elements(free_list)
      /\ free_list' \in Seq(Slot)
  <2>1. free_list \in Seq(Slot) /\ Distinct(free_list)
    BY DEF KInv, KTypes, Registry
  <2> QED BY <1>1, <1>5, <2>1, DistinctCons
<1>7. Registry'
  <2>1. \A s, t \in Elements(entry_list') : entry'[s].name = entry'[t].name => s = t
    BY <1>1, <1>4 DEF KInv, Registry
  <2>2. num_entry' = Len(entry_list')
    BY <1>1, <1>4 DEF KInv, KTypes, Registry
  <2>3. /\ Elements(entry_list') \cap Elements(free_list') = {}
        /\ Elements(entry_list') \cup Elements(free_list') = Slot
    BY <1>2, <1>4, <1>6 DEF KInv, Registry
  <2> QED BY <1>4, <1>6, <2>1, <2>2, <2>3 DEF Registry
<1>8. KTypes'
  <2>1. num_entry' \in Nat
    <3>1. num_entry = Len(entry_list) /\ Len(entry_list) \in Nat
      BY DEF KInv, KTypes, Registry
    <3> QED BY <1>1, <1>3, <3>1
  <2>2. reused' \in [Callers -> BOOLEAN]
    BY <1>1 DEF KInv, KTypes
  <2> QED BY <1>1, <1>4, <1>6, <2>1, <2>2 DEF KInv, KTypes
<1>9. Found'
  <2> SUFFICES ASSUME NEW p \in Callers, kf[p].pc \in Using, ~ reused'[p]
               PROVE  Stands(kf[p].elem, kf[p].name, kf[p].pc)'
    BY <1>1 DEF Found
  <2>1. ~ reused[p] /\ kf[p].elem # h
    BY <1>1
  <2>2. Stands(kf[p].elem, kf[p].name, kf[p].pc)
    BY <2>1 DEF KInv, Found
  <2>3. kf[p].elem \in Elements(entry_list')
    BY <1>4, <2>1, <2>2 DEF Stands
  <2> QED BY <1>1, <2>2, <2>3 DEF Stands
<1>10. Sized' /\ LastIsZero'
  BY <1>1 DEF KInv, Sized, LastIsZero
<1> QED
  BY <1>7, <1>8, <1>9, <1>10 DEF KInv

(* A call's step that leaves the registry alone. *)
LEMMA KMove ==
  ASSUME KifsAssumption, KInv, NEW p \in Callers, NEW r \in Locals,
         kf' = [kf EXCEPT ![p] = r],
         UNCHANGED <<entry, entry_list, free_list, num_entry>>,
         reused' \in [Callers -> BOOLEAN],
         \A q \in Callers \ {p} : reused'[q] = reused[q],
         r.pc \in Using /\ ~ reused'[p] => Stands(r.elem, r.name, r.pc),
         r.pc = "list" => r.buffsize > 0,
         r.pc = "terminate" => r.used < r.buffsize,
         r.pc \in {"copyout", "nul"} => r.used <= CLIP_SIZE - 1,
         clipboard' \in [0 .. CLIP_SIZE - 1 -> 0 .. 1], clipboard'[CLIP_SIZE - 1] = 0
  PROVE  KInv'
<1> USE DEF KInv
<1>1. kf'[p] = r /\ (\A q \in Callers \ {p} : kf'[q] = kf[q])
      /\ kf' \in [Callers -> Locals]
  <2> HIDE DEF Locals
  <2> QED BY DEF KTypes
<1>2. KTypes'
  BY <1>1 DEF KTypes
<1>3. Registry'
  <2>1. Registry
    OBVIOUS
  <2>2. /\ entry' = entry /\ entry_list' = entry_list /\ free_list' = free_list
        /\ num_entry' = num_entry
    OBVIOUS
  <2> HIDE DEF KInv
  <2>3. Elements(entry_list') = Elements(entry_list)
        /\ Elements(free_list') = Elements(free_list)
        /\ (Distinct(entry_list) => Distinct(entry_list'))
        /\ (Distinct(free_list) => Distinct(free_list'))
    BY <2>2
  <2> QED BY <2>1, <2>2, <2>3 DEF Registry
<1>4. Found'
  <2> SUFFICES ASSUME NEW q \in Callers, kf'[q].pc \in Using, ~ reused'[q]
               PROVE  Stands(kf'[q].elem, kf'[q].name, kf'[q].pc)
    BY DEF Found, Elements, Stands
  <2>1. CASE q = p
    BY <1>1, <2>1
  <2>2. CASE q # p
    BY <1>1, <2>2 DEF Found
  <2> QED BY <2>1, <2>2
<1>5. Sized'
  <2> SUFFICES ASSUME NEW q \in Callers
               PROVE  /\ kf'[q].pc = "list" => kf'[q].buffsize > 0
                      /\ kf'[q].pc = "terminate" => kf'[q].used < kf'[q].buffsize
    BY DEF Sized
  <2>1. CASE q = p
    BY <1>1, <2>1
  <2>2. CASE q # p
    BY <1>1, <2>2 DEF Sized
  <2> QED BY <2>1, <2>2
<1>6. LastIsZero'
  <2> SUFFICES ASSUME NEW q \in Callers, kf'[q].pc \in {"copyout", "nul"}
               PROVE  kf'[q].used <= CLIP_SIZE - 1
    BY DEF LastIsZero
  <2>1. CASE q = p
    BY <1>1, <2>1
  <2>2. CASE q # p
    BY <1>1, <2>2 DEF LastIsZero
  <2> QED BY <2>1, <2>2
<1> QED
  BY <1>2, <1>3, <1>4, <1>5, <1>6

(* Where each number in a call's variables comes from. *)
LEMMA LocalsAt ==
  ASSUME KInv, NEW p \in Callers
  PROVE  /\ kf[p] \in Locals /\ kf[p].maxchars \in Nat /\ kf[p].buffsize \in Nat
         /\ kf[p].used \in Nat /\ kf[p].name \in Name
BY DEF KInv, KTypes, Locals

(* list_kifs: the characters after one more entry. *)
LEMMA UsedStep ==
  ASSUME KifsAssumption, KInv
  PROVE  /\ Used(0) = 0
         /\ \A k \in 0 .. Len(entry_list) : Used(k) \in Nat
         /\ \A k \in 1 .. Len(entry_list) :
              Used(k) = Used(k - 1) + namelen[entry[entry_list[k]].name] + 1
<1> DEFINE n == Len(entry_list)
           len == [j \in 1 .. n |-> namelen[entry[entry_list[j]].name]]
           round == [j \in 1 .. n |-> [l \in Nat |-> l + len[j] + 1]]
           Body(h) == [j \in 0 .. Len(entry_list) |->
                         IF j = 0 THEN 0
                         ELSE h[j - 1] + namelen[entry[entry_list[j]].name] + 1]
           used == CHOOSE h : h = Body(h)
<1>1. n \in Nat /\ len \in [1 .. n -> Nat]
  <2>1. \A j \in 1 .. n : entry[entry_list[j]].name \in Name
    BY DEF KInv, KTypes
  <2>2. \A x \in Name : namelen[x] \in Nat
    BY DEF KifsAssumption
  <2>3. n \in Nat
    BY DEF KInv, KTypes
  <2> QED BY <2>1, <2>2, <2>3
<1>2. \A j \in 1 .. n : len[j] = namelen[entry[entry_list[j]].name]
  OBVIOUS
<1> HIDE DEF len
<1>3. round \in [1 .. n -> [Nat -> Nat]]
  BY <1>1
<1>4. PICK h \in [0 .. n -> Nat] : IsRun(h, n, 0, round)
  <2> HIDE DEF round, n
  <2> QED BY <1>1, <1>3, LoopRuns
<1>5. h = Body(h)
  <2>1. \A j \in 0 .. n : j # 0 => j - 1 \in 0 .. n /\ j \in 1 .. n
    BY <1>1
  <2>2. \A j \in 0 .. n : h[j] = IF j = 0 THEN 0 ELSE round[j][h[j - 1]]
    <3> HIDE DEF round
    <3> QED BY <1>4 DEF IsRun
  <2>3. \A j \in 0 .. n : j # 0 => round[j][h[j - 1]] = h[j - 1] + len[j] + 1
    BY <2>1
  <2>4. \A j \in 0 .. n : j # 0 => len[j] = namelen[entry[entry_list[j]].name]
    BY <1>2, <2>1
  <2>5. Body(h) = [j \in 0 .. n |->
                     IF j = 0 THEN 0
                     ELSE h[j - 1] + namelen[entry[entry_list[j]].name] + 1]
    OBVIOUS
  <2>6. \A j \in 0 .. n :
          h[j] = IF j = 0 THEN 0
                 ELSE h[j - 1] + namelen[entry[entry_list[j]].name] + 1
    <3> HIDE DEF round
    <3> SUFFICES ASSUME NEW j \in 0 .. n, j # 0
                 PROVE  h[j] = h[j - 1] + namelen[entry[entry_list[j]].name] + 1
      BY <2>2
    <3>1. h[j] = round[j][h[j - 1]] BY <2>2
    <3> QED BY <2>3, <2>4, <3>1, Zenon
  <2> HIDE DEF round, Body, n
  <2> QED BY <2>5, <2>6
<1>6. used = Body(used)
  <2> HIDE DEF Body
  <2> QED BY <1>5
<1>7. \A k : Used(k) = used[k]
  BY DEF Used
<1> HIDE DEF used
<1>8. used[0] = 0
  <2>1. Body(used)[0] = 0
    BY <1>1
  <2>2. used[0] = Body(used)[0]
    <3> HIDE DEF Body
    <3> QED BY <1>6
  <2> QED BY <2>1, <2>2
<1>9. ASSUME NEW k \in 1 .. n
      PROVE  used[k] = used[k - 1] + namelen[entry[entry_list[k]].name] + 1
  <2>1. k \in 0 .. n /\ k # 0
    BY <1>1
  <2>2. Body(used)[k] = used[k - 1] + namelen[entry[entry_list[k]].name] + 1
    BY <2>1
  <2>3. used[k] = Body(used)[k]
    <3> HIDE DEF Body
    <3> QED BY <1>6
  <2> QED BY <2>2, <2>3
<1>10. \A k \in 0 .. n : used[k] \in Nat
  <2>1. ASSUME NEW k \in 1 .. n, used[k - 1] \in Nat  PROVE used[k] \in Nat
    <3>1. len[k] \in Nat /\ len[k] = namelen[entry[entry_list[k]].name]
      BY <1>1, <1>2
    <3>2. used[k] = used[k - 1] + len[k] + 1
      BY <1>9, <3>1
    <3> DEFINE a == used[k - 1]
               b == len[k]
    <3>3. a \in Nat /\ b \in Nat /\ used[k] = a + b + 1
      BY <2>1, <3>1, <3>2
    <3> HIDE DEF a, b
    <3> QED BY <3>3
  <2>2. n \in Nat /\ used[0] \in Nat
    BY <1>1, <1>8
  <2> HIDE DEF n
  <2> QED BY <2>1, <2>2, LoopStays
<1> QED
  BY <1>7, <1>8, <1>9, <1>10

(* What list_kifs writes, and its terminator, fit if every round had room. *)
LEMMA ListHasRoom ==
  ASSUME KifsAssumption, KInv, NEW p \in Callers, kf[p].pc = "list", ~ NoRoom(p)
  PROVE  Used(Len(entry_list)) \in Nat /\ Used(Len(entry_list)) < kf[p].buffsize
<1> DEFINE n == Len(entry_list)
           b == kf[p].buffsize
<1>1. n \in Nat /\ b \in Nat /\ b > 0
  BY LocalsAt DEF KInv, KTypes, Sized
<1>2. CASE n = 0
  BY <1>1, <1>2, UsedStep
<1>3. CASE n # 0
  <2>1. n \in 1 .. n /\ n - 1 \in 0 .. n /\ n - 1 \in 0 .. n - 1
    BY <1>1, <1>3
  <2> DEFINE len == namelen[entry[entry_list[n]].name]
             u == Used(n - 1)
  <2>2. len \in 1 .. NAME_SIZE /\ NAME_SIZE \in Nat
    BY <2>1 DEF KInv, KTypes, KifsAssumption
  <2>3. u \in Nat /\ Used(n) = u + len + 1
    BY <2>1, UsedStep
  <2>4. ~ (u + (NAME_SIZE + 2) > b)
    BY <2>1 DEF NoRoom, LINE
  <2> HIDE DEF n, b, len, u
  <2>5. u + len + 1 < b /\ u + len + 1 \in Nat
    BY <1>1, <2>2, <2>3, <2>4
  <2> QED BY <2>3, <2>5 DEF n, b
<1> QED
  BY <1>2, <1>3

(* The length of the clipboard's text is inside it. *)
LEMMA strlenInside ==
  ASSUME KifsAssumption, KInv
  PROVE  strlen \in Nat /\ strlen <= CLIP_SIZE - 1
<1> DEFINE ends == {i \in 0 .. CLIP_SIZE - 1 : clipboard[i] = 0}
<1>1. CLIP_SIZE \in Nat \ {0}
  BY DEF KifsAssumption
<1>2. ends \in SUBSET Nat /\ ends # {} /\ (\A i \in ends : i <= CLIP_SIZE - 1)
  BY <1>1 DEF KInv, LastIsZero
<1>3. strlen = IF ends = {} THEN CLIP_SIZE
               ELSE CHOOSE i \in ends : \A j \in ends : i <= j
  BY DEF strlen
<1> HIDE DEF ends
<1>4. \E i \in ends : \A j \in ends : i <= j
  BY <1>2, LeastElement
<1>5. strlen \in ends
  BY <1>2, <1>3, <1>4
<1> QED
  BY <1>2, <1>5

(* The records a call can be left with. *)
LEMMA OutType ==
  ASSUME KifsAssumption
  PROVE  Out \in Locals /\ Out.pc = "user"
BY DEF Out, Locals, Places, KifsAssumption

LEMMA OutWith ==
  ASSUME NEW l, NEW n, NEW e, NEW x
  PROVE  /\ [Out EXCEPT !.pc = l, !.maxchars = x]
             = [pc |-> l, name |-> "list", elem |-> NoSlot, maxchars |-> x,
                buffsize |-> 0, used |-> 0]
         /\ [Out EXCEPT !.pc = l, !.name = n, !.elem = e]
             = [pc |-> l, name |-> n, elem |-> e, maxchars |-> 0,
                buffsize |-> 0, used |-> 0]
         /\ [Out EXCEPT !.pc = l, !.buffsize = x]
             = [pc |-> l, name |-> "list", elem |-> NoSlot, maxchars |-> 0,
                buffsize |-> x, used |-> 0]
         /\ [Out EXCEPT !.pc = l, !.used = x]
             = [pc |-> l, name |-> "list", elem |-> NoSlot, maxchars |-> 0,
                buffsize |-> 0, used |-> x]
<1>1. ASSUME NEW r, r = [Out EXCEPT !.pc = l, !.maxchars = x]
      PROVE  r = [pc |-> l, name |-> "list", elem |-> NoSlot, maxchars |-> x,
           buffsize |-> 0, used |-> 0]
  BY <1>1 DEF Out
<1>2. ASSUME NEW r, r = [Out EXCEPT !.pc = l, !.name = n, !.elem = e]
      PROVE  r = [pc |-> l, name |-> n, elem |-> e, maxchars |-> 0,
           buffsize |-> 0, used |-> 0]
  BY <1>2 DEF Out
<1>3. ASSUME NEW r, r = [Out EXCEPT !.pc = l, !.buffsize = x]
      PROVE  r = [pc |-> l, name |-> "list", elem |-> NoSlot, maxchars |-> 0,
           buffsize |-> x, used |-> 0]
  BY <1>3 DEF Out
<1>4. ASSUME NEW r, r = [Out EXCEPT !.pc = l, !.used = x]
      PROVE  r = [pc |-> l, name |-> "list", elem |-> NoSlot, maxchars |-> 0,
           buffsize |-> 0, used |-> x]
  BY <1>4 DEF Out
<1> QED
  BY <1>1, <1>2, <1>3, <1>4, Zenon

(* Any step that ends the call. *)
LEMMA KReturn ==
  ASSUME KifsAssumption, KInv, NEW p \in Callers, Return(p),
         UNCHANGED <<entry, entry_list, free_list, num_entry>>,
         reused' \in [Callers -> BOOLEAN],
         \A q \in Callers \ {p} : reused'[q] = reused[q],
         clipboard' \in [0 .. CLIP_SIZE - 1 -> 0 .. 1], clipboard'[CLIP_SIZE - 1] = 0
  PROVE  KInv'
<1>1. kf' = [kf EXCEPT ![p] = Out]
  BY DEF Return
<1>2. Out \in Locals /\ Out.pc = "user"
  BY OutType
<1> QED
  BY <1>1, <1>2, KMove DEF Using

LEMMA Untouched ==
  ASSUME KInv, UNCHANGED <<clipboard, reused>>
  PROVE  /\ reused' \in [Callers -> BOOLEAN] /\ \A q \in Callers : reused'[q] = reused[q]
         /\ clipboard' \in [0 .. CLIP_SIZE - 1 -> 0 .. 1] /\ clipboard'[CLIP_SIZE - 1] = 0
BY DEF KInv, KTypes, LastIsZero

LEMMA KFind ==
  ASSUME KifsAssumption, KInv, NEW p \in Callers, NEW n \in Name, sys_kifs(p, n)
  PROVE  KInv'
<1> DEFINE h == Lookup(n)
           r == [Out EXCEPT !.pc = "found", !.name = n, !.elem = h]
<1>1. h \in Elements(entry_list) /\ entry[h].name = n
  BY LookupFinds DEF sys_kifs
<1>2. h \in Slot
  BY <1>1 DEF KInv, KTypes, Elements
<1>3. /\ kf' = [kf EXCEPT ![p] = r]
      /\ UNCHANGED <<entry, entry_list, free_list, num_entry, clipboard, reused>>
  BY DEF sys_kifs
<1> HIDE DEF h
<1>4. r \in Locals /\ r.pc = "found" /\ r.name = n /\ r.elem = h
  <2>1. r = [pc |-> "found", name |-> n, elem |-> h, maxchars |-> 0,
             buffsize |-> 0, used |-> 0]
    BY OutWith, Zenon
  <2> HIDE DEF r
  <2> QED BY <1>2, <2>1 DEF Locals, Places
<1> HIDE DEF r
<1>5. Stands(r.elem, r.name, r.pc)
  BY <1>1, <1>4 DEF Stands
<1> QED
  BY <1>3, <1>4, <1>5, KMove, Untouched

(* The call goes on to place l, which is inside no entry. *)
LEMMA KGoto ==
  ASSUME KifsAssumption, KInv, NEW p \in Callers, NEW m \in Nat,
         NEW l \in {"killed", "size", "strlen", "copyin"}, Goto(p, l, m),
         UNCHANGED <<entry, entry_list, free_list, num_entry>>,
         reused' \in [Callers -> BOOLEAN],
         \A q \in Callers \ {p} : reused'[q] = reused[q],
         clipboard' \in [0 .. CLIP_SIZE - 1 -> 0 .. 1], clipboard'[CLIP_SIZE - 1] = 0
  PROVE  KInv'
<1> DEFINE r == [Out EXCEPT !.pc = l, !.maxchars = m]
<1>1. r \in Locals /\ r.pc = l
  <2>1. r = [pc |-> l, name |-> "list", elem |-> NoSlot, maxchars |-> m,
             buffsize |-> 0, used |-> 0]
    BY OutWith, Zenon
  <2> HIDE DEF r
  <2> QED BY <2>1 DEF Locals, Places, KifsAssumption
<1>2. kf' = [kf EXCEPT ![p] = r]
  BY DEF Goto
<1> HIDE DEF r
<1>3. r.pc \notin Using /\ r.pc # "list" /\ r.pc # "terminate"
      /\ r.pc \notin {"copyout", "nul"}
  BY <1>1 DEF Using
<1> QED
  BY <1>1, <1>2, <1>3, KMove

(* The callback has been tested, and is called after another look.         *)
LEMMA KDispatch ==
  ASSUME KifsAssumption, KInv, NEW p \in Callers, NEW o \in {"read", "write"},
         NEW m \in Maxchars, Dispatch(p, o, m)
  PROVE  KInv'
<1>1. /\ reused' \in [Callers -> BOOLEAN]
      /\ \A q \in Callers \ {p} : reused'[q] = reused[q]
      /\ clipboard' \in [0 .. CLIP_SIZE - 1 -> 0 .. 1] /\ clipboard'[CLIP_SIZE - 1] = 0
      /\ UNCHANGED <<entry, entry_list, free_list, num_entry>>
  BY DEF Dispatch, KInv, KTypes, LastIsZero
<1>2. CASE Return(p)
  BY <1>1, <1>2, KReturn
<1>3. CASE ~ Return(p)
  <2>1. /\ kf' = [kf EXCEPT ![p].pc = o, ![p].maxchars = m]
        /\ CallbackOf(kf[p].elem, o) # "NULL" /\ kf[p].pc = "found"
        /\ reused' = reused
    BY <1>3 DEF Dispatch
  <2>2. kf[p] \in Locals
    BY DEF KInv, KTypes
  <2> DEFINE r == [kf[p] EXCEPT !.pc = o, !.maxchars = m]
  <2>3. m \in Nat
    BY DEF KifsAssumption
  <2>4. /\ r \in Locals /\ r.pc = o
        /\ r.elem = kf[p].elem /\ r.name = kf[p].name
    BY <2>2, <2>3 DEF Locals, Places
  <2>5. kf' = [kf EXCEPT ![p] = r]
    BY <2>1, <2>2, Zenon DEF KInv, KTypes
  <2> HIDE DEF r
  <2>6. r.pc \in Using /\ ~ reused'[p] => Stands(r.elem, r.name, r.pc)
    <3>1. ~ reused[p] => Stands(kf[p].elem, kf[p].name, "found")
      BY <2>1 DEF KInv, Found, Using
    <3> QED BY <2>1, <2>4, <3>1 DEF Stands, CallbackOf
  <2> QED BY <1>1, <2>4, <2>5, <2>6, KMove
<1> QED
  BY <1>2, <1>3

LEMMA KCall ==
  ASSUME KifsAssumption, KInv, NEW p \in Callers, CallEntry(p)
  PROVE  KInv'
<1>1. /\ reused' \in [Callers -> BOOLEAN]
      /\ \A q \in Callers \ {p} : reused'[q] = reused[q]
      /\ clipboard' \in [0 .. CLIP_SIZE - 1 -> 0 .. 1] /\ clipboard'[CLIP_SIZE - 1] = 0
      /\ UNCHANGED <<entry, entry_list, free_list, num_entry>>
  BY DEF CallEntry, KInv, KTypes, LastIsZero
<1>2. kf[p].maxchars \in Nat /\ 0 \in Nat
  BY DEF KInv, KTypes, Locals
<1>3. \/ Return(p)
      \/ \E l \in {"killed", "size", "strlen", "copyin"}, m \in {0, kf[p].maxchars} :
           Goto(p, l, m)
  BY DEF CallEntry
<1>4. CASE Return(p)
  BY <1>1, <1>4, KReturn
<1>5. CASE \E l \in {"killed", "size", "strlen", "copyin"}, m \in {0, kf[p].maxchars} :
             Goto(p, l, m)
  <2>1. PICK l \in {"killed", "size", "strlen", "copyin"}, m \in {0, kf[p].maxchars} :
               Goto(p, l, m)
    BY <1>5
  <2>2. m \in Nat
    BY <1>2
  <2> QED BY <1>1, <2>1, <2>2, KGoto
<1> QED
  BY <1>3, <1>4, <1>5

LEMMA KList ==
  ASSUME KifsAssumption, KInv, NEW p \in Callers,
         ListSize(p) \/ ListSection(p) \/ ListEnd(p)
  PROVE  KInv'
<1>1. UNCHANGED <<entry, entry_list, free_list, num_entry, clipboard, reused>>
  BY DEF ListSize, ListSection, ListEnd
<1>2. CASE Return(p)
  BY <1>1, <1>2, KReturn, Untouched
<1>3. CASE ListSize(p) /\ ~ Return(p)
  <2> DEFINE size == MinOf(kf[p].maxchars, LINE * num_entry)
             r == [Out EXCEPT !.pc = "list", !.buffsize = size]
  <2>1. size # 0 /\ kf' = [kf EXCEPT ![p] = r]
    BY <1>3 DEF ListSize
  <2>2. size \in Nat
    <3>1. LINE \in Nat /\ num_entry \in Nat
      BY DEF LINE, KifsAssumption, KInv, KTypes
    <3>2. LINE * num_entry \in Nat
      BY <3>1
    <3> QED BY <3>2, LocalsAt DEF MinOf
  <2> HIDE DEF size
  <2>3. r \in Locals /\ r.pc = "list" /\ r.buffsize = size
    <3>1. r = [pc |-> "list", name |-> "list", elem |-> NoSlot, maxchars |-> 0,
               buffsize |-> size, used |-> 0]
      BY OutWith, Zenon
    <3> HIDE DEF r
    <3> QED BY <2>2, <3>1 DEF Locals, Places, KifsAssumption
  <2> HIDE DEF r
  <2>4. r.buffsize > 0
    BY <2>1, <2>2, <2>3
  <2> QED BY <1>1, <2>1, <2>3, <2>4, KMove, Untouched DEF Using
<1>4. CASE ListSection(p) /\ ~ Return(p)
  <2> DEFINE u == Used(Len(entry_list))
             r == [kf[p] EXCEPT !.pc = "terminate", !.used = u]
  <2>1. kf[p].pc = "list" /\ ~ NoRoom(p)
        /\ kf' = [kf EXCEPT ![p].pc = "terminate", ![p].used = u]
    BY <1>4 DEF ListSection
  <2>2. u \in Nat /\ u < kf[p].buffsize
    BY <2>1, ListHasRoom
  <2> HIDE DEF u
  <2>3. r \in Locals /\ r.pc = "terminate" /\ r.used = u /\ r.buffsize = kf[p].buffsize
    BY <2>2, LocalsAt DEF Locals, Places
  <2>4. kf' = [kf EXCEPT ![p] = r]
    BY <2>1 DEF KInv, KTypes
  <2> HIDE DEF r
  <2> QED BY <1>1, <2>2, <2>3, <2>4, KMove, Untouched DEF Using
<1> QED
  BY <1>2, <1>3, <1>4 DEF ListEnd

LEMMA KClipRead ==
  ASSUME KifsAssumption, KInv, NEW p \in Callers, ClipRead(p) \/ ClipCopyOut(p)
  PROVE  KInv'
<1>1. UNCHANGED <<entry, entry_list, free_list, num_entry, clipboard, reused>>
  BY DEF ClipRead, ClipCopyOut
<1>2. CASE Return(p)
  BY <1>1, <1>2, KReturn, Untouched
<1>3. CASE ~ Return(p)
  <2> DEFINE r == [Out EXCEPT !.pc = "copyout", !.used = strlen]
  <2>1. kf' = [kf EXCEPT ![p] = r]
    BY <1>3 DEF ClipRead, ClipCopyOut
  <2>2. strlen \in Nat /\ strlen <= CLIP_SIZE - 1
    BY strlenInside
  <2>3. r \in Locals /\ r.pc = "copyout" /\ r.used = strlen
    <3>1. r = [pc |-> "copyout", name |-> "list", elem |-> NoSlot, maxchars |-> 0,
               buffsize |-> 0, used |-> strlen]
      BY OutWith, Zenon
    <3> HIDE DEF r
    <3> QED BY <2>2, <3>1 DEF Locals, Places, KifsAssumption
  <2> HIDE DEF r
  <2> QED BY <1>1, <2>1, <2>2, <2>3, KMove, Untouched DEF Using
<1> QED
  BY <1>2, <1>3

(* A write stays before the last character, which so remains 0. *)
LEMMA KClipWrite ==
  ASSUME KifsAssumption, KInv, NEW p \in Callers, ClipCopyIn(p) \/ ClipTerminate(p)
  PROVE  KInv'
<1>1. UNCHANGED <<entry, entry_list, free_list, num_entry, reused>>
      /\ reused' \in [Callers -> BOOLEAN]
      /\ \A q \in Callers : reused'[q] = reused[q]
  <2>1. UNCHANGED <<entry, entry_list, free_list, num_entry, reused>>
    BY Zenon DEF ClipCopyIn, ClipTerminate
  <2> QED BY <2>1 DEF KInv, KTypes
<1>2. /\ CLIP_SIZE \in Nat \ {0} /\ kf[p].maxchars \in Nat /\ kf[p].used \in Nat
      /\ clipboard \in [0 .. CLIP_SIZE - 1 -> 0 .. 1] /\ clipboard[CLIP_SIZE - 1] = 0
  BY LocalsAt DEF KifsAssumption, KInv, KTypes, LastIsZero
<1>3. CASE ClipTerminate(p)
  <2>1. Return(p) /\ kf[p].pc = "nul"
        /\ clipboard' = [clipboard EXCEPT ![kf[p].used] = 0]
    BY <1>3 DEF ClipTerminate
  <2>2. kf[p].used <= CLIP_SIZE - 1
    BY <2>1 DEF KInv, LastIsZero
  <2>3. clipboard' \in [0 .. CLIP_SIZE - 1 -> 0 .. 1] /\ clipboard'[CLIP_SIZE - 1] = 0
    BY <1>2, <2>1, <2>2
  <2> QED BY <1>1, <2>1, <2>3, KReturn
<1>4. CASE Return(p) /\ UNCHANGED clipboard
  <2>1. clipboard' \in [0 .. CLIP_SIZE - 1 -> 0 .. 1] /\ clipboard'[CLIP_SIZE - 1] = 0
    BY <1>2, <1>4
  <2> QED BY <1>1, <1>4, <2>1, KReturn
<1>5. CASE ClipCopyIn(p) /\ ClipFits(kf[p].maxchars)
  <2> DEFINE m == kf[p].maxchars
  <2>1. PICK n \in 0 .. m :
          /\ clipboard' = [i \in DOMAIN clipboard |->
                             IF i < n THEN 1 ELSE IF i < m THEN 0 ELSE clipboard[i]]
          /\ kf' = [kf EXCEPT ![p] = [Out EXCEPT !.pc = "nul", !.used = n]]
    BY <1>5, Zenon DEF ClipCopyIn
  <2> DEFINE r == [Out EXCEPT !.pc = "nul", !.used = n]
  <2>2. m \in Nat /\ m < CLIP_SIZE /\ n \in Nat /\ n <= m
    BY <1>2, <1>5 DEF ClipFits
  <2> HIDE DEF m
  <2>3. r \in Locals /\ r.pc = "nul" /\ r.used = n
    <3>1. r = [pc |-> "nul", name |-> "list", elem |-> NoSlot, maxchars |-> 0,
               buffsize |-> 0, used |-> n]
      BY OutWith, Zenon
    <3> HIDE DEF r
    <3> QED BY <2>2, <3>1 DEF Locals, Places, KifsAssumption
  <2>4. kf' = [kf EXCEPT ![p] = r]
    BY <2>1
  <2> HIDE DEF r
  <2>5. clipboard' \in [0 .. CLIP_SIZE - 1 -> 0 .. 1] /\ clipboard'[CLIP_SIZE - 1] = 0
    BY <1>2, <2>1, <2>2
  <2>6. r.used <= CLIP_SIZE - 1
    BY <1>2, <2>2, <2>3
  <2> QED BY <1>1, <2>3, <2>4, <2>5, <2>6, KMove DEF Using
<1> QED
  BY <1>3, <1>4, <1>5, Zenon DEF ClipCopyIn

LEMMA KInvHolds == KifsSpec => []KInv
<1>1. KifsInit => KInv
  BY KInitial, KifsAssumption
<1>2. KInv /\ [KifsNext]_kifsVars => KInv'
  <2> SUFFICES ASSUME KInv, [KifsNext]_kifsVars  PROVE KInv'
    OBVIOUS
  <2>1. CASE UNCHANGED kifsVars
    <3>1. /\ entry' = entry /\ entry_list' = entry_list /\ free_list' = free_list
          /\ num_entry' = num_entry /\ clipboard' = clipboard /\ kf' = kf
          /\ reused' = reused
      BY <2>1 DEF kifsVars
    <3>2. Elements(entry_list') = Elements(entry_list)
          /\ Elements(free_list') = Elements(free_list)
          /\ (Distinct(entry_list) => Distinct(entry_list'))
          /\ (Distinct(free_list) => Distinct(free_list'))
      BY <3>1
    <3>3. KTypes' /\ Sized' /\ LastIsZero'
      BY <3>1 DEF KInv, KTypes, Sized, LastIsZero
    <3>4. Registry'
      BY <3>1, <3>2 DEF KInv, Registry
    <3>5. Found'
      BY <3>1, <3>2 DEF KInv, Found, Stands
    <3> QED BY <3>3, <3>4, <3>5 DEF KInv
  <2> QED
    BY <2>1, KifsAssumption, KCreate, KRemove, KFind, KDispatch, KCall,
       KList, KClipRead, KClipWrite
    DEF KifsNext
<1> QED
  BY <1>1, <1>2, PTL DEF KifsSpec

(* Through any sequence of creates and removes the two lists share the     *)
(* slots, num_entry counts the first and no name is taken twice, for every *)
(* number of slots and set of names.                                       *)
THEOREM RegistryStaysConsistent == KifsSpec => []RegistryConsistent
BY KInvHolds, KInvMeans, KifsAssumption, PTL

(* What sys_kifs found stays what it found until somebody removes it.      *)
THEOREM FoundEntryIsTheEntry == KifsSpec => []FoundEntryStands
BY KInvHolds, KInvMeans, KifsAssumption, PTL

(* No reader of the registry's own two entries leaves its buffer, however  *)
(* the unlocked steps interleave, for every size of name and clipboard.    *)
THEOREM BuffersNeverOverrun == KifsSpec => []BuffersHold
BY KInvHolds, KInvMeans, KifsAssumption, PTL

-----------------------------------------------------------------------------
(***************************************************************************)
(* The list of integers.  An allocated node has one holder: the list, the  *)
(* process that adds it or the process that frees it.  A reader's cursor   *)
(* follows from how much it has written, as long as writers keep out.      *)
(***************************************************************************)
MPlaces == {"user", "lock", "walk", "add", "remove", "clear", "free"}
MLocals == [pc : MPlaces, item : Node \cup {NoNode}, num : Value \cup {0},
            bin : Seq(Node), elem : Node \cup {NoNode}, used : Nat, text : Seq(Int)]

MTypes ==
  /\ mylist \in Seq(Node)
  /\ data \in [Node -> Nat]
  /\ free \subseteq Node
  /\ readers = {p \in Procs : ml[p].pc = "walk"}
  /\ ml \in [Procs -> MLocals]
  /\ \A p \in Procs : /\ ((ml[p].pc = "add") <=> (ml[p].item # NoNode))
                      /\ ml[p].pc # "free" => ml[p].bin = << >>
                      /\ ml[p].pc = "lock" => ml[p].text = << >> /\ ml[p].used = 0

Mine(l) == Elements(l.bin) \cup ({l.item} \ {NoNode})

OneHolder ==
  /\ Distinct(mylist)
  /\ \A n \in Elements(mylist) : n \notin free
  /\ \A p \in Procs : /\ Distinct(ml[p].bin)
                      /\ \A n \in Mine(ml[p]) : n \notin free /\ n \notin Elements(mylist)
                      /\ \A q \in Procs \ {p} : Mine(ml[p]) \cap Mine(ml[q]) = {}
  /\ \A n \in Node \ free : /\ data[n] \in Value
                           /\ \/ n \in Elements(mylist)
                              \/ \E p \in Procs : n \in Mine(ml[p])

(* A reader in state l has walked the first nodes of mylist.               *)
Walked(l) ==
  LET k == Len(l.text)
  IN  /\ k <= Len(mylist) /\ \A i \in 1 .. k : l.text[i] = data[mylist[i]]
      /\ l.elem = IF k < Len(mylist) THEN mylist[k + 1] ELSE NoNode

Overshoot(l) ==
  l.used > buffer_len => \E v \in Value : l.used < buffer_len + Chars(v)

MInv ==
  /\ MTypes /\ OneHolder
  /\ \A p \in Procs : ml[p].pc = "walk" => Walked(ml[p])
  /\ \A p \in Procs : Overshoot(ml[p])

LEMMA IdleType ==
  ASSUME ModListAssumption
  PROVE  /\ Idle \in MLocals /\ Idle.pc = "user" /\ Idle.item = NoNode
         /\ Idle.bin = << >> /\ Idle.text = << >> /\ Idle.used = 0
<1>1. << >> \in Seq(Node) /\ << >> \in Seq(Int)
  OBVIOUS
<1> DEFINE none == << >>
<1>2. Idle = [pc |-> "user", item |-> NoNode, num |-> 0, bin |-> none,
              elem |-> NoNode, used |-> 0, text |-> none]
  BY DEF Idle
<1> HIDE DEF none
<1>3. none \in Seq(Node) /\ none \in Seq(Int)
  BY <1>1 DEF none
<1>4. Idle \in MLocals
  BY <1>2, <1>3 DEF MLocals, MPlaces
<1>5. Idle.bin = << >> /\ Idle.text = << >>
  BY DEF Idle
<1>6. Idle.pc = "user" /\ Idle.item = NoNode /\ Idle.used = 0
  BY DEF Idle
<1> HIDE DEF Idle
<1> QED
  BY <1>4, <1>5, <1>6, Zenon

LEMMA CharsType == \A n : Chars(n) \in Nat
<1> SUFFICES ASSUME NEW n  PROVE Chars(n) \in Nat
  OBVIOUS
<1> DEFINE digits == {d \in 1 .. 9 : n >= 10^d}
<1>1. digits \subseteq 1 .. 9
  OBVIOUS
<1> HIDE DEF digits
<1>2. IsFiniteSet(1 .. 9)
  <2> DEFINE a == 1
             b == 9
  <2>1. a \in Int /\ b \in Int
    OBVIOUS
  <2> HIDE DEF a, b
  <2>2. IsFiniteSet(a .. b)
    BY <2>1, FS_Interval
  <2> QED BY <2>2 DEF a, b
<1>3. Cardinality(digits) \in Nat
  BY <1>1, <1>2, FS_Subset, FS_CardinalityType
<1> QED
  BY <1>3 DEF Chars, digits

(* The invariant says what the properties say. *)
LEMMA MInvMeans ==
  ASSUME ModListAssumption, MInv
  PROVE  NodesAccounted /\ SnapshotRead /\ ReadOvershoot
<1> USE DEF MInv
<1>1. ASSUME NEW p \in Procs
      PROVE  /\ ToSet(ml[p].bin) = Elements(ml[p].bin)
             /\ (IsInjective(ml[p].bin) <=> Distinct(ml[p].bin))
             /\ Held(p) = Mine(ml[p])
  <2>1. ml[p].bin \in Seq(Node)
    BY DEF MTypes, MLocals
  <2>2. /\ ToSet(ml[p].bin) = Elements(ml[p].bin)
        /\ (IsInjective(ml[p].bin) <=> Distinct(ml[p].bin))
    BY <2>1, SequenceSets
  <2> QED BY <2>2 DEF Held, Mine
<1>2. ToSet(mylist) = Elements(mylist) /\ (IsInjective(mylist) <=> Distinct(mylist))
      /\ Elements(mylist) \subseteq Node
  BY SequenceSets DEF MTypes, Elements
<1>3. NodesAccounted
  <2>1. ASSUME NEW p \in Procs  PROVE Mine(ml[p]) \subseteq Node
    BY DEF MTypes, MLocals, Mine, Elements
  <2>2. Node \ free = Elements(mylist) \cup UNION {Mine(ml[p]) : p \in Procs}
    BY <1>2, <2>1 DEF OneHolder
  <2>3. UNION {Held(p) : p \in Procs} = UNION {Mine(ml[p]) : p \in Procs}
    BY <1>1
  <2>4. ASSUME NEW p \in Procs
        PROVE  /\ IsInjective(ml[p].bin)
               /\ Held(p) \cap ToSet(mylist) = {}
               /\ \A q \in Procs \ {p} : Held(p) \cap Held(q) = {}
    BY <1>1, <1>2 DEF OneHolder
  <2>5. IsInjective(mylist)
    BY <1>2 DEF OneHolder
  <2> QED BY <1>2, <2>2, <2>3, <2>4, <2>5 DEF NodesAccounted
<1>4. SnapshotRead
  <2> SUFFICES ASSUME NEW p \in readers
               PROVE  LET k == Len(ml[p].text)
                      IN  /\ k <= Len(mylist)
                          /\ ml[p].text = SubSeq(Written(mylist), 1, k)
                          /\ ml[p].elem = IF k < Len(mylist) THEN mylist[k + 1]
                                                            ELSE NoNode
    BY DEF SnapshotRead
  <2> DEFINE text == ml[p].text
             k == Len(text)
             w == Written(mylist)
  <2>1. p \in Procs /\ ml[p].pc = "walk" /\ text \in Seq(Int)
    BY DEF MTypes, MLocals
  <2>2. /\ k <= Len(mylist) /\ \A i \in 1 .. k : text[i] = data[mylist[i]]
        /\ ml[p].elem = IF k < Len(mylist) THEN mylist[k + 1] ELSE NoNode
    BY <2>1 DEF Walked
  <2>3. /\ w \in Seq(Nat) /\ Len(w) = Len(mylist)
        /\ \A i \in 1 .. Len(mylist) : w[i] = data[mylist[i]]
    BY DEF Written, MTypes
  <2> HIDE DEF text, w
  <2>4. text = SubSeq(w, 1, k)
    <3>1. k \in Nat /\ Len(mylist) \in Nat
      BY <2>1 DEF MTypes
    <3>2. /\ SubSeq(w, 1, k) \in Seq(Nat) /\ Len(SubSeq(w, 1, k)) = k
          /\ \A i \in 1 .. k : SubSeq(w, 1, k)[i] = w[i]
      BY <2>2, <2>3, <3>1
    <3>3. \A i \in 1 .. k : i \in 1 .. Len(mylist)
      BY <2>2, <3>1
    <3> QED BY <2>1, <2>2, <2>3, <3>2, <3>3
  <2> QED BY <2>2, <2>4 DEF text, w
<1>5. ReadOvershoot
  BY DEF ReadOvershoot, Overshoot
<1> HIDE DEF MInv
<1> QED
  BY <1>3, <1>4, <1>5

LEMMA MInitial ==
  ASSUME ModListAssumption, MLInit
  PROVE  MInv
<1>1. /\ mylist = << >> /\ data = [n \in Node |-> 0] /\ free = Node /\ readers = {}
      /\ ml = [p \in Procs |-> Idle]
  BY DEF MLInit
<1>2. \A p \in Procs : ml[p] = Idle
  BY <1>1
<1>3. /\ Idle \in MLocals /\ Idle.pc = "user" /\ Idle.item = NoNode
      /\ Idle.bin = << >> /\ Idle.text = << >> /\ Idle.used = 0
  BY IdleType
<1>4. Mine(Idle) = {}
  BY <1>3 DEF Mine, Elements
<1> HIDE DEF Idle
<1>5. MTypes
  BY <1>1, <1>2, <1>3 DEF MTypes
<1>6. Distinct(mylist) /\ Elements(mylist) = {} /\ Distinct(Idle.bin)
  BY <1>1, <1>3 DEF Distinct, Elements
<1>7. OneHolder
  BY <1>1, <1>2, <1>4, <1>6 DEF OneHolder
<1> QED
  BY <1>2, <1>3, <1>5, <1>7 DEF MInv, Overshoot, ModListAssumption

(* A step of process p that touches no node. *)
LEMMA MMove ==
  ASSUME ModListAssumption, MInv, NEW p \in Procs, NEW r \in MLocals,
         ml' = [ml EXCEPT ![p] = r], UNCHANGED <<mylist, data, free>>,
         readers' = (readers \ {p}) \cup (IF r.pc = "walk" THEN {p} ELSE {}),
         r.item = ml[p].item, r.bin = ml[p].bin,
         (r.pc = "add") <=> (r.item # NoNode), r.pc # "free" => r.bin = << >>,
         r.pc = "lock" => r.text = << >> /\ r.used = 0,
         r.pc = "walk" => Walked(r), Overshoot(r)
  PROVE  MInv'
<1>1. /\ mylist' = mylist /\ data' = data /\ free' = free
      /\ ml'[p] = r /\ ml' \in [Procs -> MLocals]
      /\ \A q \in Procs \ {p} : ml'[q] = ml[q]
  <2> HIDE DEF MLocals
  <2> QED BY DEF MInv, MTypes
<1>2. MTypes'
  <2>1. readers' = {q \in Procs : ml'[q].pc = "walk"}
    BY <1>1 DEF MInv, MTypes
  <2>2. ASSUME NEW q \in Procs
        PROVE  /\ ((ml'[q].pc = "add") <=> (ml'[q].item # NoNode))
               /\ ml'[q].pc # "free" => ml'[q].bin = << >>
               /\ ml'[q].pc = "lock" => ml'[q].text = << >> /\ ml'[q].used = 0
    <3>1. CASE q = p
      BY <1>1, <3>1
    <3>2. CASE q # p
      BY <1>1, <3>2 DEF MInv, MTypes
    <3> QED BY <3>1, <3>2
  <2> QED BY <1>1, <2>1, <2>2 DEF MInv, MTypes
<1>3. \A q \in Procs : ml'[q].bin = ml[q].bin /\ ml'[q].item = ml[q].item
  BY <1>1
<1>4. OneHolder'
  <2>1. \A q \in Procs : Mine(ml'[q]) = Mine(ml[q]) /\ (Distinct(ml[q].bin) => Distinct(ml'[q].bin))
    BY <1>3 DEF Mine
  <2>2. Distinct(mylist') /\ Elements(mylist') = Elements(mylist)
    BY <1>1 DEF MInv, OneHolder
  <2> QED BY <1>1, <2>1, <2>2 DEF MInv, OneHolder
<1>5. ASSUME NEW q \in Procs, ml'[q].pc = "walk"  PROVE Walked(ml[q])'
  <2>1. CASE q = p
    BY <1>1, <1>5, <2>1 DEF Walked
  <2>2. CASE q # p
    BY <1>1, <1>5, <2>2 DEF MInv, Walked
  <2> QED BY <2>1, <2>2
<1>6. ASSUME NEW q \in Procs  PROVE Overshoot(ml'[q])
  <2>1. CASE q = p
    BY <1>1, <2>1
  <2>2. CASE q # p
    BY <1>1, <2>2 DEF MInv
  <2> QED BY <2>1, <2>2
<1> QED
  BY <1>2, <1>4, <1>5, <1>6 DEF MInv

LEMMA MLocalsAt ==
  ASSUME MInv, NEW p \in Procs
  PROVE  /\ ml[p] \in MLocals /\ ml[p].item \in Node \cup {NoNode}
         /\ ml[p].bin \in Seq(Node) /\ ml[p].text \in Seq(Int) /\ ml[p].used \in Nat
         /\ mylist \in Seq(Node) /\ Len(mylist) \in Nat /\ Len(ml[p].text) \in Nat
         /\ ((ml[p].pc = "add") <=> (ml[p].item # NoNode))
         /\ ml[p].pc # "free" => ml[p].bin = << >>
BY DEF MInv, MTypes, MLocals

(* The records a process can be left with, apart from its nodes. *)
LEMMA IdleWith ==
  ASSUME ModListAssumption, NEW l \in {"user", "lock", "remove", "clear"},
         NEW r, r = [Idle EXCEPT !.pc = l]
  PROVE  /\ r \in MLocals /\ r.pc = l /\ r.item = NoNode
         /\ r.bin = << >> /\ r.text = << >> /\ r.used = 0
<1>1. r.pc = l /\ r.item = NoNode /\ r.bin = << >> /\ r.text = << >> /\ r.used = 0
  BY DEF Idle
<1>2. r \in MLocals
  BY IdleType DEF MLocals, MPlaces
<1> QED
  BY <1>1, <1>2, Zenon

(* A process that is not reading begins a call, or ends one. *)
LEMMA MBegin ==
  ASSUME ModListAssumption, MInv, NEW p \in Procs, NEW r \in MLocals,
         ml[p].pc \in {"user", "free"}, ml[p].bin = << >>,
         ml' = [ml EXCEPT ![p] = r], UNCHANGED <<mylist, data, free, readers>>,
         r.pc \notin {"walk", "add"}, r.item = NoNode, r.bin = << >>, r.text = << >>, r.used = 0
  PROVE  MInv'
<1>1. readers' = (readers \ {p}) \cup (IF r.pc = "walk" THEN {p} ELSE {})
  BY DEF MInv, MTypes
<1>2. ml[p].item = NoNode
  BY MLocalsAt
<1>3. Overshoot(r)
  BY DEF Overshoot, ModListAssumption
<1> QED
  BY <1>1, <1>2, <1>3, MMove

LEMMA MRead ==
  ASSUME ModListAssumption, MInv, NEW p \in Procs, Read(p)
  PROVE  MInv'
<1> DEFINE r == [Idle EXCEPT !.pc = "lock"]
<1>1. /\ ml[p].pc = "user" /\ ml' = [ml EXCEPT ![p] = r]
      /\ UNCHANGED <<mylist, data, free, readers>>
  BY DEF Read
<1>2. ml[p].bin = << >>
  BY <1>1, MLocalsAt
<1>3. r \in MLocals /\ r.pc = "lock" /\ r.item = NoNode /\ r.bin = << >>
      /\ r.text = << >> /\ r.used = 0
  <2>1. /\ "lock" \in {"user", "lock", "remove", "clear"}
        /\ r = [Idle EXCEPT !.pc = "lock"]
    OBVIOUS
  <2> HIDE DEF r
  <2> QED BY <2>1, IdleWith, Zenon
<1> HIDE DEF r
<1> QED
  BY <1>1, <1>2, <1>3, MBegin

LEMMA MReadLock ==
  ASSUME ModListAssumption, MInv, NEW p \in Procs, ReadLock(p)
  PROVE  MInv'
<1> DEFINE r == [ml[p] EXCEPT !.pc = "walk", !.elem = First]
<1>1. /\ ml[p].pc = "lock" /\ readers' = readers \cup {p}
      /\ ml' = [ml EXCEPT ![p].pc = "walk", ![p].elem = First]
      /\ UNCHANGED <<mylist, data, free>>
  BY DEF ReadLock
<1>2. /\ ml[p].item = NoNode /\ ml[p].bin = << >>
      /\ ml[p].text = << >> /\ ml[p].used = 0
  BY <1>1 DEF MInv, MTypes
<1>3. /\ First = IF 0 < Len(mylist) THEN mylist[1] ELSE NoNode
      /\ First \in Node \cup {NoNode}
  <2>1. mylist \in Seq(Node)
    BY MLocalsAt
  <2>2. CASE mylist = << >>
    <3>1. First = NoNode
      BY <2>2 DEF First
    <3>2. Len(mylist) = 0
      BY <2>2
    <3> QED BY <3>1, <3>2
  <2>3. CASE mylist # << >>
    <3>1. First = mylist[1] /\ 0 < Len(mylist) /\ mylist[1] \in Node
      BY <2>1, <2>3 DEF First
    <3> QED BY <3>1
  <2> QED BY <2>2, <2>3
<1>4. /\ r \in MLocals /\ r.pc = "walk" /\ r.elem = First /\ r.item = ml[p].item
      /\ r.bin = ml[p].bin /\ r.text = ml[p].text /\ r.used = ml[p].used
  <2>1. ml[p] \in MLocals
    BY MLocalsAt
  <2>2. r \in MLocals
    <3> DEFINE f == First
    <3>1. f \in Node \cup {NoNode}
      BY <1>3
    <3> HIDE DEF f
    <3>2. [ml[p] EXCEPT !.pc = "walk", !.elem = f] \in MLocals
      BY <2>1, <3>1 DEF MLocals, MPlaces
    <3> QED BY <3>2 DEF f
  <2> QED BY <2>1, <2>2 DEF MLocals
<1>5. ml' = [ml EXCEPT ![p] = r]
  BY <1>1 DEF MInv, MTypes
<1> HIDE DEF r
<1>6. readers' = (readers \ {p}) \cup (IF r.pc = "walk" THEN {p} ELSE {})
  BY <1>1, <1>4
<1>7. Walked(r) /\ Overshoot(r)
  <2>1. Len(r.text) = 0 /\ r.used = 0 /\ Len(mylist) \in Nat
    BY <1>2, <1>4, MLocalsAt
  <2>2. Overshoot(r)
    BY <2>1 DEF Overshoot, ModListAssumption
  <2> DEFINE k == Len(r.text)
  <2>3. k = 0 /\ k + 1 = 1 /\ k <= Len(mylist)
    BY <2>1
  <2> HIDE DEF k
  <2>4. r.elem = IF k < Len(mylist) THEN mylist[k + 1] ELSE NoNode
    BY <1>3, <1>4, <2>3
  <2>5. \A i \in 1 .. k : r.text[i] = data[mylist[i]]
    BY <2>3
  <2> QED BY <2>2, <2>3, <2>4, <2>5 DEF Walked, k
<1> QED
  BY <1>1, <1>2, <1>4, <1>5, <1>6, <1>7, MMove

LEMMA MReadUnlock ==
  ASSUME ModListAssumption, MInv, NEW p \in Procs, ReadUnlock(p)
  PROVE  MInv'
<1> DEFINE r == [ml[p] EXCEPT !.pc = "user"]
<1>1. /\ ml[p].pc = "walk" /\ readers' = readers \ {p}
      /\ ml' = [ml EXCEPT ![p].pc = "user"]
      /\ UNCHANGED <<mylist, data, free>>
  BY DEF ReadUnlock
<1>2. /\ r \in MLocals /\ r.pc = "user" /\ r.item = ml[p].item
      /\ r.bin = ml[p].bin /\ r.used = ml[p].used
  BY MLocalsAt DEF MLocals, MPlaces
<1>3. ml' = [ml EXCEPT ![p] = r]
  BY <1>1 DEF MInv, MTypes
<1> HIDE DEF r
<1>4. readers' = (readers \ {p}) \cup (IF r.pc = "walk" THEN {p} ELSE {})
  BY <1>1, <1>2
<1>5. Overshoot(r) /\ r.item = NoNode /\ r.bin = << >>
  BY <1>1, <1>2, MLocalsAt DEF Overshoot, MInv
<1> QED
  BY <1>1, <1>2, <1>3, <1>4, <1>5, MMove

(* After(n) is the next node: n is in mylist once. *)
LEMMA AfterIsNext ==
  ASSUME MInv, NEW k \in 1 .. Len(mylist)
  PROVE  After(mylist[k]) = IF k < Len(mylist) THEN mylist[k + 1] ELSE NoNode
<1> DEFINE at == {i \in 1 .. Len(mylist) - 1 : mylist[i] = mylist[k]}
<1>1. Len(mylist) \in Nat /\ Distinct(mylist)
  BY DEF MInv, MTypes, OneHolder
<1>2. After(mylist[k]) = IF at = {} THEN NoNode ELSE mylist[(CHOOSE i \in at : TRUE) + 1]
  BY DEF After
<1>3. \A i \in at : i = k
  BY <1>1 DEF Distinct
<1>4. k < Len(mylist) => k \in at
  BY <1>1
<1>5. k \in at => k < Len(mylist)
  BY <1>1
<1> HIDE DEF at
<1>6. CASE at = {}
  BY <1>2, <1>4, <1>6
<1>7. CASE at # {}
  <2>1. (CHOOSE i \in at : TRUE) = k /\ k \in at
    BY <1>3, <1>7
  <2> QED BY <1>2, <1>5, <1>7, <2>1
<1> QED
  BY <1>6, <1>7

(* One node is written: used passes buffer_len by less than its length. *)
LEMMA MReadStep ==
  ASSUME ModListAssumption, MInv, NEW p \in Procs, ReadStep(p)
  PROVE  MInv'
<1> DEFINE n == ml[p].elem
           l == ml[p]
           u == l.used + snprintf(buffer_len - l.used, data[n])
           t == Append(l.text, data[n])
           a == After(n)
           r == [l EXCEPT !.used = u, !.text = t, !.elem = a]
           k == Len(l.text)
<1>1. /\ l.pc = "walk" /\ n # NoNode /\ ~ (buffer_len - l.used = 0)
      /\ ml' = [ml EXCEPT ![p].used = u, ![p].text = t, ![p].elem = a]
      /\ UNCHANGED <<mylist, data, free, readers>>
  <2>1. ml' = [ml EXCEPT ![p].used = @ + snprintf(buffer_len - @, data[n]),
                         ![p].text = Append(@, data[n]),
                         ![p].elem = After(n)]
    BY DEF ReadStep
  <2>2. [ml EXCEPT ![p].used = @ + snprintf(buffer_len - @, data[n]),
                   ![p].text = Append(@, data[n]), ![p].elem = After(n)]
          = [ml EXCEPT ![p].used = u, ![p].text = t, ![p].elem = a]
    OBVIOUS
  <2> QED BY <2>1, <2>2 DEF ReadStep, Full
<1>2. l \in MLocals /\ l.text \in Seq(Int) /\ l.used \in Nat /\ k \in Nat
      /\ mylist \in Seq(Node) /\ Len(mylist) \in Nat /\ p \in readers
  BY <1>1, MLocalsAt DEF MInv, MTypes
<1>3. /\ k < Len(mylist) /\ n = mylist[k + 1]
      /\ \A i \in 1 .. k : l.text[i] = data[mylist[i]]
  BY <1>1, <1>2 DEF MInv, Walked
<1>4. n \in Elements(mylist) /\ n \in Node /\ data[n] \in Value /\ data[n] \in Nat
  <2>1. k + 1 \in 1 .. Len(mylist)
    BY <1>2, <1>3
  <2>2. n \in Elements(mylist) /\ n \in Node
    BY <1>2, <1>3, <2>1 DEF Elements
  <2> QED BY <2>2 DEF MInv, MTypes, OneHolder
<1>5. a = IF k + 1 < Len(mylist) THEN mylist[k + 2] ELSE NoNode
  <2>1. k + 1 \in 1 .. Len(mylist) /\ (k + 1) + 1 = k + 2
    BY <1>2, <1>3
  <2> HIDE DEF k
  <2> QED BY <1>3, <2>1, AfterIsNext
<1>6. a \in Node \cup {NoNode}
  <2>1. k + 1 < Len(mylist) => mylist[k + 2] \in Node
    BY <1>2
  <2> HIDE DEF a, k
  <2> QED BY <1>5, <2>1
<1>7. u \in Nat /\ (u > buffer_len => \E v \in Value : u < buffer_len + Chars(v))
  <2> DEFINE x == data[n]
             c == Chars(x)
  <2>1. x \in Value /\ c \in Nat
    BY <1>4, CharsType
  <2>2. u = l.used + (IF buffer_len - l.used < 0 THEN 0 ELSE c)
    BY DEF snprintf
  <2>3. buffer_len \in Nat
    BY DEF ModListAssumption
  <2>4. l.used > buffer_len => \E v \in Value : l.used < buffer_len + Chars(v)
    BY DEF MInv, Overshoot
  <2>5. c = Chars(x)
    OBVIOUS
  <2> HIDE DEF x, c, u, n
  <2>6. CASE l.used > buffer_len
    <3>1. u = l.used
      BY <1>2, <2>2, <2>3, <2>6
    <3> QED BY <1>2, <2>4, <2>6, <3>1
  <2>7. CASE ~ (l.used > buffer_len)
    <3>1. u \in Nat /\ u < buffer_len + c
      BY <1>1, <1>2, <2>1, <2>2, <2>3, <2>7
    <3> QED BY <2>1, <2>5, <3>1
  <2> QED BY <2>6, <2>7
<1>8. /\ t \in Seq(Int) /\ Len(t) = k + 1 /\ t[k + 1] = data[n]
      /\ \A i \in 1 .. k : t[i] = l.text[i]
  <2> DEFINE x == data[n]
  <2>1. x \in Int
    BY <1>4
  <2> HIDE DEF x
  <2>2. /\ Append(l.text, x) \in Seq(Int) /\ Len(Append(l.text, x)) = k + 1
        /\ Append(l.text, x)[k + 1] = x
        /\ \A i \in 1 .. k : Append(l.text, x)[i] = l.text[i]
    BY <1>2, <2>1
  <2> QED BY <2>2 DEF x
<1> HIDE DEF u, t, a
<1>9. /\ r \in MLocals /\ r.pc = "walk" /\ r.item = l.item /\ r.bin = l.bin
      /\ r.used = u /\ r.text = t /\ r.elem = a
  BY <1>1, <1>2, <1>6, <1>7, <1>8 DEF MLocals
<1>10. ml' = [ml EXCEPT ![p] = r]
  BY <1>1 DEF MInv, MTypes
<1>11. readers' = (readers \ {p}) \cup (IF r.pc = "walk" THEN {p} ELSE {})
  BY <1>1, <1>2, <1>9
<1> HIDE DEF r
<1>12. Walked(r)
  <2> DEFINE j == Len(r.text)
  <2>1. j = k + 1 /\ j <= Len(mylist) /\ j + 1 = k + 2
    BY <1>2, <1>3, <1>8, <1>9
  <2>2. \A i \in 1 .. j : i \in 1 .. k \/ i = k + 1
    BY <1>2, <2>1
  <2>3. \A i \in 1 .. j : r.text[i] = data[mylist[i]]
    BY <1>3, <1>8, <1>9, <2>2
  <2>4. r.elem = IF j < Len(mylist) THEN mylist[j + 1] ELSE NoNode
    <3> HIDE DEF j, k
    <3> QED BY <1>5, <1>9, <2>1
  <2> QED BY <2>1, <2>3, <2>4 DEF Walked
<1>13. Overshoot(r)
  BY <1>7, <1>9 DEF Overshoot
<1> HIDE DEF l
<1> QED
  BY <1>1, <1>9, <1>10, <1>11, <1>12, <1>13, MMove, MLocalsAt DEF l

(***************************************************************************)
(* A step of process p, which is not reading, that moves nodes between     *)
(* mylist, its own hands and the free ones: what p and mylist have         *)
(* afterwards they had before or took from the free ones, and what they no *)
(* longer have is free.  mylist and its data change only without readers.  *)
(***************************************************************************)
Ours(l, list) == Mine(l) \cup Elements(list)

LEMMA MNodes ==
  ASSUME ModListAssumption, MInv, NEW p \in Procs, NEW r \in MLocals,
         NEW list \in Seq(Node), mylist' = list,
         ml' = [ml EXCEPT ![p] = r], UNCHANGED readers,
         ml[p].pc # "walk", r.pc \notin {"walk", "lock"},
         r.used = 0 \/ r.used = ml[p].used,
         (r.pc = "add") <=> (r.item # NoNode), r.pc # "free" => r.bin = << >>,
         data' \in [Node -> Nat], free' \subseteq Node,
         Distinct(list), Distinct(r.bin), Mine(r) \cap Elements(list) = {},
         Ours(r, list) \subseteq Ours(ml[p], mylist) \cup (free \ free'),
         Ours(r, list) \cap free' = {},
         Ours(ml[p], mylist) \cup (free \ free') \subseteq Ours(r, list) \cup free',
         free' \ free \subseteq Ours(ml[p], mylist),
         \A n \in Node \ free' : data'[n] \in Value,
         readers # {} => /\ list = mylist
                         /\ \A n \in Elements(mylist) : data'[n] = data[n]
  PROVE  MInv'
<1>1. /\ ml'[p] = r /\ ml' \in [Procs -> MLocals]
      /\ \A q \in Procs \ {p} : ml'[q] = ml[q]
  <2> HIDE DEF MLocals
  <2> QED BY DEF MInv, MTypes
<1>2. MTypes'
  <2>1. readers' = {q \in Procs : ml'[q].pc = "walk"}
    BY <1>1 DEF MInv, MTypes
  <2>2. ASSUME NEW q \in Procs
        PROVE  /\ ((ml'[q].pc = "add") <=> (ml'[q].item # NoNode))
               /\ ml'[q].pc # "free" => ml'[q].bin = << >>
               /\ ml'[q].pc = "lock" => ml'[q].text = << >> /\ ml'[q].used = 0
    <3>1. CASE q = p
      BY <1>1, <3>1
    <3>2. CASE q # p
      BY <1>1, <3>2 DEF MInv, MTypes
    <3> QED BY <3>1, <3>2
  <2> QED BY <1>1, <2>1, <2>2 DEF MTypes
<1>3. OneHolder'
  <2>1. \A q \in Procs \ {p} : Mine(ml'[q]) = Mine(ml[q])
    BY <1>1
  <2>2. ASSUME NEW q \in Procs \ {p}
        PROVE  /\ Mine(ml[q]) \cap Ours(ml[p], mylist) = {}
               /\ Mine(ml[q]) \cap free = {} /\ Mine(ml[q]) \cap free' = {}
               /\ Mine(ml[q]) \cap Ours(r, list) = {}
    <3>1. Mine(ml[q]) \cap Ours(ml[p], mylist) = {} /\ Mine(ml[q]) \cap free = {}
      BY DEF MInv, OneHolder, Ours
    <3> QED BY <3>1
  <2>3. ASSUME NEW q \in Procs
        PROVE  /\ Distinct(ml'[q].bin)
               /\ \A n \in Mine(ml'[q]) : n \notin free' /\ n \notin Elements(list)
    <3>1. CASE q = p
      BY <1>1, <3>1 DEF Ours
    <3>2. CASE q # p
      BY <1>1, <2>1, <2>2, <3>2 DEF Ours, MInv, OneHolder
    <3> QED BY <3>1, <3>2
  <2>4. ASSUME NEW q \in Procs, NEW s \in Procs \ {q}
        PROVE  Mine(ml'[q]) \cap Mine(ml'[s]) = {}
    <3>1. CASE q = p
      BY <1>1, <2>1, <2>2, <3>1 DEF Ours
    <3>2. CASE s = p
      BY <1>1, <2>1, <2>2, <3>2 DEF Ours
    <3>3. CASE q # p /\ s # p
      BY <2>1, <3>3 DEF MInv, OneHolder
    <3> QED BY <3>1, <3>2, <3>3
  <2>5. ASSUME NEW n \in Node \ free'
        PROVE  n \in Elements(list) \/ (\E q \in Procs : n \in Mine(ml'[q]))
    <3>1. CASE n \in free
      BY <1>1, <2>5, <3>1 DEF Ours
    <3>2. CASE n \in Ours(ml[p], mylist)
      BY <1>1, <2>5, <3>2 DEF Ours
    <3>3. CASE \E q \in Procs \ {p} : n \in Mine(ml[q])
      BY <2>1, <3>3
    <3> QED BY <3>1, <3>2, <3>3 DEF MInv, OneHolder, Ours
  <2>6. \A n \in Elements(list) : n \notin free'
    BY DEF Ours
  <2>7. Elements(mylist') = Elements(list) /\ Distinct(mylist')
    OBVIOUS
  <2> QED BY <2>3, <2>4, <2>5, <2>6, <2>7 DEF OneHolder
<1>4. ASSUME NEW q \in Procs, ml'[q].pc = "walk"  PROVE Walked(ml[q])'
  <2>1. q # p /\ q \in readers /\ ml'[q] = ml[q] /\ ml[q].pc = "walk"
    BY <1>1, <1>4 DEF MInv, MTypes
  <2>2. mylist' = mylist /\ \A n \in Elements(mylist) : data'[n] = data[n]
    BY <2>1
  <2>3. Walked(ml[q]) /\ Len(ml[q].text) \in Nat /\ Len(mylist) \in Nat
    BY <2>1, MLocalsAt DEF MInv
  <2>4. \A i \in 1 .. Len(ml[q].text) : data'[mylist[i]] = data[mylist[i]]
    <3>1. \A i \in 1 .. Len(ml[q].text) : i \in 1 .. Len(mylist)
      BY <2>3 DEF Walked
    <3> QED BY <2>2, <3>1 DEF Elements
  <2> QED BY <2>1, <2>2, <2>3, <2>4 DEF Walked
<1>5. ASSUME NEW q \in Procs  PROVE Overshoot(ml'[q])
  <2>1. CASE q = p
    BY <1>1, <2>1 DEF MInv, Overshoot, ModListAssumption
  <2>2. CASE q # p
    BY <1>1, <2>2 DEF MInv
  <2> QED BY <2>1, <2>2
<1> QED
  BY <1>2, <1>3, <1>4, <1>5 DEF MInv

(* The hands of a process that is in no command. *)
LEMMA EmptyHands ==
  ASSUME NEW l, l.item = NoNode, l.bin = << >>
  PROVE  Mine(l) = {} /\ Distinct(l.bin)
BY DEF Mine, Elements, Distinct

(* procfile_write: the three commands, and lines that are none. *)
LEMMA MWrite ==
  ASSUME ModListAssumption, MInv, NEW p \in Procs, Write(p)
  PROVE  MInv'
<1>1. ml[p].pc = "user" /\ UNCHANGED <<mylist, readers>>
  BY Zenon DEF Write
<1>2. ml[p].bin = << >> /\ ml[p].item = NoNode
  BY <1>1, MLocalsAt
<1>3. ASSUME NEW n \in free, NEW v \in Value, free' = free \ {n},
             data' = [data EXCEPT ![n] = v],
             ml' = [ml EXCEPT ![p] = [Idle EXCEPT !.pc = "add", !.item = n]]
      PROVE  MInv'
  <2> DEFINE r == [Idle EXCEPT !.pc = "add", !.item = n]
  <2>1. n \in Node /\ n # NoNode /\ v \in Nat
    BY DEF MInv, MTypes, ModListAssumption
  <2>2. r \in MLocals
    BY <2>1, IdleType DEF MLocals, MPlaces
  <2>3. r.pc = "add" /\ r.item = n /\ r.bin = << >> /\ r.used = 0
    BY DEF Idle
  <2>4. ml' = [ml EXCEPT ![p] = r]
    BY <1>3
  <2> HIDE DEF r
  <2>5. Mine(ml[p]) = {} /\ Mine(r) = {n} /\ Distinct(r.bin)
    BY <1>2, <2>1, <2>3, EmptyHands DEF Mine, Elements, Distinct
  <2>6. /\ data' \in [Node -> Nat] /\ data'[n] = v
        /\ \A m \in Node \ {n} : data'[m] = data[m]
    BY <1>3, <2>1 DEF MInv, MTypes
  <2>7. /\ mylist \in Seq(Node) /\ Distinct(mylist) /\ Elements(mylist) \subseteq Node
        /\ (\A m \in Elements(mylist) : m \notin free) /\ free \subseteq Node
        /\ \A m \in Node \ free : data[m] \in Value
    BY DEF MInv, MTypes, OneHolder, Elements
  <2>8. Mine(r) \cap Elements(mylist) = {} /\ free' \subseteq Node /\ free' \ free = {}
        /\ Ours(ml[p], mylist) = Elements(mylist)
        /\ Ours(r, mylist) = Elements(mylist) \cup {n} /\ free \ free' = {n}
    BY <1>3, <2>5, <2>7 DEF Ours
  <2>9. /\ \A m \in Node \ free' : data'[m] \in Value
        /\ \A m \in Elements(mylist) : data'[m] = data[m]
    BY <1>3, <2>6, <2>7
  <2>10. /\ Ours(r, mylist) \subseteq Ours(ml[p], mylist) \cup (free \ free')
         /\ Ours(r, mylist) \cap free' = {}
         /\ Ours(ml[p], mylist) \cup (free \ free') \subseteq Ours(r, mylist) \cup free'
         /\ free' \ free \subseteq Ours(ml[p], mylist)
    BY <1>3, <2>7, <2>8
  <2>11. mylist' = mylist /\ UNCHANGED readers /\ ml[p].pc # "walk"
         /\ r.pc \notin {"walk", "lock"} /\ r.pc = "add"
    BY <1>1, <2>3
  <2> QED
    BY <2>2, <2>3, <2>4, <2>5, <2>6, <2>7, <2>8, <2>9, <2>10, <2>11, MNodes
<1>4. ASSUME NEW v \in Value, UNCHANGED <<data, free>>,
             ml' = [ml EXCEPT ![p] = [Idle EXCEPT !.pc = "remove", !.num = v]]
      PROVE  MInv'
  <2> DEFINE r == [Idle EXCEPT !.pc = "remove", !.num = v]
  <2>1. r = [Idle EXCEPT !.pc = "remove", !.num = v]
    BY Zenon
  <2>2. ml' = [ml EXCEPT ![p] = r]
    BY <1>4
  <2> HIDE DEF r
  <2>3. r \in MLocals /\ r.pc = "remove" /\ r.item = NoNode /\ r.bin = << >>
        /\ r.text = << >> /\ r.used = 0
    <3>1. /\ r.pc = "remove" /\ r.item = NoNode /\ r.bin = << >>
          /\ r.text = << >> /\ r.used = 0
      BY <2>1 DEF Idle
    <3>2. r \in MLocals
      BY <2>1, IdleType DEF MLocals, MPlaces
    <3> QED BY <3>1, <3>2, Zenon
  <2> QED BY <1>1, <1>2, <1>4, <2>2, <2>3, MBegin
<1>5. ASSUME NEW c \in {"clear", "user"}, UNCHANGED <<data, free>>,
             ml' = [ml EXCEPT ![p] = [Idle EXCEPT !.pc = c]]
      PROVE  MInv'
  <2> DEFINE r == [Idle EXCEPT !.pc = c]
  <2>1. /\ c \in {"user", "lock", "remove", "clear"}
        /\ r = [Idle EXCEPT !.pc = c]
    OBVIOUS
  <2>2. ml' = [ml EXCEPT ![p] = r]
    BY <1>5
  <2> HIDE DEF r
  <2>3. r \in MLocals /\ r.pc = c /\ r.item = NoNode /\ r.bin = << >>
        /\ r.text = << >> /\ r.used = 0
    BY <2>1, IdleWith, Zenon
  <2> QED BY <1>1, <1>2, <1>5, <2>2, <2>3, MBegin
<1>6. ASSUME NEW line \in Lines, UNCHANGED <<data, free>>,
             ml' = [ml EXCEPT ![p] = [Idle EXCEPT !.pc = IF streq(line, cleanup)
                                                        THEN "clear" ELSE "user"]]
      PROVE  MInv'
  <2> DEFINE c == IF streq(line, cleanup) THEN "clear" ELSE "user"
  <2>1. c \in {"clear", "user"} /\ ml' = [ml EXCEPT ![p] = [Idle EXCEPT !.pc = c]]
    BY <1>6
  <2> HIDE DEF c
  <2> QED BY <1>5, <1>6, <2>1
<1> QED
  <2>1. \/ \E n \in free, v \in Value :
            /\ free' = free \ {n}
            /\ data' = [data EXCEPT ![n] = v]
            /\ ml' = [ml EXCEPT ![p] = [Idle EXCEPT !.pc = "add", !.item = n]]
        \/ /\ \E v \in Value :
              ml' = [ml EXCEPT ![p] = [Idle EXCEPT !.pc = "remove", !.num = v]]
           /\ UNCHANGED <<data, free>>
        \/ /\ \E line \in Lines :
              ml' = [ml EXCEPT ![p] =
                [Idle EXCEPT !.pc = IF streq(line, cleanup)
                                    THEN "clear" ELSE "user"]]
           /\ UNCHANGED <<data, free>>
    BY Zenon DEF Write
  <2> QED BY <1>3, <1>4, <1>6, <2>1, Zenon

LEMMA MAddHolds ==
  ASSUME ModListAssumption, MInv, NEW p \in Procs, add_item_list(p)
  PROVE  LET n == ml[p].item
         IN  /\ n \in Node /\ mylist \in Seq(Node) /\ Distinct(mylist)
             /\ n \notin Elements(mylist) /\ n \notin free
             /\ Mine(ml[p]) = {n} /\ ml[p].pc # "walk"
             /\ free \subseteq Node /\ \A m \in Elements(mylist) : m \notin free
<1> DEFINE l == ml[p]
<1>1. /\ l.pc = "add" /\ l.item \in Node \cup {NoNode} /\ l.item # NoNode
      /\ l.bin = << >> /\ mylist \in Seq(Node)
  BY MLocalsAt DEF add_item_list
<1>2. Mine(l) = {l.item}
  BY <1>1 DEF Mine, Elements
<1>3. /\ Distinct(mylist) /\ free \subseteq Node
      /\ \A m \in Elements(mylist) : m \notin free
      /\ \A m \in Mine(l) : m \notin free /\ m \notin Elements(mylist)
  BY DEF MInv, MTypes, OneHolder
<1> HIDE DEF l
<1>4. LET n == l.item
      IN  /\ n \in Node /\ mylist \in Seq(Node) /\ Distinct(mylist)
          /\ n \notin Elements(mylist) /\ n \notin free
          /\ Mine(l) = {n} /\ l.pc # "walk"
          /\ free \subseteq Node /\ \A m \in Elements(mylist) : m \notin free
  BY <1>1, <1>2, <1>3
<1> QED
  BY <1>4 DEF l

(* list_add of the node in hand, when nobody reads. *)
LEMMA MAdd ==
  ASSUME ModListAssumption, MInv, NEW p \in Procs, add_item_list(p)
  PROVE  MInv'
<1> DEFINE n == ml[p].item
<1>1. /\ ml[p].pc = "add" /\ readers = {} /\ mylist' = <<n>> \o mylist
      /\ ml' = [ml EXCEPT ![p] = Idle] /\ UNCHANGED <<data, free, readers>>
  BY DEF add_item_list, CanWrite
<1>2. /\ Idle \in MLocals /\ Idle.pc = "user" /\ Idle.item = NoNode
      /\ Idle.bin = << >> /\ Idle.used = 0 /\ Mine(Idle) = {} /\ Distinct(Idle.bin)
  <2>1. /\ Idle \in MLocals /\ Idle.pc = "user" /\ Idle.item = NoNode
        /\ Idle.bin = << >> /\ Idle.used = 0
    BY IdleType
  <2> HIDE DEF Idle
  <2> QED BY <2>1, EmptyHands, Zenon
<1> DEFINE list == <<n>> \o mylist
<1>3. /\ n \in Node /\ mylist \in Seq(Node) /\ Distinct(mylist)
      /\ n \notin Elements(mylist) /\ n \notin free
      /\ Mine(ml[p]) = {n} /\ ml[p].pc # "walk"
      /\ free \subseteq Node /\ (\A m \in Elements(mylist) : m \notin free)
  BY <1>1, MAddHolds
<1>4. /\ list \in Seq(Node) /\ Elements(list) = Elements(mylist) \cup {n}
      /\ Distinct(list)
  BY <1>3, DistinctCons
<1> HIDE DEF list, n
<1>5. /\ Ours(ml[p], mylist) = Elements(list) /\ Ours(Idle, list) = Elements(list)
      /\ Elements(list) \cap free = {}
  BY <1>2, <1>3, <1>4 DEF Ours
<1>6. /\ mylist' = list /\ data' \in [Node -> Nat] /\ free' = free
      /\ \A m \in Node \ free : data'[m] \in Value
  BY <1>1 DEF MInv, MTypes, OneHolder, list, n
<1>7. /\ Mine(Idle) \cap Elements(list) = {}
      /\ Ours(Idle, list) \subseteq Ours(ml[p], mylist) \cup (free \ free')
      /\ Ours(Idle, list) \cap free' = {}
      /\ Ours(ml[p], mylist) \cup (free \ free') \subseteq Ours(Idle, list) \cup free'
      /\ free' \ free \subseteq Ours(ml[p], mylist)
      /\ \A m \in Node \ free' : data'[m] \in Value
      /\ free' \subseteq Node
  BY <1>2, <1>3, <1>5, <1>6
<1>8. /\ Idle.pc \notin {"walk", "lock"} /\ UNCHANGED readers /\ readers = {}
      /\ ml' = [ml EXCEPT ![p] = Idle]
  BY <1>1, <1>2
<1> HIDE DEF Idle
<1> QED
  BY <1>2, <1>3, <1>4, <1>6, <1>7, <1>8, MNodes

(***************************************************************************)
(* The loop that moves nodes from mylist to bin.  After k rounds kept and  *)
(* bin divide the first k nodes of mylist between them.                    *)
(***************************************************************************)
Pair == [kept : Seq(Node), bin : Seq(Node)]

Divides(l, nodes) ==
  /\ Distinct(l.kept) /\ Distinct(l.bin)
  /\ Elements(l.kept) \cap Elements(l.bin) = {}
  /\ Elements(l.kept) \cup Elements(l.bin) = nodes

(* One round, for node n. *)
Move(l, n, Gone) ==
  IF n \in Gone
  THEN [kept |-> l.kept, bin |-> <<n>> \o l.bin]
  ELSE [kept |-> Append(l.kept, n), bin |-> l.bin]

LEMMA MoveDivides ==
  ASSUME NEW l \in Pair, NEW n \in Node, NEW Gone
  PROVE  /\ Move(l, n, Gone) \in Pair
         /\ \A nodes : Divides(l, nodes) /\ n \notin nodes
                       => Divides(Move(l, n, Gone), nodes \cup {n})
<1> DEFINE b == <<n>> \o l.bin
           a == Append(l.kept, n)
<1>1. l.kept \in Seq(Node) /\ l.bin \in Seq(Node)
  BY DEF Pair
<1>2. /\ b \in Seq(Node) /\ Elements(b) = Elements(l.bin) \cup {n}
      /\ Distinct(l.bin) /\ n \notin Elements(l.bin) => Distinct(b)
  BY <1>1, DistinctCons
<1>3. /\ a \in Seq(Node) /\ Elements(a) = Elements(l.kept) \cup {n}
      /\ Distinct(l.kept) /\ n \notin Elements(l.kept) => Distinct(a)
  BY <1>1, DistinctAppend
<1>4. Move(l, n, Gone) = IF n \in Gone THEN [kept |-> l.kept, bin |-> b]
                                       ELSE [kept |-> a, bin |-> l.bin]
  BY DEF Move
<1> HIDE DEF a, b
<1>5. Move(l, n, Gone) \in Pair
  BY <1>1, <1>2, <1>3, <1>4 DEF Pair
<1>6. ASSUME NEW nodes, Divides(l, nodes), n \notin nodes
      PROVE  Divides(Move(l, n, Gone), nodes \cup {n})
  <2>1. n \notin Elements(l.kept) /\ n \notin Elements(l.bin)
    BY <1>6 DEF Divides
  <2>2. CASE n \in Gone
    <3>1. Move(l, n, Gone).kept = l.kept /\ Move(l, n, Gone).bin = b
      BY <1>4, <2>2
    <3> QED BY <1>2, <1>6, <2>1, <3>1 DEF Divides
  <2>3. CASE n \notin Gone
    <3>1. Move(l, n, Gone).kept = a /\ Move(l, n, Gone).bin = l.bin
      BY <1>4, <2>3
    <3> QED BY <1>3, <1>6, <2>1, <3>1 DEF Divides
  <2> QED BY <2>2, <2>3
<1> QED
  BY <1>5, <1>6

LEMMA UnlinkDivides ==
  ASSUME ModListAssumption, MInv, NEW p \in Procs, NEW Gone, Unlink(p, Gone)
  PROVE  \E l \in Pair :
           /\ mylist' = l.kept /\ Divides(l, Elements(mylist))
           /\ ml' = [ml EXCEPT ![p] = [Idle EXCEPT !.pc = "free", !.bin = l.bin]]
           /\ readers = {} /\ UNCHANGED <<data, free, readers>>
<1> DEFINE n == Len(mylist)
           none == [kept |-> << >>, bin |-> << >>]
           round == [k \in 1 .. n |-> [l \in Pair |-> Move(l, mylist[k], Gone)]]
           Body(h) == [k \in 0 .. Len(mylist) |->
             IF k = 0 THEN [kept |-> << >>, bin |-> << >>]
             ELSE LET l == h[k - 1]
                      m == mylist[k]
                  IN  IF m \in Gone
                      THEN [kept |-> l.kept, bin |-> <<m>> \o l.bin]
                      ELSE [kept |-> Append(l.kept, m), bin |-> l.bin]]
           moved == CHOOSE h : h = Body(h)
           end == moved[n]
<1>1. /\ mylist \in Seq(Node) /\ n \in Nat /\ Distinct(mylist)
      /\ \A k \in 1 .. n : mylist[k] \in Node
  BY DEF MInv, MTypes, OneHolder
<1>2. /\ mylist' = end.kept /\ readers = {} /\ UNCHANGED <<data, free, readers>>
      /\ ml' = [ml EXCEPT ![p] = [Idle EXCEPT !.pc = "free", !.bin = end.bin]]
  BY Zenon DEF Unlink, CanWrite
<1>3. none \in Pair /\ Divides(none, {})
  BY DEF Pair, Divides, Distinct, Elements
<1>4. round \in [1 .. n -> [Pair -> Pair]]
  <2>1. \A k \in 1 .. n : \A l \in Pair : Move(l, mylist[k], Gone) \in Pair
    BY <1>1, MoveDivides
  <2> HIDE DEF n
  <2> QED BY <2>1
<1>5. PICK h \in [0 .. n -> Pair] : IsRun(h, n, none, round)
  <2> HIDE DEF round, n, none
  <2> QED BY <1>1, <1>3, <1>4, LoopRuns
<1>6. \A g : Body(g) = [k \in 0 .. n |-> IF k = 0 THEN none
                                         ELSE Move(g[k - 1], mylist[k], Gone)]
  BY DEF Move
<1>7. h = Body(h)
  <2>1. \A k \in 0 .. n : k # 0 => k - 1 \in 0 .. n /\ k \in 1 .. n
    BY <1>1
  <2>2. \A k \in 0 .. n : h[k] = IF k = 0 THEN none ELSE round[k][h[k - 1]]
    <3> HIDE DEF round, none, n
    <3> QED BY <1>5 DEF IsRun
  <2>3. \A k \in 0 .. n : k # 0 => round[k][h[k - 1]] = Move(h[k - 1], mylist[k], Gone)
    <3> HIDE DEF n
    <3> QED BY <1>5, <2>1
  <2>4. \A k \in 0 .. n : h[k] = IF k = 0 THEN none
                                 ELSE Move(h[k - 1], mylist[k], Gone)
    <3> HIDE DEF round, n, none
    <3> QED BY <2>2, <2>3
  <2> HIDE DEF round, n, none, Body
  <2> QED BY <1>6, <2>4
<1>8. moved = Body(moved)
  <2> HIDE DEF Body
  <2> QED BY <1>7
<1> HIDE DEF moved
<1>9. \A k \in 0 .. n : moved[k] = IF k = 0 THEN none
                                   ELSE Move(moved[k - 1], mylist[k], Gone)
  <2> HIDE DEF Body, n, none
  <2> QED BY <1>6, <1>8
<1> DEFINE inv == [k \in 0 .. n |->
                     {l \in Pair : Divides(l, {mylist[i] : i \in 1 .. k})}]
<1>10. \A k \in 0 .. n : moved[k] \in inv[k]
  <2>1. moved[0] \in inv[0]
    <3>1. 0 \in 0 .. n /\ {mylist[i] : i \in 1 .. 0} = {}
      BY <1>1
    <3>2. moved[0] = none
      <4> HIDE DEF none
      <4> QED BY <1>9, <3>1
    <3> HIDE DEF none
    <3> QED BY <1>3, <3>1, <3>2
  <2>2. ASSUME NEW k \in 1 .. n, moved[k - 1] \in inv[k - 1]
        PROVE  moved[k] \in inv[k]
    <3>1. k \in 0 .. n /\ k # 0 /\ k - 1 \in 0 .. n
      BY <1>1
    <3> DEFINE l == moved[k - 1]
               before == {mylist[i] : i \in 1 .. k - 1}
    <3>2. l \in Pair /\ Divides(l, before)
      BY <2>2, <3>1
    <3>3. mylist[k] \in Node /\ mylist[k] \notin before
      BY <1>1 DEF Distinct
    <3>4. before \cup {mylist[k]} = {mylist[i] : i \in 1 .. k}
      <4>1. \A i \in 1 .. k : i \in 1 .. k - 1 \/ i = k
        BY <1>1
      <4>2. k \in 1 .. k /\ \A i \in 1 .. k - 1 : i \in 1 .. k
        BY <1>1
      <4> QED BY <4>1, <4>2
    <3>5. moved[k] = Move(l, mylist[k], Gone)
      BY <1>9, <3>1
    <3> HIDE DEF l, before
    <3>6. moved[k] \in Pair /\ Divides(moved[k], before \cup {mylist[k]})
      BY <3>2, <3>3, <3>5, MoveDivides
    <3>7. inv[k] = {x \in Pair : Divides(x, {mylist[i] : i \in 1 .. k})}
      BY <3>1
    <3> HIDE DEF inv
    <3> QED BY <3>4, <3>6, <3>7
  <2> HIDE DEF inv, n
  <2> QED BY <1>1, <2>1, <2>2, LoopKeeps
<1>11. end \in Pair /\ Divides(end, Elements(mylist))
  <2>1. n \in 0 .. n
    BY <1>1
  <2>2. end \in inv[n]
    <3> HIDE DEF inv, n
    <3> QED BY <1>10, <2>1
  <2>3. inv[n] = {l \in Pair : Divides(l, {mylist[i] : i \in 1 .. n})}
    BY <2>1
  <2>4. {mylist[i] : i \in 1 .. n} = Elements(mylist)
    BY DEF Elements
  <2> HIDE DEF inv, end
  <2> QED BY <2>2, <2>3, <2>4
<1> HIDE DEF end
<1> QED
  BY <1>2, <1>11, Zenon

(* The nodes that leave mylist are in the hands of the process. *)
LEMMA MUnlink ==
  ASSUME ModListAssumption, MInv, NEW p \in Procs,
         NEW Gone, Unlink(p, Gone), ml[p].pc \in {"remove", "clear"}
  PROVE  MInv'
<1>1. PICK l \in Pair :
        /\ mylist' = l.kept /\ Divides(l, Elements(mylist))
        /\ ml' = [ml EXCEPT ![p] = [Idle EXCEPT !.pc = "free", !.bin = l.bin]]
        /\ readers = {} /\ UNCHANGED <<data, free, readers>>
  BY UnlinkDivides, Zenon
<1> DEFINE b == l.bin
           list == l.kept
           r == [Idle EXCEPT !.pc = "free", !.bin = b]
<1>2. /\ b \in Seq(Node) /\ list \in Seq(Node) /\ Distinct(b) /\ Distinct(list)
      /\ Elements(list) \cap Elements(b) = {}
      /\ Elements(list) \cup Elements(b) = Elements(mylist)
  BY <1>1 DEF Pair, Divides
<1>3. ml' = [ml EXCEPT ![p] = r] /\ mylist' = list /\ UNCHANGED readers /\ readers = {}
      /\ data' = data /\ free' = free
  BY <1>1, Zenon
<1> HIDE DEF b, list
<1>4. r.pc = "free" /\ r.item = NoNode /\ r.bin = b /\ r.used = 0
  BY DEF Idle
<1>5. r \in MLocals
  BY <1>2, IdleType DEF MLocals, MPlaces
<1> HIDE DEF r
<1>6. Mine(ml[p]) = {} /\ Mine(r) = Elements(b) /\ Distinct(r.bin)
  <2>1. ml[p].item = NoNode /\ ml[p].bin = << >>
    BY MLocalsAt
  <2>2. Mine(ml[p]) = {}
    BY <2>1, EmptyHands
  <2> QED BY <1>2, <1>4, <2>2 DEF Mine
<1>7. /\ data \in [Node -> Nat] /\ free \subseteq Node
      /\ (\A m \in Elements(mylist) : m \notin free)
      /\ \A m \in Node \ free : data[m] \in Value
  BY DEF MInv, MTypes, OneHolder
<1>8. Ours(ml[p], mylist) = Elements(mylist) /\ Ours(r, list) = Elements(mylist)
  BY <1>2, <1>6 DEF Ours
<1>9. /\ Mine(r) \cap Elements(list) = {}
      /\ Ours(r, list) \subseteq Ours(ml[p], mylist) \cup (free \ free')
      /\ Ours(r, list) \cap free' = {}
      /\ Ours(ml[p], mylist) \cup (free \ free') \subseteq Ours(r, list) \cup free'
      /\ free' \ free \subseteq Ours(ml[p], mylist)
      /\ \A m \in Node \ free' : data'[m] \in Value
      /\ data' \in [Node -> Nat] /\ free' \subseteq Node
  BY <1>2, <1>3, <1>6, <1>7, <1>8
<1>10. ml[p].pc # "walk" /\ r.pc \notin {"walk", "lock"}
       /\ ((r.pc = "add") <=> (r.item # NoNode)) /\ (r.pc # "free" => r.bin = << >>)
  BY <1>4
<1> QED
  BY <1>2, <1>3, <1>4, <1>5, <1>6, <1>9, <1>10, MNodes

(* One node of bin is freed, or there is none left. *)
LEMMA MFree ==
  ASSUME ModListAssumption, MInv, NEW p \in Procs, unsafe_clear_list(p)
  PROVE  MInv'
<1>1. ml[p].pc = "free" /\ UNCHANGED <<mylist, data, readers>>
  BY DEF unsafe_clear_list
<1>2. CASE ml[p].bin = << >>
  <2>1. ml' = [ml EXCEPT ![p] = Idle] /\ free' = free
    BY <1>2 DEF unsafe_clear_list
  <2>2. Idle \in MLocals /\ Idle.pc \notin {"walk", "add"} /\ Idle.item = NoNode
        /\ Idle.bin = << >> /\ Idle.text = << >> /\ Idle.used = 0
    BY IdleType
  <2> HIDE DEF Idle
  <2> QED BY <1>1, <1>2, <2>1, <2>2, MBegin
<1>3. CASE ml[p].bin # << >>
  <2> DEFINE q == ml[p].bin
             b == Tail(q)
             n == Head(q)
             r == [ml[p] EXCEPT !.bin = b]
  <2>1. ml' = [ml EXCEPT ![p] = r] /\ free' = free \cup {n}
    <3>1. ml' = [ml EXCEPT ![p].bin = Tail(@)] /\ free' = free \cup {Head(ml[p].bin)}
      BY <1>3 DEF unsafe_clear_list
    <3>2. [ml EXCEPT ![p].bin = Tail(@)] = [ml EXCEPT ![p] = r]
      BY DEF MInv, MTypes
    <3> QED BY <3>1, <3>2
  <2>2. q \in Seq(Node) /\ ml[p].item = NoNode /\ ml[p] \in MLocals /\ q # << >>
        /\ Distinct(q)
    BY <1>1, <1>3, MLocalsAt DEF MInv, OneHolder
  <2>3. Mine(ml[p]) = Elements(q)
    BY <2>2 DEF Mine
  <2> HIDE DEF q
  <2>4. /\ b \in Seq(Node) /\ n \in Node /\ Elements(q) = Elements(b) \cup {n}
        /\ Distinct(b) /\ n \notin Elements(b)
    BY <2>2, DistinctTail
  <2> HIDE DEF b, n
  <2>5. r \in MLocals /\ r.pc = "free" /\ r.item = NoNode /\ r.bin = b
    BY <1>1, <2>2, <2>4 DEF MLocals
  <2>6. r.used = ml[p].used
    OBVIOUS
  <2> HIDE DEF r
  <2>7. Mine(r) = Elements(b) /\ Distinct(r.bin)
    BY <2>4, <2>5 DEF Mine
  <2>8. /\ data \in [Node -> Nat] /\ free \subseteq Node
        /\ (\A m \in Elements(mylist) : m \notin free)
        /\ (\A m \in Elements(q) : m \notin free /\ m \notin Elements(mylist))
        /\ (\A m \in Node \ free : data[m] \in Value)
        /\ mylist \in Seq(Node) /\ Distinct(mylist)
    BY <2>3 DEF MInv, MTypes, OneHolder
  <2>9. Ours(ml[p], mylist) = Elements(b) \cup {n} \cup Elements(mylist)
        /\ Ours(r, mylist) = Elements(b) \cup Elements(mylist)
    BY <2>3, <2>4, <2>7 DEF Ours
  <2>10. /\ mylist' = mylist /\ data' = data
         /\ Mine(r) \cap Elements(mylist) = {}
         /\ Ours(r, mylist) \subseteq Ours(ml[p], mylist) \cup (free \ free')
         /\ Ours(r, mylist) \cap free' = {}
         /\ Ours(ml[p], mylist) \cup (free \ free') \subseteq Ours(r, mylist) \cup free'
         /\ free' \ free \subseteq Ours(ml[p], mylist)
         /\ \A m \in Node \ free' : data'[m] \in Value
         /\ data' \in [Node -> Nat] /\ free' \subseteq Node
    BY <1>1, <2>1, <2>4, <2>7, <2>8, <2>9
  <2>11. ml[p].pc # "walk" /\ r.pc \notin {"walk", "lock"} /\ UNCHANGED readers
         /\ ((r.pc = "add") <=> (r.item # NoNode)) /\ (r.pc # "free" => r.bin = << >>)
         /\ \A m \in Elements(mylist) : data'[m] = data[m]
    BY <1>1, <2>5, <2>10
  <2> QED BY <2>1, <2>5, <2>6, <2>7, <2>8, <2>10, <2>11, MNodes
<1> QED
  BY <1>2, <1>3

(* The module is removed when nobody is in a call. *)
LEMMA MClean ==
  ASSUME ModListAssumption, MInv, modlist_clean
  PROVE  MInv'
<1>1. /\ \A p \in Procs : ml[p].pc = "user"
      /\ mylist' = << >> /\ free' = free \cup ToSet(mylist)
      /\ ml' = ml /\ data' = data /\ readers' = readers
  BY DEF modlist_clean
<1>2. ToSet(mylist) = Elements(mylist) /\ Elements(mylist) \subseteq Node
  BY SequenceSets DEF MInv, MTypes, Elements
<1>3. \A p \in Procs : /\ ml'[p] = ml[p] /\ Mine(ml[p]) = {} /\ Mine(ml'[p]) = {}
                       /\ Distinct(ml'[p].bin)
  <2> TAKE p \in Procs
  <2>1. ml[p].item = NoNode /\ ml[p].bin = << >>
    BY <1>1, MLocalsAt
  <2>2. Mine(ml[p]) = {} /\ Distinct(ml[p].bin)
    BY <2>1, EmptyHands
  <2> QED BY <1>1, <2>2
<1>4. Distinct(mylist') /\ Elements(mylist') = {}
  BY <1>1 DEF Distinct, Elements
<1>5. Node \ free' = {}
  <2>1. \A n \in Node \ free : n \in Elements(mylist)
    BY <1>3 DEF MInv, OneHolder
  <2> QED BY <1>1, <1>2, <2>1
<1>6. MTypes'
  <2>1. << >> \in Seq(Node)
    OBVIOUS
  <2>2. mylist' \in Seq(Node)
    BY <1>1, <2>1, Zenon
  <2> QED BY <1>1, <1>2, <2>2 DEF MInv, MTypes
<1>7. OneHolder'
  BY <1>3, <1>4, <1>5 DEF OneHolder
<1>8. ASSUME NEW p \in Procs  PROVE Overshoot(ml'[p]) /\ ml'[p].pc # "walk"
  BY <1>1, <1>3 DEF MInv
<1> QED
  BY <1>6, <1>7, <1>8 DEF MInv

LEMMA MUnchanged ==
  ASSUME MInv, UNCHANGED <<mylist, data, free, readers, ml>>
  PROVE  MInv'
<1>1. MTypes'
  BY DEF MInv, MTypes
<1>2. OneHolder'
  <2>1. Elements(mylist') = Elements(mylist) /\ (Distinct(mylist) => Distinct(mylist'))
    OBVIOUS
  <2>2. \A p \in Procs : ml'[p] = ml[p]
    OBVIOUS
  <2>3. \A p \in Procs : /\ Mine(ml'[p]) = Mine(ml[p])
                         /\ Distinct(ml[p].bin) => Distinct(ml'[p].bin)
    BY <2>2
  <2> QED BY <2>1, <2>3 DEF MInv, OneHolder
<1>3. ASSUME NEW p \in Procs
      PROVE  (ml'[p].pc = "walk" => Walked(ml[p])') /\ Overshoot(ml'[p])
  <2>1. ml'[p] = ml[p]
    OBVIOUS
  <2> QED BY <2>1 DEF MInv, Walked
<1> QED
  BY <1>1, <1>2, <1>3 DEF MInv

LEMMA MInvHolds == MLSpec => []MInv
<1> USE ModListAssumption
<1>1. MLInit => MInv
  BY MInitial
<1>2. MInv /\ [MLNext]_mlVars => MInv'
  <2> SUFFICES ASSUME MInv, [MLNext]_mlVars  PROVE MInv'
    OBVIOUS
  <2>1. CASE modlist_init
    BY <2>1, MUnchanged DEF modlist_init
  <2>2. CASE modlist_clean
    BY <2>2, MClean
  <2>3. ASSUME NEW p \in Procs, Read(p)  PROVE MInv'
    BY <2>3, MRead
  <2>4. ASSUME NEW p \in Procs, ReadLock(p)  PROVE MInv'
    BY <2>4, MReadLock
  <2>5. ASSUME NEW p \in Procs, ReadStep(p)  PROVE MInv'
    BY <2>5, MReadStep
  <2>6. ASSUME NEW p \in Procs, ReadUnlock(p)  PROVE MInv'
    BY <2>6, MReadUnlock
  <2>7. ASSUME NEW p \in Procs, Write(p)  PROVE MInv'
    BY <2>7, MWrite
  <2>8. ASSUME NEW p \in Procs, add_item_list(p)  PROVE MInv'
    BY <2>8, MAdd
  <2>9. ASSUME NEW p \in Procs, remove_items_list(p)  PROVE MInv'
    BY <2>9, MUnlink DEF remove_items_list
  <2>10. ASSUME NEW p \in Procs, safe_clear_list(p)  PROVE MInv'
    BY <2>10, MUnlink DEF safe_clear_list
  <2>11. ASSUME NEW p \in Procs, unsafe_clear_list(p)  PROVE MInv'
    BY <2>11, MFree
  <2>12. CASE UNCHANGED mlVars
    BY <2>12, MUnchanged DEF mlVars
  <2> QED
    BY <2>1, <2>2, <2>3, <2>4, <2>5, <2>6, <2>7, <2>8, <2>9, <2>10, <2>11, <2>12
    DEF MLNext
<1> QED
  BY <1>1, <1>2, PTL DEF MLSpec

(* No node of /proc/modlist is freed twice or while it is linked, and none *)
(* is lost: whatever writers and readers do at the same time, and with     *)
(* either lock, an allocated node has exactly one holder.                  *)
THEOREM NodesHaveOneHolder == MLSpec => []NodesAccounted
<1> USE ModListAssumption
<1>1. MInv => NodesAccounted
  BY MInvMeans
<1> QED
  BY <1>1, MInvHolds, PTL

(* Readers see the list as it was when they took the lock, however many    *)
(* walk at once: procfile_read never stands on an unlinked node.           *)
THEOREM ReadersSeeOneList == MLSpec => []SnapshotRead
<1> USE ModListAssumption
<1>1. MInv => SnapshotRead
  BY MInvMeans
<1> QED
  BY <1>1, MInvHolds, PTL

(* procfile_read passes the end of its buffer by less than one number,     *)
(* for any list.                                                           *)
THEOREM ReadOvershootIsOneNumber == MLSpec => []ReadOvershoot
<1> USE ModListAssumption
<1>1. MInv => ReadOvershoot
  BY MInvMeans
<1> QED
  BY <1>1, MInvHolds, PTL

-----------------------------------------------------------------------------
(* The module of fifo.c *)

FMTypes ==
  /\ module \in {"out", "live", "going"} /\ registered \in BOOLEAN
  /\ refs \in Int /\ buf \in BOOLEAN /\ blocks \in Int
  /\ file \in [Procs -> {"none", "opening", "open", "releasing", "dangling"}]
  /\ pinned \subseteq Procs
  /\ unput \in Nat /\ unpaired \in Nat /\ dropped \in Nat

(* A file gets its reference while the module is live, and then all do:    *)
(* rmmod, which starts from a count of zero, therefore finds none pinned,  *)
(* and none becomes so until the next module.                              *)
FMInv ==
  /\ FMTypes /\ RefsAccounted
  /\ module = "out" => ~ registered /\ \A p \in Procs : file[p] \in {"none", "dangling"}
  /\ (module # "out") = buf
  /\ module = "live" =>
       /\ registered /\ unpaired = 0
       /\ \A p \in Procs : file[p] \in {"open", "releasing"} => p \in pinned
  /\ module # "live" => pinned = {}
  /\ \A p \in pinned : file[p] \in {"open", "releasing"}

LEMMA PinnedFinite ==
  ASSUME FMTypes
  PROVE  IsFiniteSet(pinned) /\ Cardinality(pinned) \in Nat
<1>1. IsFiniteSet(pinned) BY KernelAssumption, FS_Subset DEF FMTypes
<1> QED BY <1>1, FS_CardinalityType

LEMMA FMStarts == FMInit => FMInv
<1> SUFFICES ASSUME FMInit PROVE FMInv OBVIOUS
<1>1. FMTypes
  <2>1. file \in [Procs -> {"none", "opening", "open", "releasing", "dangling"}]
    BY DEF FMInit
  <2>2. /\ refs \in Int /\ blocks \in Int /\ unput \in Nat /\ unpaired \in Nat
        /\ dropped \in Nat
    BY DEF FMInit
  <2>3. /\ module \in {"out", "live", "going"} /\ registered \in BOOLEAN
        /\ buf \in BOOLEAN /\ pinned \subseteq Procs
    BY DEF FMInit
  <2> QED BY <2>1, <2>2, <2>3 DEF FMTypes
<1>2. RefsAccounted
  BY DEF FMInit, RefsAccounted, CountExact, BlocksExact
<1> QED BY <1>1, <1>2 DEF FMInit, FMInv

LEMMA InitModuleStep ==
  ASSUME FMInv, init_module
  PROVE  FMInv'
<1>1. module = "out" /\ UNCHANGED <<file, pinned>> /\ pinned = {} /\ FMTypes
  BY DEF init_module, FMInv
<1>2. CASE /\ \E n \in {0, 1} : blocks' = blocks + n /\ dropped' = dropped + n
           /\ UNCHANGED <<module, registered, refs, buf, unput, unpaired>>
  <2>1. PICK n \in {0, 1} : blocks' = blocks + n /\ dropped' = dropped + n
    BY <1>2
  <2>2. FMTypes' BY <1>1, <1>2, <2>1 DEF FMTypes
  <2>3. BlocksExact'
    BY <1>1, <1>2, <2>1 DEF FMInv, RefsAccounted, BlocksExact, FMTypes
  <2>4. CountExact' BY <1>1, <1>2 DEF CountExact
  <2> QED BY <1>1, <1>2, <2>2, <2>3, <2>4 DEF FMInv, RefsAccounted
<1>3. CASE /\ module' = "live" /\ registered' = TRUE /\ refs' = 0
           /\ buf' = TRUE /\ blocks' = blocks + 2
           /\ unput' = 0 /\ unpaired' = 0
           /\ UNCHANGED <<stale, dropped>>
  <2>1. FMTypes' BY <1>1, <1>3 DEF FMTypes
  <2>2. BlocksExact'
    <3>1. blocks = (IF buf THEN 2 ELSE 0) + dropped
      BY DEF FMInv, RefsAccounted, BlocksExact
    <3>2. buf = FALSE BY <1>1 DEF FMInv, FMTypes
    <3> QED BY <1>1, <1>3, <3>1, <3>2 DEF BlocksExact, FMTypes
  <2>3. CountExact' BY <1>1, <1>3, FS_EmptySet DEF CountExact
  <2> QED BY <1>1, <1>3, <2>1, <2>2, <2>3 DEF FMInv, RefsAccounted
<1> QED BY <1>2, <1>3 DEF init_module

(* rmmod, and the two statements of cleanup_module. *)
LEMMA RemovalStep ==
  ASSUME FMInv, rmmod \/ Unregister \/ Destroy
  PROVE  FMInv'
<1>1. FMTypes /\ RefsAccounted BY DEF FMInv
<1>2. CASE rmmod
  <2>1. /\ module = "live" /\ refs = 0 /\ module' = "going"
        /\ UNCHANGED <<registered, stale, refs, buf, blocks, file, pinned>>
        /\ UNCHANGED <<unput, unpaired, dropped>>
    BY <1>2 DEF rmmod
  <2>2. pinned = {}
    <3>1. 0 = Cardinality(pinned) + unput - 0 /\ unput \in Nat
      BY <1>1, <2>1 DEF FMInv, RefsAccounted, CountExact, FMTypes
    <3>2. Cardinality(pinned) = 0 BY <1>1, <3>1, PinnedFinite
    <3> QED BY <1>1, <3>2, PinnedFinite, FS_EmptySet
  <2>3. FMTypes' BY <1>1, <2>1 DEF FMTypes
  <2>4. RefsAccounted'
    BY <1>1, <2>1 DEF RefsAccounted, CountExact, BlocksExact
  <2> QED BY <2>1, <2>2, <2>3, <2>4 DEF FMInv, FMTypes
<1>3. CASE Unregister
  <2>1. /\ module = "going" /\ registered' = FALSE
        /\ UNCHANGED <<module, stale, refs, buf, blocks, file, pinned>>
        /\ UNCHANGED <<unput, unpaired, dropped>>
    BY <1>3 DEF Unregister
  <2>2. FMTypes' BY <1>1, <2>1 DEF FMTypes
  <2>3. RefsAccounted'
    BY <1>1, <2>1 DEF RefsAccounted, CountExact, BlocksExact
  <2> QED BY <2>1, <2>2, <2>3 DEF FMInv
<1>4. CASE Destroy
  <2>1. /\ module = "going" /\ ~ registered /\ buf' = FALSE /\ blocks' = blocks - 2
        /\ module' = "out" /\ Abandon
        /\ UNCHANGED <<registered, stale, refs, pinned, unput, unpaired, dropped>>
    BY <1>4 DEF Destroy
  <2>2. /\ file' \in [Procs -> {"none", "opening", "open", "releasing", "dangling"}]
        /\ \A p \in Procs : file'[p] \in {"none", "dangling"}
    BY <2>1 DEF Abandon
  <2>3. FMTypes'
    <3>1. blocks' \in Int BY <1>1, <2>1 DEF FMTypes
    <3>2. module' \in {"out", "live", "going"} /\ buf' \in BOOLEAN BY <2>1
    <3> QED BY <1>1, <2>1, <2>2, <3>1, <3>2 DEF FMTypes
  <2>4. RefsAccounted'
    <3>1. buf = TRUE BY <1>1, <2>1 DEF FMInv, FMTypes
    <3>2. blocks = 2 + dropped BY <1>1, <3>1 DEF RefsAccounted, BlocksExact
    <3>3. blocks' = 0 + dropped' BY <1>1, <2>1, <3>2 DEF FMTypes
    <3> QED BY <2>1, <3>3 DEF RefsAccounted, CountExact, BlocksExact
  <2>5. pinned' = {} BY <2>1 DEF FMInv
  <2> QED BY <2>1, <2>2, <2>3, <2>4, <2>5 DEF FMInv
<1> QED BY <1>2, <1>3, <1>4

(* A step of one file, before it has a reference or on its way to release. *)
LEMMA FileMoves ==
  ASSUME FMInv, NEW p \in Procs,
         OpenEnters(p) \/ OpenInterrupted(p) \/ ReleaseEnters(p)
  PROVE  FMInv'
<1>1. FMTypes /\ RefsAccounted BY DEF FMInv
<1>2. ASSUME NEW l \in {"none", "opening", "releasing"},
             file' = [file EXCEPT ![p] = l],
             l = "releasing" => file[p] = "open",
             l # "releasing" => file[p] \in {"none", "opening"},
             l = "opening" => registered,
             UNCHANGED <<module, registered, refs, buf, blocks, pinned>>,
             UNCHANGED <<unput, unpaired, dropped>>
      PROVE  FMInv'
  <2>1. FMTypes' BY <1>1, <1>2 DEF FMTypes
  <2>2. RefsAccounted'
    BY <1>1, <1>2 DEF RefsAccounted, CountExact, BlocksExact
  <2>3. /\ file'[p] = l /\ \A q \in Procs \ {p} : file'[q] = file[q]
    BY <1>1, <1>2 DEF FMTypes
  <2> QED BY <1>1, <1>2, <2>1, <2>2, <2>3 DEF FMInv, FMTypes
<1> QED BY <1>2 DEF OpenEnters, OpenInterrupted, ReleaseEnters

(* The references: taken by an open, put back or left by a release. *)
LEMMA OpenReturnsStep ==
  ASSUME FMInv, NEW p \in Procs, OpenReturns(p)
  PROVE  FMInv'
<1>1. FMTypes /\ RefsAccounted BY DEF FMInv
<1>2. /\ file[p] = "opening" /\ file' = [file EXCEPT ![p] = "open"]
      /\ UNCHANGED <<module, registered, stale, buf, blocks, unput, unpaired, dropped>>
  BY DEF OpenReturns
<1>3. p \notin pinned BY <1>2 DEF FMInv
<1>4. file'[p] = "open" /\ \A q \in Procs \ {p} : file'[q] = file[q]
  BY <1>1, <1>2 DEF FMTypes
<1>5. CASE module = "live"
  <2>1. refs' = refs + 1 /\ pinned' = pinned \cup {p} BY <1>5 DEF OpenReturns
  <2>2. FMTypes' BY <1>1, <1>2, <2>1 DEF FMTypes
  <2>3. CountExact'
    <3>1. Cardinality(pinned') = Cardinality(pinned) + 1
      BY <1>1, <1>3, <2>1, PinnedFinite, FS_AddElement
    <3>2. refs = Cardinality(pinned) + unput - unpaired
      BY <1>1, <1>5 DEF RefsAccounted, CountExact
    <3> QED BY <1>1, <1>2, <2>1, <3>1, <3>2, PinnedFinite DEF CountExact, FMTypes
  <2>4. RefsAccounted' BY <1>1, <1>2, <2>3 DEF RefsAccounted, BlocksExact
  <2> QED BY <1>2, <1>4, <1>5, <2>1, <2>2, <2>4 DEF FMInv
<1>6. CASE module # "live"
  <2>1. UNCHANGED <<refs, pinned>> BY <1>6 DEF OpenReturns
  <2>2. FMTypes' BY <1>1, <1>2, <2>1 DEF FMTypes
  <2>3. RefsAccounted'
    BY <1>1, <1>2, <2>1 DEF RefsAccounted, CountExact, BlocksExact
  <2> QED BY <1>2, <1>4, <1>6, <2>1, <2>2, <2>3 DEF FMInv
<1> QED BY <1>5, <1>6

LEMMA ReleaseEndsStep ==
  ASSUME FMInv, NEW p \in Procs, ReleaseInterrupted(p) \/ ReleaseReturns(p)
  PROVE  FMInv'
<1>1. FMTypes /\ RefsAccounted BY DEF FMInv
<1>2. /\ file[p] = "releasing" /\ file' = [file EXCEPT ![p] = "none"]
      /\ pinned' = pinned \ {p}
      /\ UNCHANGED <<module, registered, buf, blocks, dropped>>
      /\ \/ refs' = refs /\ unput' = unput + Cardinality(pinned \cap {p}) /\ unpaired' = unpaired
         \/ refs' = refs - 1 /\ unput' = unput
              /\ unpaired' = unpaired + (IF p \in pinned THEN 0 ELSE 1)
  BY DEF ReleaseInterrupted, ReleaseReturns
<1>3. file'[p] = "none" /\ \A q \in Procs \ {p} : file'[q] = file[q]
  BY <1>1, <1>2 DEF FMTypes
<1>4. Cardinality(pinned \cap {p}) = Count(p \in pinned)
  <2>1. CASE p \in pinned
    <3>1. pinned \cap {p} = {p} BY <2>1
    <3> QED BY <2>1, <3>1, FS_Singleton DEF Count
  <2>2. CASE p \notin pinned
    <3>1. pinned \cap {p} = {} BY <2>2
    <3> QED BY <2>2, <3>1, FS_EmptySet DEF Count
  <2> QED BY <2>1, <2>2
<1>5. /\ Cardinality(pinned') = Cardinality(pinned) - Count(p \in pinned)
      /\ Cardinality(pinned) \in Nat /\ Cardinality(pinned') \in Nat
  <2>1. CASE p \in pinned
    BY <1>1, <1>2, <2>1, PinnedFinite, FS_RemoveElement, FS_CardinalityType DEF Count
  <2>2. CASE p \notin pinned
    <3>1. pinned' = pinned BY <1>2, <2>2
    <3> QED BY <1>1, <2>2, <3>1, PinnedFinite DEF Count
  <2> QED BY <2>1, <2>2
<1>6. FMTypes'
  <2>1. unput' \in Nat /\ unpaired' \in Nat /\ refs' \in Int
    BY <1>1, <1>2, <1>4 DEF FMTypes, Count
  <2> QED BY <1>1, <1>2, <2>1 DEF FMTypes
<1>7. module = "live" => unpaired' = 0
  BY <1>1, <1>2 DEF FMInv
<1>8. CountExact'
  <2>1. SUFFICES ASSUME module # "out"
                 PROVE  refs' = Cardinality(pinned') + unput' - unpaired'
    BY <1>2 DEF CountExact
  <2>2. refs = Cardinality(pinned) + unput - unpaired
    BY <1>1, <2>1 DEF RefsAccounted, CountExact
  <2>3. refs \in Int /\ unput \in Nat /\ unpaired \in Nat BY <1>1 DEF FMTypes
  <2>4. CASE p \in pinned
    BY <1>2, <1>4, <1>5, <2>2, <2>3, <2>4 DEF Count
  <2>5. CASE p \notin pinned
    BY <1>2, <1>4, <1>5, <2>2, <2>3, <2>5 DEF Count
  <2> QED BY <2>4, <2>5
<1>9. RefsAccounted' BY <1>1, <1>2, <1>8 DEF RefsAccounted, BlocksExact
<1> QED BY <1>2, <1>3, <1>6, <1>7, <1>9 DEF FMInv, FMTypes

LEMMA FMStep == FMInv /\ [FMNext]_fmVars => FMInv'
<1> SUFFICES ASSUME FMInv, [FMNext]_fmVars PROVE FMInv' OBVIOUS
<1>1. CASE UNCHANGED fmVars
  BY <1>1 DEF fmVars, FMInv, FMTypes, RefsAccounted, CountExact, BlocksExact
<1>2. ASSUME NEW p \in Procs,
             \/ OpenEnters(p) \/ OpenInterrupted(p) \/ OpenReturns(p)
             \/ ReleaseEnters(p) \/ ReleaseInterrupted(p) \/ ReleaseReturns(p)
      PROVE  FMInv'
  BY <1>2, FileMoves, OpenReturnsStep, ReleaseEndsStep
<1> QED BY <1>1, <1>2, InitModuleStep, RemovalStep DEF FMNext

(* The module's count is the files that hold a reference, plus those that  *)
(* interrupted releases keep, minus the puts of files that never had one;  *)
(* and no block of memory is forgotten but the struct create_cbuffer_t     *)
(* loses.                                                                  *)
THEOREM ReferencesAddUp == FMSpec => []RefsAccounted
<1>1. FMInv => RefsAccounted BY DEF FMInv
<1> QED BY <1>1, FMStarts, FMStep, PTL DEF FMSpec

(* A file whose open has returned with a reference keeps the module, its   *)
(* registration and its buffer until its release, whatever rmmod does.     *)
THEOREM ReferenceKeepsModule == FMSpec => []PinnedFileHasModule
<1>1. FMInv => PinnedFileHasModule BY DEF FMInv, FMTypes, PinnedFileHasModule
<1> QED BY <1>1, FMStarts, FMStep, PTL DEF FMSpec

-----------------------------------------------------------------------------
(* The device of chardev.c *)

CDPlaces == {"user", "load", "store", "message", "get", "dec", "drop",
             "loop", "next", "put"}

CDTypes ==
  /\ loaded \in BOOLEAN
  /\ Device_Open \in Int /\ msg_Ptr \in Int /\ uses \in Int
  /\ cd \in [Procs -> [pc : CDPlaces, reg : Int, file : Procs \cup {NoProc}]]
  /\ opened \subseteq Procs /\ raced \subseteq {"open", "read"}

(* Each open file, and each that is about to give it back, has a reference. *)
HeldFiles == opened \cup {p \in Procs : cd[p].pc = "drop"}

CDRefs ==
  /\ uses = Cardinality(HeldFiles)
  /\ \A p \in Procs :
       /\ cd[p].pc \in {"load", "store", "message", "get", "drop"} => p \notin opened
       /\ cd[p].pc = "dec" => p \in opened
  /\ ~ loaded => opened = {} /\ \A p \in Procs : cd[p].pc = "user"

(* p has the device: Device_Open counts it.                                *)
Has(p) == p \in opened \/ cd[p].pc \in {"message", "get"}

CDExclusive ==
  /\ \A p, q \in Procs : Has(p) /\ Has(q) => p = q
  /\ Device_Open = (IF \E p \in Procs : Has(p) THEN 1 ELSE 0)
  /\ \A p, q \in Procs :
       /\ cd[p].pc \in Opening => ~ Has(q)
       /\ cd[p].pc \in Opening /\ cd[q].pc \in Opening => p = q
  /\ \A p \in Procs : /\ cd[p].pc \in Opening => cd[p].reg = 0
                      /\ cd[p].pc = "dec" => cd[p].reg = 1

CDCursor ==
  /\ msg_Ptr <= LENGTH
  /\ \A p, q \in Procs : cd[p].pc \in Moving /\ cd[q].pc \in Moving => p = q
  /\ \A p \in Procs : /\ cd[p].pc \in Moving => cd[p].reg < LENGTH
                      /\ cd[p].pc = "next" => msg_Ptr < LENGTH

CDInv ==
  /\ CDTypes /\ CDRefs
  /\ "open" \notin raced => CDExclusive
  /\ "read" \notin raced => CDCursor

LEMMA CDStarts == CDInit => CDInv
<1> SUFFICES ASSUME CDInit PROVE CDInv OBVIOUS
<1>1. /\ cd \in [Procs -> [pc : CDPlaces, reg : Int, file : Procs \cup {NoProc}]]
      /\ \A p \in Procs : cd[p].pc = "user"
  BY DEF CDInit, CDPlaces, User
<1>2. CDTypes
  <2>1. Device_Open \in Int /\ msg_Ptr \in Int /\ uses \in Int BY DEF CDInit
  <2>2. loaded \in BOOLEAN /\ opened \subseteq Procs /\ raced \subseteq {"open", "read"} BY DEF CDInit
  <2> QED BY <1>1, <2>1, <2>2 DEF CDTypes
<1>3. CDRefs
  <2>1. HeldFiles = {} BY <1>1 DEF HeldFiles, CDInit
  <2> QED BY <1>1, <2>1, FS_EmptySet DEF CDRefs, CDInit
<1>4. CDExclusive BY <1>1 DEF CDExclusive, Has, Opening, CDInit
<1>5. CDCursor BY <1>1, ChardevAssumption DEF CDCursor, Moving, CDInit
<1> QED BY <1>2, <1>3, <1>4, <1>5 DEF CDInv

(* p has moved to l, and the others have not moved. *)
Moved(p, l) ==
  /\ cd' \in [Procs -> [pc : CDPlaces, reg : Int, file : Procs \cup {NoProc}]]
  /\ cd'[p].pc = l
  /\ \A q \in Procs \ {p} : cd'[q] = cd[q]

LEMMA CDMoves ==
  ASSUME CDTypes, NEW p \in Procs, NEW l \in CDPlaces
  PROVE  /\ \A r \in Int : Goes(p, l, r) => Moved(p, l) /\ cd'[p].reg = r
         /\ Returns(p) => Moved(p, "user") /\ cd'[p].reg = 0
         /\ \A f \in Procs : cd' = [cd EXCEPT ![p] = [pc |-> "loop", reg |-> 0, file |-> f]]
              => Moved(p, "loop")
<1>0. cd \in [Procs -> [pc : CDPlaces, reg : Int, file : Procs \cup {NoProc}]]
  BY DEF CDTypes
<1>1. ASSUME NEW r \in Int, Goes(p, l, r) PROVE Moved(p, l) /\ cd'[p].reg = r
  <2>1. cd' = [cd EXCEPT ![p] = [cd[p] EXCEPT !.pc = l, !.reg = r]]
    BY <1>0, <1>1 DEF Goes
  <2>2. [cd[p] EXCEPT !.pc = l, !.reg = r] \in
          [pc : CDPlaces, reg : Int, file : Procs \cup {NoProc}]
    BY <1>0
  <2> QED BY <1>0, <2>1, <2>2 DEF Moved
<1>2. ASSUME Returns(p) PROVE Moved(p, "user") /\ cd'[p].reg = 0
  <2>1. User \in [pc : CDPlaces, reg : Int, file : Procs \cup {NoProc}]
        /\ User.pc = "user" /\ User.reg = 0
    BY DEF User, CDPlaces
  <2> QED BY <1>0, <1>2, <2>1 DEF Moved, Returns
<1>3. ASSUME NEW f \in Procs,
             cd' = [cd EXCEPT ![p] = [pc |-> "loop", reg |-> 0, file |-> f]]
      PROVE  Moved(p, "loop")
  <2>1. [pc |-> "loop", reg |-> 0, file |-> f] \in
          [pc : CDPlaces, reg : Int, file : Procs \cup {NoProc}]
    BY DEF CDPlaces
  <2> QED BY <1>0, <1>3, <2>1 DEF Moved
<1> QED BY <1>1, <1>2, <1>3

(* The steps inside the driver, by the variables that each of them leaves.  *)
OpenSteps(p) == OpenTest(p) \/ OpenLoad(p) \/ OpenStore(p) \/ OpenMessage(p) \/ OpenGet(p)
ReleaseSteps(p) == ReleaseLoad(p) \/ ReleaseStore(p) \/ ReleasePut(p)
ReadSteps(p) == \/ \E f \in Procs : ReadCall(p, f)
                \/ ReadTest(p) \/ ReadLoad(p) \/ ReadStore(p) \/ ReadReturns(p)

LEMMA CDWhere ==
  ASSUME CDTypes, NEW p \in Procs
  PROVE  /\ OpenTest(p) => Moved(p, "load") /\ cd'[p].reg = 0
         /\ OpenLoad(p) => Moved(p, "store") /\ cd'[p].reg \in {cd[p].reg, Device_Open}
         /\ OpenStore(p) => Moved(p, "message")
         /\ OpenMessage(p) => Moved(p, "get")
         /\ OpenGet(p) => Moved(p, "user")
         /\ ReleaseLoad(p) => Moved(p, "dec") /\ cd'[p].reg = Device_Open
         /\ ReleaseStore(p) => Moved(p, "drop")
         /\ ReleasePut(p) => Moved(p, "user")
<1>0. {"load", "store", "message", "get", "dec", "drop"} \subseteq CDPlaces
      /\ 0 \in Int /\ Device_Open \in Int /\ cd[p].reg \in Int
  BY DEF CDPlaces, CDTypes
<1>1. \A l \in CDPlaces, r \in Int : Goes(p, l, r) => Moved(p, l) /\ cd'[p].reg = r
  BY CDMoves
<1>2. Returns(p) => Moved(p, "user") BY <1>0, CDMoves
<1>3. OpenTest(p) => Moved(p, "load") /\ cd'[p].reg = 0 BY <1>0, <1>1 DEF OpenTest
<1>4. OpenLoad(p) => Moved(p, "store") /\ cd'[p].reg \in {cd[p].reg, Device_Open}
  BY <1>0, <1>1 DEF OpenLoad
<1>5. OpenStore(p) => Moved(p, "message") BY <1>0, <1>1 DEF OpenStore
<1>6. OpenMessage(p) => Moved(p, "get") BY <1>0, <1>1 DEF OpenMessage
<1>7. OpenGet(p) => Moved(p, "user") BY <1>2 DEF OpenGet
<1>8. ReleaseLoad(p) => Moved(p, "dec") /\ cd'[p].reg = Device_Open
  BY <1>0, <1>1 DEF ReleaseLoad
<1>9. ReleaseStore(p) => Moved(p, "drop") BY <1>0, <1>1 DEF ReleaseStore
<1>10. ReleasePut(p) => Moved(p, "user") BY <1>2 DEF ReleasePut
<1> QED BY <1>3, <1>4, <1>5, <1>6, <1>7, <1>8, <1>9, <1>10

(* A reader moves among its own places.                                    *)
LEMMA CDReads ==
  ASSUME CDTypes, NEW p \in Procs
  PROVE  /\ \A f \in Procs : ReadCall(p, f) => Moved(p, "loop")
         /\ ReadTest(p) => Moved(p, "next") /\ cd'[p].reg = msg_Ptr
         /\ ReadLoad(p) => Moved(p, "put") /\ cd'[p].reg \in {cd[p].reg, msg_Ptr}
         /\ ReadStore(p) => Moved(p, "loop")
         /\ ReadReturns(p) => Moved(p, "user")
         /\ ReadSteps(p) =>
              /\ UNCHANGED <<loaded, Device_Open, uses, opened>>
              /\ raced \subseteq raced' /\ raced' \subseteq raced \cup {"read"}
              /\ cd[p].pc \in {"user", "loop", "next", "put"}
              /\ \E l \in {"user", "loop", "next", "put"} : Moved(p, l)
              /\ cd[p].pc = "user" => opened # {}
<1>0. {"loop", "next", "put"} \subseteq CDPlaces
      /\ 0 \in Int /\ msg_Ptr \in Int /\ cd[p].reg \in Int
  BY DEF CDPlaces, CDTypes
<1>1. \A l \in CDPlaces, r \in Int : Goes(p, l, r) => Moved(p, l) /\ cd'[p].reg = r
  BY CDMoves
<1>2. Returns(p) => Moved(p, "user") BY <1>0, CDMoves
<1>3. \A f \in Procs : ReadCall(p, f) => Moved(p, "loop")
  BY <1>0, CDMoves DEF ReadCall
<1>4. ReadTest(p) => Moved(p, "next") /\ cd'[p].reg = msg_Ptr
  BY <1>0, <1>1 DEF ReadTest
<1>5. ReadLoad(p) => Moved(p, "put") /\ cd'[p].reg \in {cd[p].reg, msg_Ptr}
  BY <1>0, <1>1 DEF ReadLoad
<1>6. ReadStore(p) => Moved(p, "loop") BY <1>0, <1>1 DEF ReadStore
<1>7. ReadReturns(p) => Moved(p, "user") BY <1>2 DEF ReadReturns
<1>8. ReadSteps(p) => \E l \in {"user", "loop", "next", "put"} : Moved(p, l)
  BY <1>3, <1>4, <1>5, <1>6, <1>7 DEF ReadSteps
<1>9. ReadSteps(p) =>
        /\ UNCHANGED <<loaded, Device_Open, uses, opened>>
        /\ raced \subseteq raced' /\ raced' \subseteq raced \cup {"read"}
        /\ cd[p].pc \in {"user", "loop", "next", "put"}
        /\ cd[p].pc = "user" => opened # {}
  BY DEF ReadSteps, ReadCall, ReadTest, ReadLoad, ReadStore, ReadReturns, At, Passes
<1> QED BY <1>3, <1>4, <1>5, <1>6, <1>7, <1>8, <1>9

LEMMA CDTypesKept ==
  ASSUME CDInv, NEW p \in Procs, OpenSteps(p) \/ ReleaseSteps(p) \/ ReadSteps(p)
  PROVE  CDTypes' /\ raced \subseteq raced' /\ loaded /\ loaded'
<1>1. CDTypes BY DEF CDInv
<1>2. loaded
  <2>1. cd[p].pc # "user" \/ opened # {} \/ loaded
    BY DEF OpenSteps, ReleaseSteps, ReadSteps, OpenTest, OpenLoad, OpenStore,
           OpenMessage, OpenGet, ReleaseLoad, ReleaseStore, ReleasePut,
           ReadCall, ReadTest, ReadLoad, ReadStore, ReadReturns, At
  <2> QED BY <2>1 DEF CDInv, CDRefs
<1>3. cd' \in [Procs -> [pc : CDPlaces, reg : Int, file : Procs \cup {NoProc}]]
  BY <1>1, CDWhere, CDReads DEF OpenSteps, ReleaseSteps, Moved
<1>4. /\ Device_Open' \in Int /\ uses' \in Int /\ loaded' = loaded /\ opened' \subseteq Procs
      /\ raced \subseteq raced' /\ raced' \subseteq {"open", "read"}
  <2>1. cd[p].reg \in Int /\ Device_Open \in Int /\ uses \in Int /\ opened \subseteq Procs
        /\ raced \subseteq {"open", "read"}
    BY <1>1 DEF CDTypes
  <2>2. CASE OpenSteps(p)
    BY <2>1, <2>2 DEF OpenSteps, OpenTest, OpenLoad, OpenStore, OpenMessage, OpenGet, Passes
  <2>3. CASE ReleaseSteps(p)
    BY <2>1, <2>3 DEF ReleaseSteps, ReleaseLoad, ReleaseStore, ReleasePut
  <2>4. CASE ReadSteps(p) BY <1>1, <2>1, <2>4, CDReads
  <2> QED BY <2>2, <2>3, <2>4
<1>5. msg_Ptr' \in Int
  <2>1. cd[p].reg \in Int /\ msg_Ptr \in Int BY <1>1 DEF CDTypes
  <2> QED BY <2>1 DEF OpenSteps, ReleaseSteps, ReadSteps, OpenTest, OpenLoad, OpenStore,
           OpenMessage, OpenGet, ReleaseLoad, ReleaseStore, ReleasePut,
           ReadCall, ReadTest, ReadLoad, ReadStore, ReadReturns
<1> QED BY <1>1, <1>2, <1>3, <1>4, <1>5 DEF CDTypes

(* The module has a reference for each open file.                          *)
LEMMA CDRefsKept ==
  ASSUME CDInv, NEW p \in Procs, OpenSteps(p) \/ ReleaseSteps(p) \/ ReadSteps(p)
  PROVE  CDRefs'
<1>0. /\ CDTypes /\ CDRefs /\ IsFiniteSet(HeldFiles) /\ loaded'
  BY CDTypesKept, KernelAssumption, FS_Subset DEF CDInv, CDTypes, HeldFiles
<1>1. CASE OpenTest(p) \/ OpenLoad(p) \/ OpenStore(p) \/ OpenMessage(p) \/ ReleaseLoad(p)
  <2>1. PICK l \in {"load", "store", "message", "get", "dec"} : Moved(p, l)
          /\ (l = "dec" <=> ReleaseLoad(p))
    BY <1>0, <1>1, CDWhere DEF OpenTest, OpenLoad, OpenStore, OpenMessage, ReleaseLoad, At
  <2>2. /\ UNCHANGED <<uses, opened>> /\ cd[p].pc # "drop"
        /\ l = "dec" => p \in opened
        /\ l # "dec" => p \notin opened
    BY <1>0, <1>1, <2>1
    DEF CDRefs, OpenTest, OpenLoad, OpenStore, OpenMessage, ReleaseLoad, At
  <2>3. HeldFiles' = HeldFiles BY <2>1, <2>2 DEF HeldFiles, Moved
  <2> QED BY <1>0, <2>1, <2>2, <2>3 DEF CDRefs, Moved
<1>2. CASE OpenGet(p)
  <2>1. /\ Moved(p, "user") /\ cd[p].pc = "get" /\ uses' = uses + 1
        /\ opened' = opened \cup {p} /\ p \notin opened
    BY <1>0, <1>2, CDWhere DEF OpenGet, At, CDRefs
  <2>2. HeldFiles' = HeldFiles \cup {p} /\ p \notin HeldFiles BY <2>1 DEF HeldFiles, Moved
  <2>3. Cardinality(HeldFiles') = Cardinality(HeldFiles) + 1 BY <1>0, <2>2, FS_AddElement
  <2> QED BY <1>0, <2>1, <2>3 DEF CDRefs, Moved
<1>3. CASE ReleaseStore(p)
  <2>1. /\ Moved(p, "drop") /\ cd[p].pc = "dec" /\ uses' = uses
        /\ opened' = opened \ {p} /\ p \in opened
    BY <1>0, <1>3, CDWhere DEF ReleaseStore, At, CDRefs
  <2>2. HeldFiles' = HeldFiles BY <2>1 DEF HeldFiles, Moved
  <2> QED BY <1>0, <2>1, <2>2 DEF CDRefs, Moved
<1>4. CASE ReleasePut(p)
  <2>1. /\ Moved(p, "user") /\ cd[p].pc = "drop" /\ uses' = uses - 1
        /\ opened' = opened /\ p \notin opened
    BY <1>0, <1>4, CDWhere DEF ReleasePut, At, CDRefs
  <2>2. HeldFiles' = HeldFiles \ {p} /\ p \in HeldFiles BY <2>1 DEF HeldFiles, Moved
  <2>3. Cardinality(HeldFiles') = Cardinality(HeldFiles) - 1 BY <1>0, <2>2, FS_RemoveElement
  <2> QED BY <1>0, <2>1, <2>3 DEF CDRefs, Moved
<1>5. CASE ReadSteps(p)
  <2>1. PICK l \in {"user", "loop", "next", "put"} : Moved(p, l)
    BY <1>0, <1>5, CDReads
  <2>2. /\ UNCHANGED <<uses, opened>> /\ cd[p].pc # "drop"
    BY <1>0, <1>5, CDReads
  <2>3. HeldFiles' = HeldFiles BY <2>1, <2>2 DEF HeldFiles, Moved
  <2> QED BY <1>0, <2>1, <2>2, <2>3 DEF CDRefs, Moved
<1> QED BY <1>1, <1>2, <1>3, <1>4, <1>5 DEF OpenSteps, ReleaseSteps

(* Unless a test was raced, one process at most opens the device or has it. *)
LEMMA CDExclusiveKept ==
  ASSUME CDInv, NEW p \in Procs, OpenSteps(p) \/ ReleaseSteps(p) \/ ReadSteps(p),
         "open" \notin raced'
  PROVE  CDExclusive'
<1>0. CDTypes /\ CDRefs /\ CDExclusive BY CDTypesKept DEF CDInv
<1>1. CASE OpenTest(p)
  <2>1. /\ Moved(p, "load") /\ cd'[p].reg = 0 /\ cd[p].pc = "user" /\ Device_Open = 0
        /\ UNCHANGED <<Device_Open, opened>>
    BY <1>0, <1>1, CDWhere DEF OpenTest, At
  <2>2. \A q \in Procs : ~ Has(q) BY <1>0, <2>1 DEF CDExclusive
  <2>3. \A q \in Procs \ {p} : cd[q].pc \notin Opening BY <1>1 DEF OpenTest, Passes
  <2>4. \A q \in Procs : ~ Has(q)' BY <2>1, <2>2 DEF Has, Moved
  <2> QED BY <1>0, <2>1, <2>3, <2>4 DEF CDExclusive, Moved, Opening
<1>2. CASE OpenLoad(p)
  <2>1. /\ Moved(p, "store") /\ cd'[p].reg \in {cd[p].reg, Device_Open}
        /\ cd[p].pc = "load" /\ UNCHANGED <<Device_Open, opened>>
    BY <1>0, <1>2, CDWhere DEF OpenLoad, At
  <2>2. cd[p].reg = 0 /\ Device_Open = 0 /\ \A q \in Procs : ~ Has(q)
    BY <1>0, <2>1 DEF CDExclusive, Opening
  <2>3. \A q \in Procs : ~ Has(q)' BY <2>1, <2>2 DEF Has, Moved
  <2> QED BY <1>0, <2>1, <2>2, <2>3 DEF CDExclusive, Moved, Opening
<1>3. CASE OpenStore(p)
  <2>1. /\ Moved(p, "message") /\ cd[p].pc = "store" /\ Device_Open' = cd[p].reg + 1
        /\ UNCHANGED opened
    BY <1>0, <1>3, CDWhere DEF OpenStore, At
  <2>2. cd[p].reg = 0 /\ \A q \in Procs : ~ Has(q)
    BY <1>0, <2>1 DEF CDExclusive, Opening
  <2>3. Has(p)' /\ \A q \in Procs \ {p} : ~ Has(q)' BY <2>1, <2>2 DEF Has, Moved
  <2>4. \A q \in Procs : cd'[q].pc \notin Opening
    BY <1>0, <2>1 DEF CDExclusive, Moved, Opening
  <2> QED BY <1>0, <2>1, <2>2, <2>3, <2>4 DEF CDExclusive, Moved
<1>4. CASE OpenMessage(p) \/ OpenGet(p)
  <2>1. PICK l \in {"get", "user"} : Moved(p, l) /\ Has(p) /\ Has(p)'
          /\ UNCHANGED Device_Open /\ \A q \in Procs \ {p} : q \in opened' <=> q \in opened
    BY <1>0, <1>4, CDWhere DEF OpenMessage, OpenGet, At, Has, Moved
  <2>2. \A q \in Procs : Has(q)' <=> Has(q) BY <2>1 DEF Has, Moved
  <2> QED BY <1>0, <2>1, <2>2 DEF CDExclusive, Moved, Opening
<1>5. CASE ReleaseLoad(p)
  <2>1. /\ Moved(p, "dec") /\ cd'[p].reg = Device_Open /\ p \in opened
        /\ cd[p].pc = "user" /\ UNCHANGED <<Device_Open, opened>>
    BY <1>0, <1>5, CDWhere DEF ReleaseLoad, At
  <2>2. Device_Open = 1 BY <1>0, <2>1 DEF CDExclusive, Has
  <2>3. \A q \in Procs : Has(q)' <=> Has(q) BY <2>1 DEF Has, Moved
  <2> QED BY <1>0, <2>1, <2>2, <2>3 DEF CDExclusive, Moved, Opening
<1>6. CASE ReleaseStore(p)
  <2>1. /\ Moved(p, "drop") /\ cd[p].pc = "dec" /\ Device_Open' = cd[p].reg - 1
        /\ opened' = opened \ {p} /\ p \in opened
    BY <1>0, <1>6, CDWhere DEF ReleaseStore, At, CDRefs
  <2>2. Has(p) /\ cd[p].reg = 1 BY <1>0, <2>1 DEF CDExclusive, Has
  <2>3. \A q \in Procs : cd[q].pc \notin Opening BY <1>0, <2>2 DEF CDExclusive
  <2>4. \A q \in Procs \ {p} : ~ Has(q) BY <1>0, <2>2 DEF CDExclusive
  <2>5. \A q \in Procs : ~ Has(q)' BY <2>1, <2>4 DEF Has, Moved
  <2>6. \A q \in Procs : cd'[q].pc \notin Opening BY <2>1, <2>3 DEF Moved, Opening
  <2> QED BY <1>0, <2>1, <2>2, <2>5, <2>6 DEF CDExclusive, Moved
<1>7. CASE ReleasePut(p)
  <2>1. /\ Moved(p, "user") /\ cd[p].pc = "drop" /\ UNCHANGED <<Device_Open, opened>>
    BY <1>0, <1>7, CDWhere DEF ReleasePut, At
  <2>2. \A q \in Procs : Has(q)' <=> Has(q) BY <2>1 DEF Has, Moved
  <2> QED BY <1>0, <2>1, <2>2 DEF CDExclusive, Moved, Opening
<1>8. CASE ReadSteps(p)
  <2>1. PICK l \in {"user", "loop", "next", "put"} : Moved(p, l)
    BY <1>0, <1>8, CDReads
  <2>2. /\ UNCHANGED <<Device_Open, opened>>
        /\ cd[p].pc \in {"user", "loop", "next", "put"}
    BY <1>0, <1>8, CDReads
  <2>3. \A q \in Procs : Has(q)' <=> Has(q) BY <2>1, <2>2 DEF Has, Moved
  <2> QED BY <1>0, <2>1, <2>2, <2>3 DEF CDExclusive, Moved, Opening
<1> QED BY <1>1, <1>2, <1>3, <1>4, <1>5, <1>6, <1>7, <1>8 DEF OpenSteps, ReleaseSteps

(* Unless a test was raced, one reader at most moves the cursor.           *)
LEMMA CDCursorKept ==
  ASSUME CDInv, NEW p \in Procs, OpenSteps(p) \/ ReleaseSteps(p) \/ ReadSteps(p),
         "read" \notin raced'
  PROVE  CDCursor'
<1>0. CDTypes /\ CDCursor BY CDTypesKept DEF CDInv
<1>1. CASE OpenSteps(p) \/ ReleaseSteps(p)
  <2>1. PICK l \in CDPlaces \ Moving : Moved(p, l)
    BY <1>0, <1>1, CDWhere DEF OpenSteps, ReleaseSteps, Moving, CDPlaces
  <2>2. msg_Ptr' \in {0, msg_Ptr}
    BY <1>1 DEF OpenSteps, ReleaseSteps, OpenTest, OpenLoad, OpenStore, OpenMessage,
                OpenGet, ReleaseLoad, ReleaseStore, ReleasePut
  <2> QED BY <1>0, <2>1, <2>2, ChardevAssumption DEF CDCursor, CDTypes, Moved, Moving
<1>2. CASE ReadTest(p)
  <2>1. /\ Moved(p, "next") /\ cd'[p].reg = msg_Ptr /\ msg_Ptr < LENGTH
        /\ UNCHANGED msg_Ptr
    BY <1>0, <1>2, CDReads, ChardevAssumption DEF ReadTest, Terminator, CDTypes
  <2>2. \A q \in Procs \ {p} : cd[q].pc \notin Moving BY <1>2 DEF ReadTest, Passes
  <2> QED BY <1>0, <2>1, <2>2 DEF CDCursor, Moved
<1>3. CASE ReadLoad(p)
  <2>1. /\ Moved(p, "put") /\ cd'[p].reg \in {cd[p].reg, msg_Ptr} /\ cd[p].pc = "next"
        /\ UNCHANGED msg_Ptr
    BY <1>0, <1>3, CDReads DEF ReadLoad, At
  <2>2. cd[p].reg < LENGTH /\ msg_Ptr < LENGTH BY <1>0, <2>1 DEF CDCursor, Moving
  <2> QED BY <1>0, <2>1, <2>2 DEF CDCursor, Moved, Moving
<1>4. CASE ReadStore(p)
  <2>1. /\ Moved(p, "loop") /\ cd[p].pc = "put" /\ msg_Ptr' = cd[p].reg + 1
    BY <1>0, <1>4, CDReads DEF ReadStore, At
  <2>2. cd[p].reg < LENGTH /\ \A q \in Procs \ {p} : cd[q].pc \notin Moving
    BY <1>0, <2>1 DEF CDCursor, Moving
  <2>3. msg_Ptr' <= LENGTH BY <1>0, <2>1, <2>2, ChardevAssumption DEF CDTypes
  <2>4. \A q \in Procs : cd'[q].pc \notin Moving BY <2>1, <2>2 DEF Moved, Moving
  <2> QED BY <2>3, <2>4 DEF CDCursor, Moving
<1>5. CASE (\E f \in Procs : ReadCall(p, f)) \/ ReadReturns(p)
  <2>1. PICK l \in {"loop", "user"} : Moved(p, l)
    BY <1>0, <1>5, CDReads
  <2>2. UNCHANGED msg_Ptr BY <1>5 DEF ReadCall, ReadReturns
  <2> QED BY <1>0, <2>1, <2>2 DEF CDCursor, Moved, Moving
<1> QED BY <1>1, <1>2, <1>3, <1>4, <1>5 DEF ReadSteps

LEMMA CDModule ==
  ASSUME CDInv, Load \/ Unload
  PROVE  CDInv'
<1>0. IsFiniteSet(HeldFiles) BY KernelAssumption, FS_Subset DEF CDInv, CDTypes, HeldFiles
<1>1. opened = {} /\ HeldFiles = {} /\ \A p \in Procs : cd[p].pc = "user"
  <2>1. \A p \in Procs : cd[p].pc = "user" BY DEF CDInv, CDRefs, Load, Unload, At
  <2>2. CASE Load BY <2>1, <2>2 DEF Load, CDInv, CDRefs, HeldFiles
  <2>3. CASE Unload
    <3>1. Cardinality(HeldFiles) = 0 BY <2>3 DEF Unload, CDInv, CDRefs
    <3> QED BY <1>0, <2>1, <3>1, FS_EmptySet DEF HeldFiles
  <2> QED BY <2>1, <2>2, <2>3
<1>2. UNCHANGED <<cd, opened>> BY DEF Load, Unload
<1>3. HeldFiles' = {} /\ opened' = {} /\ \A p \in Procs : cd'[p].pc = "user"
  BY <1>1, <1>2 DEF HeldFiles
<1>4. CDTypes'
  <2>1. Device_Open' \in Int /\ msg_Ptr' \in Int /\ uses' \in Int
    BY DEF CDInv, CDTypes, Load, Unload
  <2>2. loaded' \in BOOLEAN BY DEF Load, Unload
  <2>3. raced' \subseteq {"open", "read"} BY DEF CDInv, CDTypes, Load, Unload
  <2> QED BY <1>2, <2>1, <2>2, <2>3 DEF CDInv, CDTypes
<1>5. CDRefs'
  <2>1. uses' = 0 BY DEF Load, Unload
  <2> QED BY <1>3, <2>1, FS_EmptySet DEF CDRefs
<1>6. CDExclusive' \/ "open" \in raced'
  <2>1. \A p \in Procs : ~ Has(p) /\ ~ Has(p)' BY <1>1, <1>3 DEF Has
  <2>2. Device_Open' = 0 \/ "open" \in raced'
    BY <2>1 DEF Load, Unload, CDInv, CDExclusive
  <2> QED BY <1>3, <2>1, <2>2 DEF CDExclusive, Opening
<1>7. CDCursor' \/ "read" \in raced'
  <2>1. msg_Ptr' <= LENGTH \/ "read" \in raced'
    BY ChardevAssumption DEF Load, Unload, CDInv, CDCursor
  <2> QED BY <1>3, <2>1 DEF CDCursor, Moving
<1> QED BY <1>4, <1>5, <1>6, <1>7 DEF CDInv

LEMMA CDStep == CDInv /\ [CDNext]_cdVars => CDInv'
<1> SUFFICES ASSUME CDInv, [CDNext]_cdVars PROVE CDInv' OBVIOUS
<1>1. CASE UNCHANGED cdVars
  BY <1>1 DEF cdVars, CDInv, CDTypes, CDRefs, HeldFiles, CDExclusive, Has, CDCursor
<1>2. ASSUME NEW p \in Procs, OpenSteps(p) \/ ReleaseSteps(p) \/ ReadSteps(p)
      PROVE  CDInv'
  BY <1>2, CDTypesKept, CDRefsKept, CDExclusiveKept, CDCursorKept DEF CDInv
<1> QED BY <1>1, <1>2, CDModule DEF CDNext, OpenSteps, ReleaseSteps, ReadSteps

(* However the calls interleave, only a test of Device_Open that is passed *)
(* while another process is between its own test and its increment lets    *)
(* the device be opened twice or makes Device_Open differ from the number  *)
(* of open files: no release, read or rmmod does (chardev.c:90-93, 106).   *)
THEOREM DeviceOpenOnce == CDSpec => []OpensExclusive
<1>1. CDInv => OpensExclusive
  <2> SUFFICES ASSUME CDInv, "open" \notin raced PROVE OpenOnce /\ OpenCounted
    BY DEF OpensExclusive
  <2>1. CDExclusive /\ opened \subseteq Procs BY DEF CDInv, CDTypes
  <2>2. \A p, q \in opened : p = q BY <2>1 DEF CDExclusive, Has
  <2>3. Cardinality(opened) = (IF opened # {} THEN 1 ELSE 0)
    <3>1. CASE opened = {} BY <3>1, FS_EmptySet
    <3>2. CASE opened # {}
      <4>1. PICK p \in opened : TRUE BY <3>2
      <4>2. opened = {p} BY <2>2, <4>1
      <4> QED BY <3>2, <4>2, FS_Singleton
    <3> QED BY <3>1, <3>2
  <2>4. OpenOnce BY <2>3 DEF OpenOnce
  <2>5. ASSUME Settled PROVE Device_Open = Cardinality(opened) /\ uses = Cardinality(opened)
    <3>1. HeldFiles = opened BY <2>5 DEF Settled, HeldFiles, Moving
    <3>2. (\E p \in Procs : Has(p)) <=> opened # {}
      BY <2>1, <2>5 DEF Settled, Has, Moving
    <3> QED BY <2>1, <2>3, <3>1, <3>2 DEF CDExclusive, CDInv, CDRefs
  <2> QED BY <2>4, <2>5 DEF OpenCounted
<1> QED BY <1>1, CDStarts, CDStep, PTL DEF CDSpec

(* However readers that share the file, opens and releases interleave,     *)
(* only a test passed while another reader is between its own test and its *)
(* increment lets msg_Ptr leave the message (chardev.c:141-149).           *)
THEOREM CursorStaysInside == CDSpec => []CursorInside
<1>1. CDInv => CursorInside BY DEF CDInv, CDCursor, CursorInside
<1> QED BY <1>1, CDStarts, CDStep, PTL DEF CDSpec

-----------------------------------------------------------------------------
(***************************************************************************)
(* The circular buffer is the queue cbuffer.h promises, to any sequential  *)
(* client that does not mix the operations of one byte with those of       *)
(* several: only the latter leave head at max_size.                        *)
(***************************************************************************)
Unmixed == \A a \in Apis : ~ {"items", "single"} \subseteq a

BufInv ==
  /\ cb \in cbuffer_t(Byte, max_size) /\ api \in Apis
  /\ "single" \in api => cb.head < max_size

(* Putting items in, one or several, is the queue's Put. *)
LEMMA PutStep ==
  ASSUME NEW b \in cbuffer_t(Byte, max_size), NEW items \in Seq(Byte)
  PROVE  Contents(insert_items_cbuffer_t(b, items))
           = IF Len(items) <= max_size
             THEN Abstract!Newest(Contents(b) \o items) ELSE Contents(b)
<1> DEFINE c == Contents(b)
           u == c \o items
<1>1. max_size \in Nat \ {0} /\ Len(items) \in Nat
  BY SizeAssumption, LenProperties
<1>2. /\ c \in Seq(Byte) /\ Len(c) = b.size /\ b.size \in 0 .. max_size
      /\ b.max_size = max_size
  BY <1>1, ContentsIs, Fields
<1> HIDE DEF c
<1>3. Len(u) = Len(c) + Len(items)
  BY <1>2, ConcatProperties
<1>4. CASE ~ (Len(items) <= max_size)
  <2>1. insert_items_cbuffer_t(b, items) = b
    BY <1>1, <1>2, <1>4 DEF insert_items_cbuffer_t
  <2> QED BY <1>4, <2>1
<1>5. CASE Len(items) <= max_size - b.size
  <2>1. Contents(insert_items_cbuffer_t(b, items)) = u
    BY <1>1, <1>5, InsertItemsAppends DEF c
  <2>2. Len(u) <= max_size /\ Len(items) <= max_size
    BY <1>1, <1>2, <1>3, <1>5
  <2> QED BY <2>1, <2>2 DEF Abstract!Newest, c
<1>6. CASE Len(items) <= max_size /\ Len(items) > max_size - b.size
  <2>1. Contents(insert_items_cbuffer_t(b, items))
          = SubSeq(u, Len(items) - (max_size - b.size) + 1, Len(u))
    BY <1>1, <1>6, InsertItemsOverwrites DEF c
  <2>2. /\ ~ (Len(u) <= max_size)
        /\ Len(items) - (max_size - b.size) + 1 = Len(u) - max_size + 1
    BY <1>1, <1>2, <1>3, <1>6
  <2> HIDE DEF u
  <2>3. Abstract!Newest(u) = SubSeq(u, Len(u) - max_size + 1, Len(u))
    BY <2>2 DEF Abstract!Newest
  <2> QED BY <1>6, <2>1, <2>2, <2>3 DEF u, c
<1> QED
  BY <1>1, <1>2, <1>4, <1>5, <1>6

(* Operations of several bytes. *)
LEMMA ItemsStep ==
  ASSUME BufInv, insert_items \/ remove_items
  PROVE  Abstract!Next /\ cb' \in cbuffer_t(Byte, max_size)
<1>1. max_size \in Nat \ {0} /\ cb \in cbuffer_t(Byte, max_size)
  BY SizeAssumption DEF BufInv
<1>2. CASE insert_items
  <2>1. PICK n \in 0 .. max_size + 1 : \E items \in [1 .. n -> Byte] :
          /\ req' = Request("insert_items", items, 0)
          /\ cb' = insert_items_cbuffer_t(cb, items)
    BY <1>2 DEF insert_items
  <2>2. PICK items \in [1 .. n -> Byte] :
          /\ req' = Request("insert_items", items, 0)
          /\ cb' = insert_items_cbuffer_t(cb, items)
    BY <2>1
  <2>3. items \in Seq(Byte)
    BY <1>1, <2>1
  <2>4. Contents(cb)' = IF Len(items) <= max_size
          THEN Abstract!Newest(Contents(cb) \o items) ELSE Contents(cb)
    <3>1. Contents(cb') = IF Len(items) <= max_size
            THEN Abstract!Newest(Contents(cb) \o items) ELSE Contents(cb)
      BY <1>1, <2>2, <2>3, PutStep
    <3> QED BY <3>1 DEF Contents
  <2>5. Abstract!Put("insert_items", items)
    BY <1>2, <2>2, <2>4 DEF insert_items, Request, Abstract!Put,
       Abstract!Request
  <2>6. Abstract!Next
    BY <2>1, <2>2, <2>5 DEF Abstract!Next
  <2>7. insert_items_cbuffer_t(cb, items) \in cbuffer_t(Byte, max_size)
    BY <1>1, <2>3, InsertItemsType
  <2> QED BY <2>2, <2>6, <2>7
<1>3. CASE remove_items
  <2>1. PICK n \in 0 .. max_size + 1 :
          /\ req' = Request("remove_items", << >>, n)
          /\ cb' = remove_items_cbuffer_t(cb, n)
          /\ out' = removed_items(cb, n)
    BY <1>3 DEF remove_items
  <2>2. n \in Nat /\ cb.size \in Nat /\ Len(Contents(cb)) = cb.size
    BY <1>1, Fields, ContentsIs
  <2>3. ASSUME n <= cb.size
        PROVE  Abstract!Take("remove_items", n, << >>)
    <3>1. /\ Contents(cb') = SubSeq(Contents(cb), n + 1, Len(Contents(cb)))
          /\ out' = SubSeq(Contents(cb), 1, n)
      BY <1>1, <2>1, <2>2, <2>3, RemoveItemsDrops
    <3>2. Contents(cb)' = SubSeq(Contents(cb), n + 1, Len(Contents(cb)))
      BY <3>1 DEF Contents
    <3> QED
      BY <2>1, <2>2, <2>3, <3>1, <3>2 DEF Request, Abstract!Take,
         Abstract!Request
  <2>4. ASSUME ~ (n <= cb.size)
        PROVE  Abstract!Take("remove_items", n, << >>)
    <3>1. n > cb.size
      BY <2>2, <2>4
    <3>2. cb' = cb /\ out' = << >>
      BY <2>1, <3>1 DEF remove_items_cbuffer_t, removed_items
    <3>3. UNCHANGED Contents(cb)
      BY <3>2 DEF Contents
    <3> QED
      BY <2>1, <2>2, <2>4, <3>2, <3>3 DEF Request, Abstract!Take,
         Abstract!Request
  <2>5. Abstract!Take("remove_items", n, << >>)
    BY <2>3, <2>4
  <2>6. Abstract!Next
    BY <2>1, <2>5 DEF Abstract!Next
  <2>7. remove_items_cbuffer_t(cb, n) \in cbuffer_t(Byte, max_size)
    BY <1>1, <2>2, RemoveItemsType
  <2> QED BY <2>1, <2>6, <2>7
<1> QED
  BY <1>2, <1>3

(* Operations of one byte. *)
LEMMA SingleStep ==
  ASSUME BufInv, insert \/ remove \/ head
  PROVE  /\ Abstract!Next /\ cb' \in cbuffer_t(Byte, max_size)
         /\ cb'.head < max_size
<1> DEFINE c == Contents(cb)
<1>1. /\ max_size \in Nat \ {0} /\ cb \in cbuffer_t(Byte, max_size)
      /\ cb.head < max_size
  BY SizeAssumption DEF BufInv, insert, remove, head
<1>2. cb.size \in Nat /\ c \in Seq(Byte) /\ Len(c) = cb.size
  BY <1>1, ContentsIs, Fields
<1>3. CASE insert
  <2>1. PICK x \in Byte : /\ req' = Request("insert", <<x>>, 0)
                          /\ cb' = insert_cbuffer_t(cb, x)
    BY <1>3 DEF insert
  <2>2. cb' = insert_items_cbuffer_t(cb, <<x>>) /\ cb'.head < max_size
    BY <1>1, <2>1, InsertIsInsertItems
  <2>3. <<x>> \in Seq(Byte)
    OBVIOUS
  <2>4. c' = IF Len(<<x>>) <= max_size THEN Abstract!Newest(c \o <<x>>) ELSE c
    <3>1. Contents(cb') = IF Len(<<x>>) <= max_size
            THEN Abstract!Newest(Contents(cb) \o <<x>>) ELSE Contents(cb)
      BY <1>1, <2>2, <2>3, PutStep
    <3> QED BY <3>1 DEF Contents
  <2>5. Abstract!Put("insert", <<x>>)
    BY <1>3, <2>1, <2>4 DEF insert, Request, Abstract!Put, Abstract!Request
  <2>6. Abstract!Next
    BY <2>5 DEF Abstract!Next
  <2>7. insert_items_cbuffer_t(cb, <<x>>) \in cbuffer_t(Byte, max_size)
    BY <1>1, <2>3, InsertItemsType
  <2> QED BY <2>2, <2>6, <2>7
<1>4. CASE remove
  <2>1. /\ req' = Request("remove", << >>, 1)
        /\ cb' = remove_cbuffer_t(cb)
        /\ \E x \in (IF cb.size # 0 THEN byte_at_head(cb, Byte) ELSE {NUL}) :
             out' = <<x>>
    BY <1>4 DEF remove
  <2>2. CASE cb.size # 0
    <3>1. /\ cb' \in cbuffer_t(Byte, max_size) /\ cb'.head < max_size
          /\ Contents(cb') = Contents(remove_items_cbuffer_t(cb, 1))
          /\ byte_at_head(cb, Byte) = {c[1]}
          /\ removed_items(cb, 1) = <<c[1]>>
      BY <1>1, <2>1, <2>2, RemoveIsRemoveItems
    <3>2. 1 <= cb.size /\ 1 \in Nat
      BY <1>2, <2>2
    <3>3. /\ Contents(cb') = SubSeq(c, 1 + 1, Len(c))
          /\ out' = SubSeq(c, 1, 1)
      <4>1. out' = <<c[1]>>
        BY <2>1, <2>2, <3>1
      <4>2. /\ Contents(remove_items_cbuffer_t(cb, 1)) = SubSeq(c, 1 + 1, cb.size)
            /\ removed_items(cb, 1) = SubSeq(c, 1, 1)
        BY <1>1, <3>2, RemoveItemsDrops
      <4> QED BY <1>2, <3>1, <4>1, <4>2
    <3>4. c' = SubSeq(c, 1 + 1, Len(c))
      BY <3>3 DEF Contents
    <3>5. 1 <= Len(c)
      BY <1>2, <3>2
    <3>6. Abstract!Take("remove", 1, <<NUL>>)
      <4> HIDE DEF c
      <4>1. /\ req' = Abstract!Request("remove", << >>, 1)
            /\ 1 <= Len(c) /\ c' = SubSeq(c, 1 + 1, Len(c))
            /\ out' = SubSeq(c, 1, 1)
        BY <2>1, <3>3, <3>4, <3>5 DEF Request, Abstract!Request
      <4> QED BY <4>1 DEF Abstract!Take, c
    <3> QED BY <3>1, <3>6 DEF Abstract!Next
  <2>3. CASE cb.size = 0
    <3>1. cb' = cb /\ out' = <<NUL>>
      BY <2>1, <2>3 DEF remove_cbuffer_t
    <3>2. UNCHANGED c /\ ~ (1 <= Len(c))
      BY <1>2, <2>3, <3>1 DEF Contents
    <3>3. Abstract!Take("remove", 1, <<NUL>>)
      BY <2>1, <3>1, <3>2 DEF Request, Abstract!Take, Abstract!Request
    <3> QED BY <1>1, <3>1, <3>3 DEF Abstract!Next
  <2> QED BY <2>2, <2>3
<1>5. CASE head
  <2>1. /\ req' = Request("head", << >>, 0) /\ cb' = cb
        /\ IF cb.size # 0
           THEN \E x \in byte_at_head(cb, Byte) : out' = <<x>>
           ELSE out' = << >>
    BY <1>5 DEF head
  <2>2. out' = IF c = << >> THEN << >> ELSE <<c[1]>>
    <3>1. CASE cb.size # 0
      <4>1. byte_at_head(cb, Byte) = {c[1]}
        BY <1>1, <3>1, RemoveIsRemoveItems
      <4>2. c # << >>
        BY <1>2, <3>1
      <4> QED BY <2>1, <3>1, <4>1, <4>2
    <3>2. CASE cb.size = 0
      <4>1. c = << >>
        BY <3>2 DEF Contents
      <4> QED BY <2>1, <3>2, <4>1
    <3> QED BY <3>1, <3>2
  <2>3. UNCHANGED c
    BY <2>1 DEF Contents
  <2>4. Abstract!Peek
    BY <2>1, <2>2, <2>3 DEF Request, Abstract!Peek, Abstract!Request
  <2> QED BY <1>1, <2>1, <2>4 DEF Abstract!Next
<1> QED
  BY <1>3, <1>4, <1>5

LEMMA OpsStarts == OpsInit => BufInv /\ Abstract!Init
<1> SUFFICES ASSUME OpsInit PROVE BufInv /\ Abstract!Init
  OBVIOUS
<1>1. /\ cb \in cbuffer_t(Byte, max_size) /\ cb.head < max_size /\ cb.size = 0
  BY SizeAssumption DEF OpsInit, create_cbuffer_t, cbuffer_t
<1>2. Contents(cb) = << >>
  BY <1>1 DEF Contents
<1> QED
  BY <1>1, <1>2 DEF OpsInit, BufInv, Request, Abstract!Init, Abstract!Request

LEMMA OpsStep ==
  ASSUME Unmixed
  PROVE  BufInv /\ [OpsNext]_opsVars
           => BufInv' /\ [Abstract!Next]_Abstract!vars
<1> SUFFICES ASSUME BufInv, [OpsNext]_opsVars
             PROVE  BufInv' /\ [Abstract!Next]_Abstract!vars
  OBVIOUS
<1>1. CASE UNCHANGED opsVars
  BY <1>1 DEF opsVars, BufInv, Contents, Abstract!vars
<1>2. CASE OpsNext
  <2>1. CASE insert_items \/ remove_items
    <3>1. "single" \notin api
      BY <2>1 DEF BufInv, Unmixed, insert_items, remove_items
    <3> QED BY <1>2, <2>1, <3>1, ItemsStep DEF OpsNext, BufInv
  <2>2. CASE insert \/ remove \/ head
    BY <1>2, <2>2, SingleStep DEF OpsNext, BufInv
  <2> QED BY <1>2, <2>1, <2>2 DEF OpsNext
<1> QED
  BY <1>1, <1>2

(* Every operation of cbuffer.c does to the bytes of the buffer what the   *)
(* bounded queue does, for every capacity and every set of bytes, through  *)
(* every wrap and overwrite.                                               *)
THEOREM CBufferIsAQueue ==
  ASSUME Unmixed
  PROVE  OpsSpec => ImplementsQueue
<1>1. BufInv /\ [OpsNext]_opsVars
        => BufInv' /\ [Abstract!Next]_Abstract!vars
  BY OpsStep
<1> QED
  BY <1>1, OpsStarts, PTL DEF OpsSpec, ImplementsQueue, Abstract!Spec
================================================================================
