--------------------------- MODULE ProdConsProofs ---------------------------
(***************************************************************************)
(* Proofs about both versions of /proc/prodcons, for any set of processes, *)
(* any capacity, any set of integers and any pattern of signals: memory    *)
(* and waiters are accounted for, the semaphores of the first version      *)
(* match its buffer, and both implement a bounded queue of items.          *)
(***************************************************************************)
EXTENDS MCProdCons, CountingProofs

-----------------------------------------------------------------------------
(* The buffer of pointers *)

(* What create_cbuffer_t and the operations on the buffer can leave. *)
Buffers ==
  [data : [0 .. MAX_ITEMS_CBUF - 1 -> Item], head : 0 .. MAX_ITEMS_CBUF - 1,
   size : 0 .. MAX_ITEMS_CBUF, max_size : {MAX_ITEMS_CBUF}]

LEMMA ModSmall ==
  ASSUME NEW a \in Nat, NEW m \in Nat \ {0}
  PROVE  /\ a < m => a % m = a
         /\ m <= a /\ a < 2 * m => a % m = a - m
OBVIOUS

LEMMA BufferFields ==
  ASSUME NEW cb \in Buffers
  PROVE  /\ cb.data \in [0 .. MAX_ITEMS_CBUF - 1 -> Item]
         /\ cb.head \in 0 .. MAX_ITEMS_CBUF - 1
         /\ cb.size \in 0 .. MAX_ITEMS_CBUF /\ cb.max_size = MAX_ITEMS_CBUF
         /\ cb = [data |-> cb.data, head |-> cb.head, size |-> cb.size,
                  max_size |-> cb.max_size]
BY DEF Buffers

(* A position counted from head is inside data, and different counts below *)
(* the capacity give different positions.                                  *)
LEMMA Positions ==
  ASSUME NEW cb \in Buffers, NEW i \in 0 .. MAX_ITEMS_CBUF,
         NEW j \in 0 .. MAX_ITEMS_CBUF
  PROVE  /\ (cb.head + i) % MAX_ITEMS_CBUF \in 0 .. MAX_ITEMS_CBUF - 1
         /\ i # j /\ i < MAX_ITEMS_CBUF /\ j < MAX_ITEMS_CBUF =>
              (cb.head + i) % MAX_ITEMS_CBUF # (cb.head + j) % MAX_ITEMS_CBUF
<1> DEFINE m == MAX_ITEMS_CBUF
           a == cb.head + i
           b == cb.head + j
<1>1. m \in Nat \ {0} BY ProdConsAssumption
<1>2. a \in Nat /\ b \in Nat /\ a < 2 * m /\ b < 2 * m /\ a - b = i - j
  BY <1>1, BufferFields
<1> HIDE DEF m, a, b
<1>3. a % m = (IF a < m THEN a ELSE a - m) /\ b % m = (IF b < m THEN b ELSE b - m)
  <2>1. ASSUME NEW c \in Nat, c < 2 * m
        PROVE  c % m = IF c < m THEN c ELSE c - m
    <3>1. c < m \/ m <= c BY <1>1
    <3> QED BY <1>1, <2>1, <3>1, ModSmall
  <2> QED BY <1>2, <2>1
<1>4. i \in Int /\ j \in Int OBVIOUS
<1>5. a % m \in 0 .. m - 1
  BY <1>1, <1>2, <1>3
<1>6. i # j /\ i < m /\ j < m => a % m # b % m
  <2>1. i \in 0 .. m /\ j \in 0 .. m BY DEF m
  <2> QED BY <1>1, <1>2, <1>3, <2>1
<1> QED BY <1>5, <1>6 DEF a, b, m

LEMMA ContentsType ==
  ASSUME NEW cb \in Buffers
  PROVE  PtrContents(cb) \in Seq(Item) /\ Len(PtrContents(cb)) = cb.size
<1>1. ASSUME NEW i \in 1 .. cb.size
      PROVE  cb.data[(cb.head + i - 1) % cb.max_size] \in Item
  <2>1. i - 1 \in 0 .. MAX_ITEMS_CBUF /\ cb.head + i - 1 = cb.head + (i - 1)
    BY BufferFields, ProdConsAssumption
  <2> QED BY <2>1, Positions, BufferFields
<1>2. PtrContents(cb) \in [1 .. cb.size -> Item]
  BY <1>1 DEF PtrContents
<1>3. cb.size \in Nat
  BY BufferFields, ProdConsAssumption
<1> QED BY <1>2, <1>3, FunctionIsSeq

(* create_cbuffer_t *)
LEMMA CreateEmpty ==
  ASSUME NEW cb \in ptr_create(Item, MAX_ITEMS_CBUF)
  PROVE  cb \in Buffers /\ cb.size = 0 /\ PtrContents(cb) = << >>
<1>1. cb \in Buffers /\ cb.size = 0
  BY ProdConsAssumption DEF ptr_create, Buffers
<1>2. PtrContents(cb) \in Seq(Item) /\ Len(PtrContents(cb)) = 0
  BY <1>1, ContentsType
<1> QED BY <1>1, <1>2, EmptySeq

(* insert_cbuffer_t with room appends; it never reaches a stored item. *)
LEMMA InsertAppends ==
  ASSUME NEW cb \in Buffers, NEW x \in Item, cb.size < MAX_ITEMS_CBUF
  PROVE  /\ ptr_insert(cb, x) \in Buffers
         /\ ptr_insert(cb, x).size = cb.size + 1
         /\ PtrContents(ptr_insert(cb, x)) = Append(PtrContents(cb), x)
<1> DEFINE m  == MAX_ITEMS_CBUF
           at == (cb.head + cb.size) % m
           c2 == ptr_insert(cb, x)
<1>1. m \in Nat \ {0} BY ProdConsAssumption
<1>2. /\ cb.data \in [0 .. m - 1 -> Item] /\ cb.head \in 0 .. m - 1
      /\ cb.size \in 0 .. m /\ cb.max_size = m
  BY BufferFields
<1>3. at \in 0 .. m - 1 BY <1>1, <1>2, Positions
<1>4. c2 = [cb EXCEPT !.data[at] = x, !.size = @ + 1]
  BY <1>1, <1>2 DEF ptr_insert
<1>5. /\ c2.data = [cb.data EXCEPT ![at] = x] /\ c2.head = cb.head
      /\ c2.size = cb.size + 1 /\ c2.max_size = m /\ c2 \in Buffers
  <2> HIDE DEF at, c2
  <2>1. /\ c2.data = [cb.data EXCEPT ![at] = x] /\ c2.head = cb.head
        /\ c2.size = cb.size + 1 /\ c2.max_size = m
    BY <1>2, <1>4, BufferFields
  <2>2. [cb.data EXCEPT ![at] = x] \in [0 .. m - 1 -> Item]
    BY <1>2, <1>3
  <2>3. cb.size + 1 \in 0 .. m
    BY <1>1, <1>2
  <2> QED BY <1>2, <1>4, <2>1, <2>2, <2>3 DEF Buffers
<1>6. /\ PtrContents(cb) \in Seq(Item) /\ Len(PtrContents(cb)) = cb.size
      /\ PtrContents(c2) \in Seq(Item) /\ Len(PtrContents(c2)) = cb.size + 1
  BY <1>5, ContentsType
<1>7. /\ Append(PtrContents(cb), x) \in Seq(Item)
      /\ Len(Append(PtrContents(cb), x)) = cb.size + 1
  BY <1>6, AppendProperties
<1>8. ASSUME NEW i \in 1 .. cb.size + 1
      PROVE  PtrContents(c2)[i] = Append(PtrContents(cb), x)[i]
  <2> DEFINE pos == (cb.head + (i - 1)) % m
  <2>1. i - 1 \in 0 .. m /\ cb.head + i - 1 = cb.head + (i - 1)
    BY <1>1, <1>2
  <2>2. pos \in 0 .. m - 1 /\ (i - 1 # cb.size => pos # at)
    <3>1. i - 1 < m /\ cb.size < m BY <1>1, <1>2
    <3> QED BY <1>2, <2>1, <3>1, Positions
  <2>3. PtrContents(c2)[i] = c2.data[pos]
    BY <1>5, <2>1 DEF PtrContents
  <2>4. CASE i = cb.size + 1
    <3>1. pos = at BY <1>2, <2>4
    <3>2. c2.data[pos] = x BY <1>2, <1>3, <1>5, <3>1
    <3>3. Append(PtrContents(cb), x)[i] = x BY <1>6, <2>4, AppendProperties
    <3> QED BY <2>3, <3>2, <3>3
  <2>5. CASE i # cb.size + 1
    <3>1. i \in 1 .. cb.size /\ i - 1 # cb.size BY <1>2, <2>5
    <3>2. c2.data[pos] = cb.data[pos] BY <1>2, <1>3, <1>5, <2>2, <3>1
    <3>3. PtrContents(cb)[i] = cb.data[pos] BY <1>2, <2>1, <3>1 DEF PtrContents
    <3>4. Append(PtrContents(cb), x)[i] = PtrContents(cb)[i]
      BY <1>6, <3>1, AppendProperties
    <3> QED BY <2>3, <3>2, <3>3, <3>4
  <2> QED BY <2>4, <2>5
<1> QED BY <1>5, <1>6, <1>7, <1>8, SeqEqual

(* head_cbuffer_t and remove_cbuffer_t take the first item. *)
LEMMA RemoveTakesFirst ==
  ASSUME NEW cb \in Buffers, cb.size > 0
  PROVE  /\ ptr_remove(cb) \in Buffers
         /\ ptr_remove(cb).size = cb.size - 1
         /\ PtrContents(ptr_remove(cb)) = Tail(PtrContents(cb))
         /\ PtrContents(cb) # << >>
         /\ cb.data[cb.head] = Head(PtrContents(cb))
         /\ cb.data[cb.head] \in Item
<1> DEFINE m  == MAX_ITEMS_CBUF
           h2 == (cb.head + 1) % m
           c2 == ptr_remove(cb)
           s  == PtrContents(cb)
<1>1. m \in Nat \ {0} BY ProdConsAssumption
<1>2. /\ cb.data \in [0 .. m - 1 -> Item] /\ cb.head \in 0 .. m - 1
      /\ cb.size \in 0 .. m /\ cb.max_size = m
  BY BufferFields
<1>3. h2 \in 0 .. m - 1 BY <1>1, Positions
<1>4. c2 = [cb EXCEPT !.head = h2, !.size = @ - 1]
  BY <1>2 DEF ptr_remove
<1>5. /\ c2.data = cb.data /\ c2.head = h2
      /\ c2.size = cb.size - 1 /\ c2.max_size = m /\ c2 \in Buffers
  <2> HIDE DEF h2, c2
  <2>1. /\ c2.data = cb.data /\ c2.head = h2
        /\ c2.size = cb.size - 1 /\ c2.max_size = m
    BY <1>2, <1>4, BufferFields
  <2>2. cb.size - 1 \in 0 .. m
    BY <1>1, <1>2
  <2> QED BY <1>2, <1>3, <1>4, <2>1, <2>2 DEF Buffers
<1>6. /\ s \in Seq(Item) /\ Len(s) = cb.size
      /\ PtrContents(c2) \in Seq(Item) /\ Len(PtrContents(c2)) = cb.size - 1
  BY <1>5, ContentsType
<1>7. s # << >> /\ cb.data[cb.head] = Head(s)
  <2>1. s[1] = cb.data[cb.head]
    <3>1. (cb.head + 1 - 1) % cb.max_size = cb.head
      <4>1. cb.head \in Nat /\ cb.head < m /\ cb.head + 1 - 1 = cb.head BY <1>1, <1>2
      <4> QED BY <1>1, <1>2, <4>1, ModSmall
    <3> QED BY <1>2, <3>1 DEF PtrContents
  <2> QED BY <1>2, <1>6, <2>1
<1>8. /\ Tail(s) \in Seq(Item) /\ Len(Tail(s)) = cb.size - 1
      /\ \A i \in 1 .. cb.size - 1 : Tail(s)[i] = s[i + 1]
  BY <1>6, <1>7, HeadTailProperties
<1>9. ASSUME NEW i \in 1 .. cb.size - 1
      PROVE  PtrContents(c2)[i] = Tail(s)[i]
  <2>1. PtrContents(c2)[i] = cb.data[(h2 + i - 1) % m]
    BY <1>5 DEF PtrContents
  <2>2. Tail(s)[i] = cb.data[(cb.head + (i + 1) - 1) % m]
    <3>1. i + 1 \in 1 .. cb.size BY <1>2
    <3> QED BY <1>2, <1>8, <3>1 DEF PtrContents
  <2>3. (h2 + i - 1) % m = (cb.head + (i + 1) - 1) % m
    <3>1. cb.head \in Nat /\ i \in Nat /\ i >= 1 /\ i < m /\ cb.head < m BY <1>1, <1>2
    <3>2. CASE cb.head + 1 < m
      <4>1. h2 = cb.head + 1 BY <1>1, <3>1, <3>2, ModSmall
      <4> QED BY <3>1, <4>1
    <3>3. CASE cb.head + 1 = m
      <4>1. h2 = 0 BY <1>1, <3>1, <3>3, ModSmall
      <4>2. h2 + i - 1 = i - 1 /\ i - 1 \in Nat /\ i - 1 < m
        <5> HIDE DEF h2, m
        <5> QED BY <1>1, <3>1, <4>1
      <4>3. cb.head + (i + 1) - 1 = m + (i - 1) /\ m + (i - 1) \in Nat
            /\ m <= m + (i - 1) /\ m + (i - 1) < 2 * m /\ (m + (i - 1)) - m = i - 1
        <5>1. cb.head + (i + 1) - 1 = m + (i - 1)
          <6> DEFINE h == cb.head
          <6>1. h \in Nat /\ h + 1 = m BY <3>1, <3>3
          <6> HIDE DEF m, h
          <6>2. h + (i + 1) - 1 = m + (i - 1) BY <1>1, <3>1, <6>1
          <6> QED BY <6>2 DEF h
        <5> HIDE DEF m
        <5> QED BY <1>1, <3>1, <5>1
      <4>4. (i - 1) % m = i - 1 BY <1>1, <4>2, ModSmall
      <4>5. (m + (i - 1)) % m = i - 1 BY <1>1, <4>3, ModSmall
      <4> QED BY <4>2, <4>3, <4>4, <4>5
    <3> QED BY <1>1, <3>1, <3>2, <3>3
  <2> QED BY <2>1, <2>2, <2>3
<1>10. PtrContents(c2) = Tail(s) BY <1>6, <1>8, <1>9, SeqEqual
<1> QED BY <1>2, <1>5, <1>7, <1>10

-----------------------------------------------------------------------------
(* What both versions share *)

(* A process carries at most one item. *)
Items == {<< >>} \cup {<<x>> : x \in Item}

Labels == {"user", "sem", "mtx", "up", "cond", "redown", "intr"}

PCTypes ==
  /\ loaded \in BOOLEAN /\ cbuf \in Buffers /\ mtx \in Procs \cup {NoProc}
  /\ call \in [Procs -> {"none", "write", "read"}]
  /\ pc \in [Procs -> Labels] /\ item \in [Procs -> Items]
  /\ ret \in [Procs -> [code : {"none", "OK"}, data : Items]]
  /\ heap \in Int /\ lost \in 0 .. MaxLost

(* The buffer is empty and nobody is inside while the module is out. *)
OutOfUse == ~ loaded => cbuf.size = 0 /\ \A p \in Procs : pc[p] = "user"

Carriers == {p \in Procs : item[p] # << >>}

(* A step of p: no other process moves, and the module stays loaded. *)
LocalStep(p) ==
  /\ loaded /\ loaded'
  /\ \A q \in Procs \ {p} :
       pc'[q] = pc[q] /\ call'[q] = call[q] /\ item'[q] = item[q] /\ ret'[q] = ret[q]

LEMMA NoBlocks == << >> \in Items /\ Len(<< >>) = 0
BY DEF Items

LEMMA OneBlock ==
  ASSUME NEW i \in Items
  PROVE  /\ Len(i) = Count(i # << >>) /\ i \in Seq(Item)
         /\ i # << >> => i[1] \in Item /\ i = <<i[1]>>
<1>1. CASE i = << >> BY <1>1 DEF Count
<1>2. CASE \E x \in Item : i = <<x>>
  <2> PICK x \in Item : i = <<x>> BY <1>2
  <2> QED BY DEF Count
<1> QED BY <1>1, <1>2 DEF Items

(* How many carry an item, before and after a step of p. *)
LEMMA CarriersStep ==
  ASSUME NEW p \in Procs, LocalStep(p)
  PROVE  /\ Cardinality(Carriers) \in Nat /\ Cardinality(Carriers') \in Nat
         /\ Cardinality(Carriers') = Cardinality(Carriers)
                + Count(item'[p] # << >>) - Count(item[p] # << >>)
<1>1. IsFiniteSet(Carriers)
  BY KernelAssumption, FS_Subset DEF Carriers
<1>2. Carriers \ {p} = Carriers' \ {p}
  BY DEF LocalStep, Carriers
<1>3. (p \in Carriers <=> item[p] # << >>) /\ (p \in Carriers' <=> item'[p] # << >>)
  BY DEF Carriers
<1> QED BY <1>1, <1>2, <1>3, CardinalityStep DEF Count

(* The blocks that are neither the module's own nor lost. *)
InHands == heap - (2 + cbuf.size + lost)

(* Memory stays accounted for when what p gains or drops is in InHands.    *)
LEMMA MemoryStep ==
  ASSUME PCTypes, PCTypes', MemoryAccounted, NEW p \in Procs, LocalStep(p),
         InHands' + Count(item[p] # << >>) = InHands + Count(item'[p] # << >>)
  PROVE  MemoryAccounted'
<1>1. InHands \in Int /\ InHands' \in Int
  <2>1. /\ cbuf.size \in Nat /\ cbuf'.size \in Nat /\ lost \in Nat /\ lost' \in Nat
        /\ heap \in Int /\ heap' \in Int
    BY BufferFields, ProdConsAssumption DEF PCTypes
  <2>2. \A h \in Int : \A s, l \in Nat : h - (2 + s + l) \in Int OBVIOUS
  <2> QED BY <2>1, <2>2, Zenon DEF InHands
<1>2. InHands = Cardinality(Carriers)
  <2>1. heap = 2 + cbuf.size + lost + Cardinality(Carriers)
    BY DEF MemoryAccounted, LocalStep, Carriers
  <2>2. cbuf.size \in Nat /\ lost \in Nat /\ Cardinality(Carriers) \in Nat
    BY BufferFields, ProdConsAssumption, CarriersStep DEF PCTypes
  <2>3. \A s, l, c \in Nat : (2 + s + l + c) - (2 + s + l) = c OBVIOUS
  <2> QED BY <2>1, <2>2, <2>3 DEF InHands
<1>3. InHands' = Cardinality(Carriers')
  <2> DEFINE i == InHands
             j == InHands'
             a == Count(item[p] # << >>)
             b == Count(item'[p] # << >>)
             m == Cardinality(Carriers)
             n == Cardinality(Carriers')
  <2>1. i = m /\ j + a = i + b /\ n = m + b - a BY <1>2, CarriersStep
  <2>2. /\ i \in Int /\ j \in Int /\ m \in Int /\ n \in Int
        /\ a \in Int /\ b \in Int
    BY <1>1, CarriersStep DEF Count
  <2> HIDE DEF i, j, a, b, m, n
  <2>3. j = n BY <2>1, <2>2
  <2> QED BY <2>3 DEF j, n
<1>4. heap' = 2 + cbuf'.size + lost' + Cardinality(Carriers')
  <2>1. cbuf'.size \in Nat /\ lost' \in Nat /\ heap' \in Int
    BY BufferFields, ProdConsAssumption DEF PCTypes
  <2>2. \A s, l, h, c \in Int : h - (2 + s + l) = c => h = 2 + s + l + c
    OBVIOUS
  <2>3. Cardinality(Carriers') \in Int BY CarriersStep
  <2> QED BY <1>3, <2>1, <2>2, <2>3 DEF InHands
<1> QED BY <1>4 DEF MemoryAccounted, LocalStep, Carriers

(* PCTypeOK is PCTypes and that memory is accounted for. *)
LEMMA TypesFromMemory ==
  ASSUME PCTypes, MemoryAccounted
  PROVE  PCTypeOK
<1>1. IsFiniteSet(Carriers) BY KernelAssumption, FS_Subset DEF Carriers
<1>2. Cardinality(Carriers) \in Nat BY <1>1, FS_CardinalityType
<1>3. cbuf.size \in Nat /\ lost \in Nat
  BY BufferFields, ProdConsAssumption DEF PCTypes
<1>4. heap \in Nat
  BY <1>2, <1>3 DEF MemoryAccounted, Carriers
<1>5. \A p \in Procs : item[p] \in Seq(Item) /\ Len(item[p]) <= 1
  <2> TAKE p \in Procs
  <2>1. item[p] \in Items BY DEF PCTypes
  <2>2. Len(item[p]) = Count(item[p] # << >>) /\ item[p] \in Seq(Item)
    BY <2>1, OneBlock
  <2> QED BY <2>2 DEF Count
<1>6. item \in [Procs -> Seq(Item)]
  BY <1>5 DEF PCTypes
<1> QED BY <1>4, <1>5, <1>6 DEF PCTypes, PCTypeOK, Buffers

LEMMA InitPC == PCInit => PCTypes /\ OutOfUse /\ MemoryAccounted
<1> SUFFICES ASSUME PCInit PROVE PCTypes /\ OutOfUse /\ MemoryAccounted
  OBVIOUS
<1>1. PCTypes
  <2>1. Result("none", << >>) \in [code : {"none", "OK"}, data : Items]
    BY NoBlocks DEF Result
  <2>2. ret \in [Procs -> [code : {"none", "OK"}, data : Items]]
    BY <2>1 DEF PCInit
  <2>3. cbuf \in Buffers BY CreateEmpty DEF PCInit
  <2>4. lost \in 0 .. MaxLost /\ heap \in Int
    BY ProdConsAssumption DEF PCInit
  <2>5. item \in [Procs -> Items] BY NoBlocks DEF PCInit
  <2>6. /\ loaded \in BOOLEAN /\ mtx \in Procs \cup {NoProc}
        /\ call \in [Procs -> {"none", "write", "read"}]
        /\ pc \in [Procs -> Labels]
    BY DEF PCInit, Labels
  <2> QED BY <2>2, <2>3, <2>4, <2>5, <2>6 DEF PCTypes
<1>2. OutOfUse BY CreateEmpty DEF PCInit, OutOfUse
<1>3. {p \in Procs : item[p] # << >>} = {} BY DEF PCInit
<1>4. MemoryAccounted BY <1>3, FS_EmptySet DEF PCInit, MemoryAccounted
<1> QED BY <1>1, <1>2, <1>4

(* Loading: no call is inside, so nothing but the module's own blocks      *)
(* changes.                                                                *)
LEMMA LoadPC ==
  ASSUME PCTypes, OutOfUse, MemoryAccounted, InitModule
  PROVE  /\ PCTypes' /\ OutOfUse' /\ MemoryAccounted'
         /\ \A p \in Procs : pc[p] = "user"
         /\ cbuf'.size = 0 /\ PtrContents(cbuf') = PtrContents(cbuf)
<1>1. /\ ~ loaded /\ mtx' = NoProc /\ UNCHANGED <<call, pc, item, ret>>
      /\ cbuf.size = 0 /\ \A p \in Procs : pc[p] = "user"
  BY DEF InitModule, OutOfUse
<1>2. PtrContents(cbuf) = << >>
  BY <1>1, ContentsType, EmptySeq DEF PCTypes
<1>3. /\ cbuf' \in Buffers /\ cbuf'.size = 0 /\ PtrContents(cbuf') = << >>
  BY <1>1, <1>2, CreateEmpty DEF InitModule, CreateSucceeds, PCTypes
<1>4. \/ loaded' = FALSE /\ heap' = heap /\ lost' = lost
      \/ loaded' = FALSE /\ heap' = heap + 1 /\ lost' = lost + 1 /\ lost + 1 <= MaxLost
      \/ loaded' = TRUE /\ heap' = heap + 2 /\ lost' = lost
  BY DEF InitModule, CreateLosesStruct, CreateSucceeds, Lose, PCTypes
<1>5. PCTypes'
  <2>1. lost' \in 0 .. MaxLost /\ heap' \in Int
    BY <1>4, ProdConsAssumption DEF PCTypes
  <2> QED BY <1>1, <1>3, <1>4, <2>1 DEF PCTypes
<1>6. MemoryAccounted'
  <2>1. IsFiniteSet(Carriers) BY KernelAssumption, FS_Subset DEF Carriers
  <2>2. Cardinality(Carriers) \in Nat BY <2>1, FS_CardinalityType
  <2>3. Carriers' = Carriers BY <1>1 DEF Carriers
  <2>4. heap = lost + Cardinality(Carriers) /\ lost \in Nat
    BY <1>1, <2>2, ProdConsAssumption DEF MemoryAccounted, Carriers, PCTypes
  <2>5. heap' = (IF loaded' THEN 2 ELSE 0) + lost' + Cardinality(Carriers')
    BY <1>4, <2>2, <2>3, <2>4
  <2> QED BY <1>3, <2>5 DEF MemoryAccounted, Carriers
<1> QED BY <1>1, <1>2, <1>3, <1>5, <1>6 DEF OutOfUse

(* Unloading loses the items that are left in the buffer. *)
LEMMA UnloadPC ==
  ASSUME PCTypes, MemoryAccounted, ExitModule
  PROVE  /\ PCTypes' /\ OutOfUse' /\ MemoryAccounted'
         /\ ~ loaded' /\ PtrContents(cbuf') = << >>
<1>1. /\ loaded /\ loaded' = FALSE /\ UNCHANGED <<mtx, call, pc, item, ret>>
      /\ \A p \in Procs : pc[p] = "user"
      /\ lost' = lost + cbuf.size /\ lost' <= MaxLost /\ heap' = heap - 2
      /\ cbuf' = [cbuf EXCEPT !.size = 0, !.head = 0]
  BY DEF ExitModule, Lose
<1>2. cbuf.size \in Nat /\ lost \in Nat /\ heap \in Int
  BY BufferFields, ProdConsAssumption DEF PCTypes
<1>3. cbuf' \in Buffers /\ cbuf'.size = 0
  <2>1. 0 \in 0 .. MAX_ITEMS_CBUF - 1 /\ 0 \in 0 .. MAX_ITEMS_CBUF
    BY ProdConsAssumption
  <2>2. cbuf \in Buffers BY DEF PCTypes
  <2> QED BY <1>1, <2>1, <2>2 DEF Buffers
<1>4. PtrContents(cbuf') = << >>
  BY <1>3, ContentsType, EmptySeq
<1>5. PCTypes'
  <2>1. lost' \in 0 .. MaxLost /\ heap' \in Int
    BY <1>1, <1>2, ProdConsAssumption
  <2> QED BY <1>1, <1>3, <2>1 DEF PCTypes
<1>6. MemoryAccounted'
  <2>1. IsFiniteSet(Carriers) BY KernelAssumption, FS_Subset DEF Carriers
  <2>2. Cardinality(Carriers) \in Nat BY <2>1, FS_CardinalityType
  <2>3. Carriers' = Carriers BY <1>1 DEF Carriers
  <2>4. heap = 2 + cbuf.size + lost + Cardinality(Carriers)
    BY <1>1 DEF MemoryAccounted, Carriers
  <2>5. heap' = 0 + lost' + Cardinality(Carriers')
    BY <1>1, <1>2, <2>2, <2>3, <2>4
  <2> QED BY <1>1, <2>5 DEF MemoryAccounted, Carriers
<1> QED BY <1>1, <1>3, <1>4, <1>5, <1>6 DEF OutOfUse

(* What Enter, Return and the other ways to move p leave of the types.     *)
LEMMA Moves ==
  ASSUME PCTypes, NEW p \in Procs, NEW l \in Labels,
         NEW c \in {"none", "write", "read"}, NEW i \in Items,
         NEW r \in {"none", "OK"}, NEW d \in Items,
         pc' = [pc EXCEPT ![p] = l], call' = [call EXCEPT ![p] = c],
         item' = [item EXCEPT ![p] = i], ret' = [ret EXCEPT ![p] = Result(r, d)],
         loaded, loaded' = loaded
  PROVE  /\ LocalStep(p)
         /\ pc'[p] = l /\ call'[p] = c /\ item'[p] = i /\ ret'[p] = Result(r, d)
         /\ pc' \in [Procs -> Labels] /\ item' \in [Procs -> Items]
         /\ call' \in [Procs -> {"none", "write", "read"}]
         /\ ret' \in [Procs -> [code : {"none", "OK"}, data : Items]]
<1>1. Result(r, d) \in [code : {"none", "OK"}, data : Items]
  BY DEF Result
<1>2. /\ pc'[p] = l /\ call'[p] = c /\ item'[p] = i /\ ret'[p] = Result(r, d)
      /\ \A q \in Procs \ {p} :
           pc'[q] = pc[q] /\ call'[q] = call[q] /\ item'[q] = item[q] /\ ret'[q] = ret[q]
  BY DEF PCTypes
<1>3. /\ pc' \in [Procs -> Labels] /\ item' \in [Procs -> Items]
      /\ call' \in [Procs -> {"none", "write", "read"}]
  BY DEF PCTypes
<1>4. ret' \in [Procs -> [code : {"none", "OK"}, data : Items]]
  BY <1>1 DEF PCTypes
<1> QED BY <1>2, <1>3, <1>4 DEF LocalStep

LEMMA ReturnMoves ==
  ASSUME PCTypes, NEW p \in Procs, NEW r \in {"none", "OK"}, NEW d \in Items,
         NEW f, Return(p, r, d, f), loaded, UNCHANGED loaded,
         mtx' \in Procs \cup {NoProc}, cbuf' \in Buffers, lost' \in 0 .. MaxLost
  PROVE  /\ PCTypes' /\ LocalStep(p)
         /\ pc'[p] = "user" /\ call'[p] = "none" /\ item'[p] = << >>
         /\ ret'[p] = Result(r, d)
         /\ heap' = IF f THEN heap - Count(item[p] # << >>) ELSE heap
<1>1. "user" \in Labels /\ << >> \in Items BY NoBlocks DEF Labels
<1>2. /\ pc' = [pc EXCEPT ![p] = "user"] /\ call' = [call EXCEPT ![p] = "none"]
      /\ item' = [item EXCEPT ![p] = << >>] /\ ret' = [ret EXCEPT ![p] = Result(r, d)]
      /\ heap' = IF f THEN heap - Len(item[p]) ELSE heap
  BY DEF Return, Goto
<1>3. /\ LocalStep(p)
      /\ pc'[p] = "user" /\ call'[p] = "none" /\ item'[p] = << >>
      /\ ret'[p] = Result(r, d)
      /\ pc' \in [Procs -> Labels] /\ item' \in [Procs -> Items]
      /\ call' \in [Procs -> {"none", "write", "read"}]
      /\ ret' \in [Procs -> [code : {"none", "OK"}, data : Items]]
  <2> DEFINE l == "user"  c == "none"  i == << >>
  <2>1. /\ l \in Labels /\ c \in {"none", "write", "read"} /\ i \in Items
        /\ pc' = [pc EXCEPT ![p] = l] /\ call' = [call EXCEPT ![p] = c]
        /\ item' = [item EXCEPT ![p] = i] /\ ret' = [ret EXCEPT ![p] = Result(r, d)]
    BY <1>1, <1>2
  <2> HIDE DEF l, c, i
  <2>2. /\ LocalStep(p)
        /\ pc'[p] = l /\ call'[p] = c /\ item'[p] = i /\ ret'[p] = Result(r, d)
        /\ pc' \in [Procs -> Labels] /\ item' \in [Procs -> Items]
        /\ call' \in [Procs -> {"none", "write", "read"}]
        /\ ret' \in [Procs -> [code : {"none", "OK"}, data : Items]]
    BY <2>1, Moves
  <2> QED BY <2>2 DEF l, c, i
<1>4. item[p] \in Items BY DEF PCTypes
<1>5. heap' = IF f THEN heap - Count(item[p] # << >>) ELSE heap
  BY <1>2, <1>4, OneBlock
<1>6. heap' \in Int BY <1>5 DEF PCTypes, Count
<1>7. PCTypes' BY <1>3, <1>6 DEF PCTypes
<1> QED BY <1>3, <1>5, <1>7

LEMMA EnterMoves ==
  ASSUME PCTypes, NEW p \in Procs, NEW c \in {"write", "read"}, NEW l \in Labels,
         NEW i \in Items, Enter(p, c, l, i), loaded,
         UNCHANGED <<loaded, cbuf, mtx, lost>>
  PROVE  /\ PCTypes' /\ LocalStep(p)
         /\ pc'[p] = l /\ call'[p] = c /\ item'[p] = i
         /\ ret'[p] = Result("none", << >>)
         /\ heap' = heap + Count(i # << >>)
<1>1. << >> \in Items BY NoBlocks
<1>2. /\ pc' = [pc EXCEPT ![p] = l] /\ call' = [call EXCEPT ![p] = c]
      /\ item' = [item EXCEPT ![p] = i]
      /\ ret' = [ret EXCEPT ![p] = Result("none", << >>)] /\ heap' = heap + Len(i)
  BY DEF Enter, Goto
<1>3. /\ LocalStep(p)
      /\ pc'[p] = l /\ call'[p] = c /\ item'[p] = i
      /\ ret'[p] = Result("none", << >>)
      /\ pc' \in [Procs -> Labels] /\ item' \in [Procs -> Items]
      /\ call' \in [Procs -> {"none", "write", "read"}]
      /\ ret' \in [Procs -> [code : {"none", "OK"}, data : Items]]
  BY <1>1, <1>2, Moves
<1>4. heap' = heap + Count(i # << >>) BY <1>2, OneBlock
<1>5. heap' \in Int BY <1>4 DEF PCTypes, Count
<1>6. PCTypes' BY <1>3, <1>5 DEF PCTypes
<1> QED BY <1>3, <1>4, <1>6

-----------------------------------------------------------------------------
(* How the steps look to ItemQueue. *)

LEMMA QueueInit == PCInit => P1Queue!Init
BY CreateEmpty DEF PCInit, P1Queue!Init, P1Queue!Result, Result

LEMMA QueueIdle ==
  ASSUME NEW p \in Procs, ret' = [ret EXCEPT ![p] = Result("none", << >>)],
         PtrContents(cbuf') = PtrContents(cbuf)
  PROVE  P1Queue!Next
<1>1. P1Queue!Idle(p)
  BY DEF P1Queue!Idle, P1Queue!Returns, P1Queue!Result, Result
<1> QED BY <1>1 DEF P1Queue!Next

LEMMA QueueDone ==
  ASSUME NEW p \in Procs, ret[p].data # << >>,
         ret' = [ret EXCEPT ![p] = Result("OK", ret[p].data)],
         PtrContents(cbuf') = PtrContents(cbuf)
  PROVE  P1Queue!Next
<1>1. P1Queue!Done(p)
  BY DEF P1Queue!Done, P1Queue!Returns, P1Queue!Result, Result
<1> QED BY <1>1 DEF P1Queue!Next

LEMMA QueueUnload ==
  ASSUME PtrContents(cbuf') = << >>, UNCHANGED ret
  PROVE  P1Queue!Next
BY DEF P1Queue!Next, P1Queue!Unload

LEMMA QueuePut ==
  ASSUME cbuf \in Buffers, cbuf.size < MAX_ITEMS_CBUF, NEW p \in Procs,
         NEW x \in Item, NEW c \in {"none", "OK"}, cbuf' = ptr_insert(cbuf, x),
         ret' = [ret EXCEPT ![p] = Result(c, <<x>>)]
  PROVE  P1Queue!Next
<1>1. /\ Len(PtrContents(cbuf)) < MAX_ITEMS_CBUF
      /\ PtrContents(cbuf') = Append(PtrContents(cbuf), x)
  BY ContentsType, InsertAppends
<1>2. P1Queue!Put(p, x)
  BY <1>1 DEF P1Queue!Put, P1Queue!Returns, P1Queue!Result, Result
<1> QED BY <1>2 DEF P1Queue!Next

LEMMA QueueTake ==
  ASSUME cbuf \in Buffers, cbuf.size > 0, NEW p \in Procs,
         NEW c \in {"none", "OK"}, cbuf' = ptr_remove(cbuf),
         ret' = [ret EXCEPT ![p] = Result(c, <<cbuf.data[cbuf.head]>>)]
  PROVE  P1Queue!Next
<1>1. /\ PtrContents(cbuf) # << >>
      /\ PtrContents(cbuf') = Tail(PtrContents(cbuf))
      /\ cbuf.data[cbuf.head] = Head(PtrContents(cbuf))
  BY RemoveTakesFirst
<1>2. P1Queue!Take(p)
  BY <1>1 DEF P1Queue!Take, P1Queue!Returns, P1Queue!Result, Result
<1> QED BY <1>2 DEF P1Queue!Next

LEMMA QueueStutter ==
  ASSUME UNCHANGED ret, PtrContents(cbuf') = PtrContents(cbuf)
  PROVE  [P1Queue!Next]_(P1Queue!vars)
BY DEF P1Queue!vars

-----------------------------------------------------------------------------
(* The first version *)

(* Who has taken a gap, or an item, that its semaphore no longer counts. *)
HoldsGap(p) ==
  (pc[p] = "mtx" /\ call[p] = "write") \/ (pc[p] = "up" /\ call[p] = "read")
HoldsItem(p) ==
  (pc[p] = "mtx" /\ call[p] = "read") \/ (pc[p] = "up" /\ call[p] = "write")
GapHolders == {p \in Procs : HoldsGap(p)}
ItemHolders == {p \in Procs : HoldsItem(p)}

(* Where a call may be, and what its local item points to there. *)
P1Call(p) ==
  /\ pc[p] \in {"user", "sem", "mtx", "up"}
  /\ pc[p] = "user" <=> call[p] = "none"
  /\ item[p] # << >> <=> ((call[p] = "write" /\ pc[p] # "up")
                           \/ (call[p] = "read" /\ pc[p] = "up"))
  /\ pc[p] = "up" => ret[p].data # << >>

P1Inv ==
  /\ PCTypes /\ OutOfUse /\ MemoryAccounted
  /\ sem \in [huecos : Nat, elementos : Nat]
  /\ (\A p \in Procs : P1Call(p)) /\ PermitsMatchBuffer

LEMMA Holders ==
  /\ IsFiniteSet(GapHolders) /\ IsFiniteSet(ItemHolders)
  /\ Cardinality(GapHolders) \in Nat /\ Cardinality(ItemHolders) \in Nat
  /\ Cardinality(GapHolders)
       = Cardinality(Granted("write")) + Cardinality(Untold("read"))
  /\ Cardinality(ItemHolders)
       = Cardinality(Granted("read")) + Cardinality(Untold("write"))
  /\ \A c \in {"write", "read"} : Cardinality(Granted(c)) \in Nat /\ Cardinality(Untold(c)) \in Nat
<1>1. \A c : IsFiniteSet(Granted(c)) /\ IsFiniteSet(Untold(c))
  BY KernelAssumption, FS_Subset DEF Granted, Untold
<1>2. \A c : Cardinality(Granted(c)) \in Nat /\ Cardinality(Untold(c)) \in Nat
  BY <1>1, FS_CardinalityType
<1>3. \A c, d : Granted(c) \cap Untold(d) = {}
  BY DEF Granted, Untold
<1>4. /\ GapHolders = Granted("write") \cup Untold("read")
      /\ ItemHolders = Granted("read") \cup Untold("write")
  BY DEF GapHolders, ItemHolders, HoldsGap, HoldsItem, Granted, Untold
<1>5. \A c, d : /\ IsFiniteSet(Granted(c) \cup Untold(d))
                /\ Cardinality(Granted(c) \cup Untold(d))
                     = Cardinality(Granted(c)) + Cardinality(Untold(d))
  <2> TAKE c, d
  <2>1. /\ IsFiniteSet(Granted(c) \cup Untold(d))
        /\ Cardinality(Granted(c) \cup Untold(d))
             = Cardinality(Granted(c)) + Cardinality(Untold(d)) - Cardinality(Granted(c) \cap Untold(d))
    BY <1>1, FS_Union
  <2>2. Cardinality(Granted(c) \cap Untold(d)) = 0 BY <1>3, FS_EmptySet
  <2>3. Cardinality(Granted(c)) \in Nat /\ Cardinality(Untold(d)) \in Nat BY <1>2
  <2>4. \A a, b \in Nat : a + b - 0 = a + b OBVIOUS
  <2> QED BY <2>1, <2>2, <2>3, <2>4
<1> QED BY <1>2, <1>4, <1>5

(* PermitsMatchBuffer, by holders. *)
HoldersMatch ==
  /\ sem.huecos + Cardinality(GapHolders) + cbuf.size = MAX_ITEMS_CBUF
  /\ sem.elementos + Cardinality(ItemHolders) = cbuf.size

LEMMA PermitsByHolders ==
  PCTypes /\ sem \in [huecos : Nat, elementos : Nat] /\ loaded
  => (PermitsMatchBuffer <=> HoldersMatch)
<1> SUFFICES ASSUME PCTypes, sem \in [huecos : Nat, elementos : Nat], loaded
             PROVE  PermitsMatchBuffer <=> HoldersMatch
  OBVIOUS
<1>1. sem.huecos \in Nat /\ sem.elementos \in Nat OBVIOUS
<1>2. cbuf.size \in Nat /\ MAX_ITEMS_CBUF \in Nat
  BY BufferFields, ProdConsAssumption DEF PCTypes
<1>3. \A a, b, c, s, m \in Nat : a + b + c = m - s <=> a + (b + c) + s = m
  OBVIOUS
<1>4. \A a, b, c, s \in Nat : a + b + c = s <=> a + (b + c) = s
  OBVIOUS
<1>5. sem.huecos + Cardinality(Granted("write")) + Cardinality(Untold("read"))
          = MAX_ITEMS_CBUF - cbuf.size
      <=> sem.huecos + Cardinality(GapHolders) + cbuf.size = MAX_ITEMS_CBUF
  BY <1>1, <1>2, <1>3, Holders
<1>6. sem.elementos + Cardinality(Granted("read")) + Cardinality(Untold("write"))
          = cbuf.size
      <=> sem.elementos + Cardinality(ItemHolders) = cbuf.size
  BY <1>1, <1>2, <1>4, Holders
<1> QED BY <1>5, <1>6 DEF PermitsMatchBuffer, HoldersMatch

LEMMA HoldersStep ==
  ASSUME NEW p \in Procs, LocalStep(p)
  PROVE  /\ Cardinality(GapHolders') = Cardinality(GapHolders)
                + Count(HoldsGap(p)') - Count(HoldsGap(p))
         /\ Cardinality(ItemHolders') = Cardinality(ItemHolders)
                + Count(HoldsItem(p)') - Count(HoldsItem(p))
         /\ Cardinality(GapHolders) \in Nat /\ Cardinality(GapHolders') \in Nat
         /\ Cardinality(ItemHolders) \in Nat /\ Cardinality(ItemHolders') \in Nat
<1>1. GapHolders \ {p} = GapHolders' \ {p} /\ ItemHolders \ {p} = ItemHolders' \ {p}
  BY DEF LocalStep, GapHolders, ItemHolders, HoldsGap, HoldsItem
<1>2. /\ (p \in GapHolders <=> HoldsGap(p)) /\ (p \in GapHolders' <=> HoldsGap(p)')
      /\ (p \in ItemHolders <=> HoldsItem(p)) /\ (p \in ItemHolders' <=> HoldsItem(p)')
  BY DEF GapHolders, ItemHolders
<1> QED BY <1>1, <1>2, Holders, CardinalityStep DEF Count

(* A step of p keeps the counts if what it puts in or takes out of a       *)
(* semaphore and the buffer it takes from, or gives to, its own hands.     *)
LEMMA P1Balance ==
  ASSUME PCTypes, PCTypes', sem \in [huecos : Nat, elementos : Nat],
         sem' \in [huecos : Nat, elementos : Nat],
         HoldersMatch, NEW p \in Procs, LocalStep(p),
         sem'.huecos + Count(HoldsGap(p)') + cbuf'.size
           = sem.huecos + Count(HoldsGap(p)) + cbuf.size,
         sem'.elementos + Count(HoldsItem(p)') + cbuf.size
           = sem.elementos + Count(HoldsItem(p)) + cbuf'.size
  PROVE  HoldersMatch'
<1>1. /\ sem.huecos \in Nat /\ sem.elementos \in Nat
      /\ sem'.huecos \in Nat /\ sem'.elementos \in Nat
  OBVIOUS
<1>2. cbuf.size \in Nat /\ cbuf'.size \in Nat /\ MAX_ITEMS_CBUF \in Nat
  BY BufferFields, ProdConsAssumption DEF PCTypes
<1> DEFINE a == Count(HoldsGap(p))
           b == Count(HoldsGap(p)')
           c == Count(HoldsItem(p))
           d == Count(HoldsItem(p)')
<1>3. a \in Nat /\ b \in Nat /\ c \in Nat /\ d \in Nat BY DEF Count
<1>4. sem'.huecos + Cardinality(GapHolders') + cbuf'.size = MAX_ITEMS_CBUF
  <2> DEFINE g == Cardinality(GapHolders)
             h == Cardinality(GapHolders')
             s == sem.huecos
             t == sem'.huecos
             u == cbuf.size
             v == cbuf'.size
             m == MAX_ITEMS_CBUF
  <2>1. h = g + b - a /\ s + g + u = m /\ t + b + v = s + a + u
    BY HoldersStep DEF HoldersMatch
  <2>2. /\ g \in Nat /\ h \in Nat /\ s \in Nat /\ t \in Nat
        /\ u \in Nat /\ v \in Nat /\ m \in Nat
    BY <1>1, <1>2, HoldersStep
  <2> HIDE DEF a, b, g, h, s, t, u, v, m
  <2>3. t + h + v = m BY <1>3, <2>1, <2>2
  <2> QED BY <2>3 DEF t, h, v, m
<1>5. sem'.elementos + Cardinality(ItemHolders') = cbuf'.size
  <2> DEFINE g == Cardinality(ItemHolders)
             h == Cardinality(ItemHolders')
             s == sem.elementos
             t == sem'.elementos
             u == cbuf.size
             v == cbuf'.size
  <2>1. h = g + d - c /\ s + g = u /\ t + d + u = s + c + v
    BY HoldersStep DEF HoldersMatch
  <2>2. /\ g \in Nat /\ h \in Nat /\ s \in Nat /\ t \in Nat
        /\ u \in Nat /\ v \in Nat
    BY <1>1, <1>2, HoldersStep
  <2> HIDE DEF c, d, g, h, s, t, u, v
  <2>3. t + h = v BY <1>3, <2>1, <2>2
  <2> QED BY <2>3 DEF t, h, v
<1> QED BY <1>4, <1>5 DEF HoldersMatch

LEMMA P1Keeps ==
  ASSUME P1Inv, PCTypes', NEW p \in Procs, LocalStep(p),
         sem' \in [huecos : Nat, elementos : Nat], P1Call(p)',
         InHands' + Count(item[p] # << >>) = InHands + Count(item'[p] # << >>),
         sem'.huecos + Count(HoldsGap(p)') + cbuf'.size
           = sem.huecos + Count(HoldsGap(p)) + cbuf.size,
         sem'.elementos + Count(HoldsItem(p)') + cbuf.size
           = sem.elementos + Count(HoldsItem(p)) + cbuf'.size
  PROVE  P1Inv'
<1>1. PCTypes /\ MemoryAccounted /\ sem \in [huecos : Nat, elementos : Nat]
      /\ HoldersMatch /\ loaded /\ loaded'
  BY PermitsByHolders DEF P1Inv, LocalStep
<1>2. MemoryAccounted' BY <1>1, MemoryStep
<1>3. HoldersMatch' BY <1>1, P1Balance
<1>4. PermitsMatchBuffer' 
  <2>1. (PCTypes /\ sem \in [huecos : Nat, elementos : Nat] /\ loaded)'
        => (PermitsMatchBuffer <=> HoldersMatch)'
    BY PermitsByHolders, PTL
  <2> QED BY <1>1, <1>3, <2>1
<1>5. \A q \in Procs : P1Call(q)'
  BY DEF P1Inv, LocalStep, P1Call
<1> QED BY <1>1, <1>2, <1>4, <1>5 DEF P1Inv, OutOfUse

(* A step that moves no permit. *)
LEMMA P1KeepsPermits ==
  ASSUME P1Inv, PCTypes', NEW p \in Procs, LocalStep(p), UNCHANGED <<sem, cbuf>>,
         P1Call(p)',
         InHands' + Count(item[p] # << >>) = InHands + Count(item'[p] # << >>),
         HoldsGap(p)' <=> HoldsGap(p), HoldsItem(p)' <=> HoldsItem(p)
  PROVE  P1Inv'
<1>1. /\ Count(HoldsGap(p)') = Count(HoldsGap(p))
      /\ Count(HoldsItem(p)') = Count(HoldsItem(p))
  BY DEF Count
<1>2. sem' \in [huecos : Nat, elementos : Nat] BY DEF P1Inv
<1> QED BY <1>1, <1>2, P1Keeps

(* What P1Inv says of one process, and of the numbers. *)
LEMMA P1Facts ==
  ASSUME P1Inv, NEW p \in Procs
  PROVE  /\ PCTypes /\ P1Call(p) /\ item[p] \in Items
         /\ pc[p] # "user" => loaded
         /\ sem.huecos \in Nat /\ sem.elementos \in Nat
         /\ cbuf \in Buffers /\ cbuf.size \in Nat /\ lost \in Nat /\ heap \in Int
         /\ cbuf.size <= MAX_ITEMS_CBUF /\ MAX_ITEMS_CBUF \in Nat
         /\ InHands \in Int
<1>1. PCTypes BY DEF P1Inv
<1>2. /\ cbuf \in Buffers /\ cbuf.size \in Nat /\ lost \in Nat /\ heap \in Int
      /\ cbuf.size <= MAX_ITEMS_CBUF /\ MAX_ITEMS_CBUF \in Nat
  BY <1>1, BufferFields, ProdConsAssumption DEF PCTypes
<1>3. InHands \in Int BY <1>2 DEF InHands
<1>4. item[p] \in Items BY <1>1 DEF PCTypes
<1> QED BY <1>1, <1>2, <1>3, <1>4 DEF P1Inv, OutOfUse

(* A call that begins, or that ends at its first lines. *)
LEMMA P1StartStep ==
  ASSUME P1Inv, NEW p \in Procs, P1Write(p) \/ P1Read(p)
  PROVE  P1Inv' /\ [P1Queue!Next]_(P1Queue!vars)
<1>1. /\ loaded /\ pc[p] = "user" /\ item[p] = << >> /\ call[p] = "none"
      /\ UNCHANGED <<loaded, cbuf, mtx, lost, sem>>
  BY P1Facts DEF P1Write, P1Read, WriteStart, ReadStart, P1Call
<1>2. /\ cbuf' \in Buffers /\ lost' \in 0 .. MaxLost /\ mtx' \in Procs \cup {NoProc}
      /\ sem' \in [huecos : Nat, elementos : Nat]
  BY <1>1 DEF P1Inv, PCTypes
<1>3. Count(FALSE) = 0 /\ Count(TRUE) = 1 BY DEF Count
<1>4. ~ HoldsGap(p) /\ ~ HoldsItem(p) BY <1>1 DEF HoldsGap, HoldsItem
<1>5. CASE Return(p, "none", << >>, FALSE)
  <2>1. /\ PCTypes' /\ LocalStep(p) /\ pc'[p] = "user" /\ call'[p] = "none"
        /\ item'[p] = << >> /\ heap' = heap
    BY <1>1, <1>2, <1>5, P1Facts, NoBlocks, ReturnMoves
  <2>2. P1Call(p)' /\ ~ HoldsGap(p)' /\ ~ HoldsItem(p)'
    BY <2>1 DEF P1Call, HoldsGap, HoldsItem
  <2>3. InHands' = InHands BY <1>1, <2>1 DEF InHands
  <2>4. P1Inv' BY <1>1, <1>4, <2>1, <2>2, <2>3, P1KeepsPermits
  <2> QED BY <1>1, <1>5, <2>4, QueueIdle DEF Return
<1>6. ASSUME NEW c \in {"write", "read"}, NEW i \in Items,
             c = "write" <=> i # << >>, Enter(p, c, "sem", i)
      PROVE  P1Inv' /\ [P1Queue!Next]_(P1Queue!vars)
  <2>1. /\ PCTypes' /\ LocalStep(p) /\ pc'[p] = "sem" /\ call'[p] = c
        /\ item'[p] = i /\ heap' = heap + Count(i # << >>)
    <3>1. "sem" \in Labels BY DEF Labels
    <3> QED BY <1>1, <1>6, <3>1, P1Facts, EnterMoves
  <2>2. P1Call(p)' /\ ~ HoldsGap(p)' /\ ~ HoldsItem(p)'
    BY <1>6, <2>1 DEF P1Call, HoldsGap, HoldsItem
  <2>3. InHands' + Count(item[p] # << >>) = InHands + Count(item'[p] # << >>)
    <3>1. InHands' = InHands + Count(i # << >>)
      <4>1. Count(i # << >>) \in Int BY DEF Count
      <4>2. \A h, n, k \in Int : (h + n) - k = (h - k) + n OBVIOUS
      <4>3. 2 + cbuf.size + lost \in Int BY P1Facts
      <4> QED BY <1>1, <2>1, <4>1, <4>2, <4>3, P1Facts DEF InHands
    <3> QED BY <1>1, <2>1, <3>1, P1Facts DEF Count
  <2>4. P1Inv' BY <1>1, <1>4, <2>1, <2>2, <2>3, P1KeepsPermits
  <2> QED BY <1>1, <1>6, <2>4, QueueIdle DEF Enter
<1>7. \A x \in Item : <<x>> \in Items /\ <<x>> # << >> BY DEF Items
<1> QED
  BY <1>5, <1>6, <1>7, NoBlocks DEF P1Write, P1Read, WriteStart, ReadStart

(* down of huecos or of elementos. *)
LEMMA P1DownStep ==
  ASSUME P1Inv, NEW p \in Procs, P1Down(p)
  PROVE  P1Inv' /\ [P1Queue!Next]_(P1Queue!vars)
<1>1. /\ pc[p] = "sem" /\ sem[Takes(p)] > 0 /\ loaded
      /\ sem' = [sem EXCEPT ![Takes(p)] = @ - 1] /\ pc' = [pc EXCEPT ![p] = "mtx"]
      /\ UNCHANGED <<loaded, cbuf, mtx, call, item, ret, heap, lost>>
  BY P1Facts DEF P1Down, Goto
<1>2. PCTypes' /\ LocalStep(p) /\ pc'[p] = "mtx" /\ call'[p] = call[p]
      /\ item'[p] = item[p]
  BY <1>1, P1Facts DEF PCTypes, LocalStep, Labels
<1>3. call[p] \in {"write", "read"} BY <1>1, P1Facts DEF P1Call, PCTypes
<1>4. P1Call(p)' BY <1>1, <1>2, <1>3, P1Facts DEF P1Call
<1>5. /\ ~ HoldsGap(p) /\ ~ HoldsItem(p)
      /\ HoldsGap(p)' <=> call[p] = "write"
      /\ HoldsItem(p)' <=> call[p] = "read"
  BY <1>1, <1>2 DEF HoldsGap, HoldsItem
<1>6. /\ sem' \in [huecos : Nat, elementos : Nat]
      /\ sem'.huecos + Count(HoldsGap(p)') = sem.huecos + Count(HoldsGap(p))
      /\ sem'.elementos + Count(HoldsItem(p)') = sem.elementos + Count(HoldsItem(p))
  <2>0. sem \in [huecos : Nat, elementos : Nat] BY DEF P1Inv
  <2>1. CASE call[p] = "write"
    <3>1. /\ Takes(p) = "huecos" /\ sem'.huecos = sem.huecos - 1
          /\ sem'.elementos = sem.elementos /\ sem.huecos - 1 \in Nat
      BY <1>1, <2>0, <2>1 DEF Takes
    <3>2. sem' \in [huecos : Nat, elementos : Nat] BY <1>1, <2>0, <3>1
    <3> QED BY <1>5, <2>1, <3>1, <3>2, P1Facts DEF Count
  <2>2. CASE call[p] = "read"
    <3>1. /\ Takes(p) = "elementos" /\ sem'.elementos = sem.elementos - 1
          /\ sem'.huecos = sem.huecos /\ sem.elementos - 1 \in Nat
      BY <1>1, <2>0, <2>2 DEF Takes
    <3>2. sem' \in [huecos : Nat, elementos : Nat] BY <1>1, <2>0, <3>1
    <3> QED BY <1>5, <2>2, <3>1, <3>2, P1Facts DEF Count
  <2> QED BY <1>3, <2>1, <2>2
<1>7. InHands' = InHands BY <1>1 DEF InHands
<1>8. P1Inv' BY <1>1, <1>2, <1>4, <1>6, <1>7, P1Keeps
<1> QED BY <1>1, <1>8, QueueStutter

(* A signal at the down of huecos or elementos: the item is freed. *)
LEMMA P1InterruptSemStep ==
  ASSUME P1Inv, NEW p \in Procs, P1InterruptSem(p)
  PROVE  P1Inv' /\ [P1Queue!Next]_(P1Queue!vars)
<1>1. /\ pc[p] = "sem" /\ loaded /\ Return(p, "none", << >>, TRUE)
      /\ UNCHANGED <<loaded, cbuf, mtx, lost, sem>>
  BY P1Facts DEF P1InterruptSem
<1>2. /\ PCTypes' /\ LocalStep(p) /\ pc'[p] = "user" /\ call'[p] = "none"
      /\ item'[p] = << >> /\ heap' = heap - Count(item[p] # << >>)
  <2>1. cbuf' \in Buffers /\ lost' \in 0 .. MaxLost /\ mtx' \in Procs \cup {NoProc}
    BY <1>1 DEF P1Inv, PCTypes
  <2> QED BY <1>1, <2>1, P1Facts, NoBlocks, ReturnMoves
<1>3. /\ P1Call(p)' /\ ~ HoldsGap(p)' /\ ~ HoldsItem(p)'
      /\ ~ HoldsGap(p) /\ ~ HoldsItem(p)
  BY <1>1, <1>2 DEF P1Call, HoldsGap, HoldsItem
<1>4. InHands' + Count(item[p] # << >>) = InHands + Count(item'[p] # << >>)
  <2>1. \A h, n, s, l \in Int : ((h - n) - (2 + s + l)) + n = (h - (2 + s + l)) + 0
    OBVIOUS
  <2> DEFINE n == Count(item[p] # << >>)
  <2>2. n \in Int /\ Count(item'[p] # << >>) = 0
        /\ heap \in Int /\ cbuf.size \in Int /\ lost \in Int
    BY <1>2, P1Facts DEF Count
  <2>3. heap' = heap - n /\ cbuf' = cbuf /\ lost' = lost BY <1>1, <1>2
  <2> HIDE DEF n
  <2> DEFINE h == heap  s == cbuf.size  l == lost
  <2>4. h \in Int /\ s \in Int /\ l \in Int BY <2>2
  <2>5. InHands = h - (2 + s + l) /\ InHands' = (h - n) - (2 + s + l)
    BY <2>3 DEF InHands
  <2> HIDE DEF h, s, l
  <2>6. InHands' + n = InHands + 0 BY <2>1, <2>2, <2>4, <2>5
  <2> QED BY <2>2, <2>6 DEF n
<1>5. P1Inv' BY <1>1, <1>2, <1>3, <1>4, P1KeepsPermits
<1> QED BY <1>1, <1>5, QueueIdle DEF Return

LEMMA P1AcquireStep ==
  ASSUME P1Inv, NEW p \in Procs, P1Acquire(p)
  PROVE  P1Inv' /\ [P1Queue!Next]_(P1Queue!vars)
<1>1. /\ pc[p] = "mtx" /\ loaded /\ mtx' = p
      /\ UNCHANGED <<loaded, cbuf, call, pc, item, ret, heap, lost, sem>>
  BY P1Facts DEF P1Acquire, AcquireMtx
<1>2. PCTypes' /\ LocalStep(p)
  BY <1>1, P1Facts DEF PCTypes, LocalStep
<1>3. /\ P1Call(p)'
      /\ HoldsGap(p)' <=> HoldsGap(p)
      /\ HoldsItem(p)' <=> HoldsItem(p)
      /\ InHands' = InHands /\ item'[p] = item[p]
  BY <1>1, P1Facts DEF P1Call, HoldsGap, HoldsItem, InHands
<1>4. P1Inv' BY <1>1, <1>2, <1>3, P1KeepsPermits
<1> QED BY <1>1, <1>4, QueueStutter

(* A signal at mtx: the permit goes back, and a write loses its item. *)
LEMMA P1InterruptMtxStep ==
  ASSUME P1Inv, NEW p \in Procs, P1InterruptMtx(p)
  PROVE  P1Inv' /\ [P1Queue!Next]_(P1Queue!vars)
<1>1. /\ pc[p] = "mtx" /\ loaded /\ Return(p, "none", << >>, FALSE)
      /\ sem' = [sem EXCEPT ![Takes(p)] = @ + 1]
      /\ lost' = lost + Count(item[p] # << >>) /\ lost' <= MaxLost
      /\ UNCHANGED <<loaded, cbuf, mtx>>
  BY P1Facts, OneBlock DEF P1InterruptMtx, Lose, Up
<1>2. /\ PCTypes' /\ LocalStep(p) /\ pc'[p] = "user" /\ call'[p] = "none"
      /\ item'[p] = << >> /\ heap' = heap
  <2>1. cbuf' \in Buffers /\ mtx' \in Procs \cup {NoProc}
    BY <1>1, P1Facts DEF PCTypes
  <2>2. lost' \in 0 .. MaxLost
    BY <1>1, P1Facts, ProdConsAssumption DEF Count
  <2> QED BY <1>1, <2>1, <2>2, P1Facts, NoBlocks, ReturnMoves
<1>3. call[p] \in {"write", "read"} BY <1>1, P1Facts DEF P1Call, PCTypes
<1>4. /\ P1Call(p)' /\ ~ HoldsGap(p)' /\ ~ HoldsItem(p)'
      /\ HoldsGap(p) <=> call[p] = "write"
      /\ HoldsItem(p) <=> call[p] = "read"
  BY <1>1, <1>2 DEF P1Call, HoldsGap, HoldsItem
<1>5. InHands' + Count(item[p] # << >>) = InHands + Count(item'[p] # << >>)
  <2>1. \A h, n, s, l \in Int : (h - (2 + s + (l + n))) + n = (h - (2 + s + l)) + 0
    OBVIOUS
  <2> DEFINE n == Count(item[p] # << >>)
  <2>2. n \in Int /\ Count(item'[p] # << >>) = 0
        /\ heap \in Int /\ cbuf.size \in Int /\ lost \in Int
    BY <1>2, P1Facts DEF Count
  <2>3. heap' = heap /\ cbuf' = cbuf /\ lost' = lost + n BY <1>1, <1>2
  <2> HIDE DEF n
  <2> DEFINE h == heap  s == cbuf.size  l == lost
  <2>4. h \in Int /\ s \in Int /\ l \in Int BY <2>2
  <2>5. InHands = h - (2 + s + l) /\ InHands' = h - (2 + s + (l + n))
    BY <2>3 DEF InHands
  <2> HIDE DEF h, s, l
  <2>6. InHands' + n = InHands + 0 BY <2>1, <2>2, <2>4, <2>5
  <2> QED BY <2>2, <2>6 DEF n
<1>6. /\ sem' \in [huecos : Nat, elementos : Nat]
      /\ sem'.huecos + Count(HoldsGap(p)') = sem.huecos + Count(HoldsGap(p))
      /\ sem'.elementos + Count(HoldsItem(p)') = sem.elementos + Count(HoldsItem(p))
  <2>0. sem \in [huecos : Nat, elementos : Nat] BY DEF P1Inv
  <2>1. CASE call[p] = "write"
    <3>1. /\ Takes(p) = "huecos" /\ sem'.huecos = sem.huecos + 1
          /\ sem'.elementos = sem.elementos /\ sem.huecos + 1 \in Nat
      BY <1>1, <2>0, <2>1 DEF Takes
    <3>2. sem' \in [huecos : Nat, elementos : Nat] BY <1>1, <2>0, <3>1
    <3> QED BY <1>4, <2>1, <3>1, <3>2, P1Facts DEF Count
  <2>2. CASE call[p] = "read"
    <3>1. /\ Takes(p) = "elementos" /\ sem'.elementos = sem.elementos + 1
          /\ sem'.huecos = sem.huecos /\ sem.elementos + 1 \in Nat
      BY <1>1, <2>0, <2>2 DEF Takes
    <3>2. sem' \in [huecos : Nat, elementos : Nat] BY <1>1, <2>0, <3>1
    <3> QED BY <1>4, <2>2, <3>1, <3>2, P1Facts DEF Count
  <2> QED BY <1>3, <2>1, <2>2
<1>7. P1Inv' BY <1>1, <1>2, <1>4, <1>5, <1>6, P1Keeps
<1> QED BY <1>1, <1>7, QueueIdle DEF Return

(* A process that holds a gap finds room; one that holds an item, an item. *)
LEMMA PermitIsGood ==
  ASSUME P1Inv, NEW p \in Procs, loaded
  PROVE  /\ HoldsGap(p) => cbuf.size < MAX_ITEMS_CBUF
         /\ HoldsItem(p) => cbuf.size > 0
<1>1. HoldersMatch BY PermitsByHolders DEF P1Inv
<1>2. \A S : IsFiniteSet(S) /\ p \in S => Cardinality(S) \in Nat /\ Cardinality(S) > 0
  BY FS_CardinalityType, FS_EmptySet
<1>3. HoldsGap(p) => Cardinality(GapHolders) > 0
  BY <1>2, Holders DEF GapHolders
<1>4. HoldsItem(p) => Cardinality(ItemHolders) > 0
  BY <1>2, Holders DEF ItemHolders
<1> QED BY <1>1, <1>3, <1>4, P1Facts, Holders DEF HoldersMatch

(* insert_cbuffer_t and up(&mtx). *)
LEMMA P1InsertStep ==
  ASSUME P1Inv, NEW p \in Procs, P1Insert(p)
  PROVE  P1Inv' /\ [P1Queue!Next]_(P1Queue!vars)
<1>1. /\ pc[p] = "mtx" /\ call[p] = "write" /\ loaded /\ mtx' = NoProc
      /\ cbuf' = ptr_insert(cbuf, item[p][1])
      /\ item' = [item EXCEPT ![p] = << >>]
      /\ ret' = [ret EXCEPT ![p] = Result("none", item[p])]
      /\ pc' = [pc EXCEPT ![p] = "up"]
      /\ UNCHANGED <<loaded, call, heap, lost, sem>>
  BY P1Facts DEF P1Insert, InMtx, UpMtx, Goto
<1>2. item[p] # << >> BY <1>1, P1Facts DEF P1Call
<1>3. item[p][1] \in Item /\ item[p] = <<item[p][1]>> /\ item[p] \in Items
  BY <1>2, P1Facts, OneBlock
<1>4. cbuf.size < MAX_ITEMS_CBUF
  BY <1>1, PermitIsGood DEF HoldsGap
<1>5. cbuf' \in Buffers /\ cbuf'.size = cbuf.size + 1
  BY <1>1, <1>3, <1>4, P1Facts, InsertAppends
<1>6. /\ PCTypes' /\ LocalStep(p) /\ pc'[p] = "up" /\ call'[p] = "write"
      /\ item'[p] = << >> /\ ret'[p] = Result("none", item[p])
  <2>1. call[p] \in {"none", "write", "read"} /\ "up" \in Labels
        /\ call' = [call EXCEPT ![p] = call[p]]
    BY <1>1, P1Facts DEF Labels, PCTypes
  <2>2. /\ LocalStep(p) /\ pc'[p] = "up" /\ call'[p] = call[p]
        /\ item'[p] = << >> /\ ret'[p] = Result("none", item[p])
        /\ pc' \in [Procs -> Labels] /\ item' \in [Procs -> Items]
        /\ call' \in [Procs -> {"none", "write", "read"}]
        /\ ret' \in [Procs -> [code : {"none", "OK"}, data : Items]]
    BY <1>1, <1>3, <2>1, P1Facts, NoBlocks, Moves
  <2> QED BY <1>1, <1>5, <2>2, P1Facts DEF PCTypes
<1>7. /\ P1Call(p)' /\ ~ HoldsGap(p)' /\ HoldsItem(p)' /\ HoldsGap(p) /\ ~ HoldsItem(p)
  BY <1>1, <1>2, <1>6 DEF P1Call, HoldsGap, HoldsItem, Result
<1>8. InHands' + Count(item[p] # << >>) = InHands + Count(item'[p] # << >>)
  <2>1. \A h, s, l \in Int : (h - (2 + (s + 1) + l)) + 1 = (h - (2 + s + l)) + 0
    OBVIOUS
  <2>2. Count(item[p] # << >>) = 1 /\ Count(item'[p] # << >>) = 0
        /\ heap \in Int /\ cbuf.size \in Int /\ lost \in Int
    BY <1>2, <1>6, P1Facts DEF Count
  <2>3. heap' = heap /\ cbuf'.size = cbuf.size + 1 /\ lost' = lost BY <1>1, <1>5
  <2> DEFINE h == heap  s == cbuf.size  l == lost
  <2>4. h \in Int /\ s \in Int /\ l \in Int BY <2>2
  <2>5. InHands = h - (2 + s + l) /\ InHands' = h - (2 + (s + 1) + l)
    BY <2>3 DEF InHands
  <2> HIDE DEF h, s, l
  <2>6. InHands' + 1 = InHands + 0 BY <2>1, <2>2, <2>4, <2>5
  <2> QED BY <2>2, <2>6
<1>9. P1Inv'
  <2>1. sem' \in [huecos : Nat, elementos : Nat] BY <1>1 DEF P1Inv
  <2>2. /\ Count(HoldsGap(p)) = 1 /\ Count(HoldsItem(p)) = 0
        /\ Count(HoldsGap(p)') = 0 /\ Count(HoldsItem(p)') = 1
    BY <1>7 DEF Count
  <2>3. /\ sem'.huecos + Count(HoldsGap(p)') + cbuf'.size
             = sem.huecos + Count(HoldsGap(p)) + cbuf.size
        /\ sem'.elementos + Count(HoldsItem(p)') + cbuf.size
             = sem.elementos + Count(HoldsItem(p)) + cbuf'.size
    <3>1. \A g, s \in Int : g + 0 + (s + 1) = g + 1 + s OBVIOUS
    <3>0. /\ sem' = sem /\ cbuf.size \in Int
          /\ sem.huecos \in Int /\ sem.elementos \in Int
      BY <1>1, P1Facts
    <3>2. sem'.huecos + 0 + (cbuf.size + 1) = sem.huecos + 1 + cbuf.size
      BY <3>0, <3>1, Zenon
    <3>3. sem.elementos + 0 + (cbuf.size + 1) = sem'.elementos + 1 + cbuf.size
      BY <3>0, <3>1, Zenon
    <3> QED BY <1>5, <2>2, <3>2, <3>3
  <2> QED BY <1>6, <1>7, <1>8, <2>1, <2>3, P1Keeps
<1>10. P1Queue!Next BY <1>1, <1>3, <1>4, P1Facts, QueuePut
<1> QED BY <1>9, <1>10

(* head_cbuffer_t, remove_cbuffer_t and up(&mtx). *)
LEMMA P1RemoveStep ==
  ASSUME P1Inv, NEW p \in Procs, P1Remove(p)
  PROVE  P1Inv' /\ [P1Queue!Next]_(P1Queue!vars)
<1>1. pc[p] = "mtx" /\ call[p] = "read" /\ loaded
  BY P1Facts DEF P1Remove, InMtx
<1>2. cbuf.size > 0 BY <1>1, PermitIsGood DEF HoldsItem
<1> DEFINE x == cbuf.data[cbuf.head]
<1>3. /\ mtx' = NoProc /\ cbuf' = ptr_remove(cbuf)
      /\ item' = [item EXCEPT ![p] = <<x>>]
      /\ ret' = [ret EXCEPT ![p] = Result("none", <<x>>)]
      /\ pc' = [pc EXCEPT ![p] = "up"]
      /\ UNCHANGED <<loaded, call, heap, lost, sem>>
  <2>1. ptr_head(cbuf) = {x} BY <1>2, P1Facts DEF ptr_head
  <2> QED BY <2>1 DEF P1Remove, UpMtx, Goto
<1>4. /\ x \in Item /\ cbuf' \in Buffers /\ cbuf'.size = cbuf.size - 1
  BY <1>2, <1>3, P1Facts, RemoveTakesFirst
<1>5. <<x>> \in Items /\ <<x>> # << >> BY <1>4 DEF Items
<1>6. item[p] = << >> BY <1>1, P1Facts DEF P1Call
<1> HIDE DEF x
<1>7. /\ PCTypes' /\ LocalStep(p) /\ pc'[p] = "up" /\ call'[p] = "read"
      /\ item'[p] = <<x>> /\ ret'[p] = Result("none", <<x>>)
  <2>1. call[p] \in {"none", "write", "read"} /\ "up" \in Labels
        /\ call' = [call EXCEPT ![p] = call[p]]
    BY <1>1, <1>3, P1Facts DEF Labels, PCTypes
  <2>2. /\ LocalStep(p) /\ pc'[p] = "up" /\ call'[p] = call[p]
        /\ item'[p] = <<x>> /\ ret'[p] = Result("none", <<x>>)
        /\ pc' \in [Procs -> Labels] /\ item' \in [Procs -> Items]
        /\ call' \in [Procs -> {"none", "write", "read"}]
        /\ ret' \in [Procs -> [code : {"none", "OK"}, data : Items]]
    <3> DEFINE l == "up"  c == call[p]  i == <<x>>  r == "none"
    <3>1. /\ PCTypes /\ loaded /\ loaded' = loaded
          /\ l \in Labels /\ c \in {"none", "write", "read"}
          /\ i \in Items /\ r \in {"none", "OK"}
          /\ pc' = [pc EXCEPT ![p] = l] /\ call' = [call EXCEPT ![p] = c]
          /\ item' = [item EXCEPT ![p] = i] /\ ret' = [ret EXCEPT ![p] = Result(r, i)]
      BY <1>1, <1>3, <1>5, <2>1, P1Facts
    <3> HIDE DEF l, c, i, r
    <3>2. /\ LocalStep(p)
          /\ pc'[p] = l /\ call'[p] = c /\ item'[p] = i /\ ret'[p] = Result(r, i)
          /\ pc' \in [Procs -> Labels] /\ item' \in [Procs -> Items]
          /\ call' \in [Procs -> {"none", "write", "read"}]
          /\ ret' \in [Procs -> [code : {"none", "OK"}, data : Items]]
      BY <3>1, Moves
    <3> QED BY <3>2, Zenon DEF l, c, i, r
  <2> QED BY <1>1, <1>3, <1>4, <2>2, P1Facts DEF PCTypes
<1>8. /\ P1Call(p)' /\ HoldsGap(p)' /\ ~ HoldsItem(p)' /\ ~ HoldsGap(p) /\ HoldsItem(p)
  BY <1>1, <1>5, <1>7 DEF P1Call, HoldsGap, HoldsItem, Result
<1>9. InHands' + Count(item[p] # << >>) = InHands + Count(item'[p] # << >>)
  <2>1. \A h, s, l \in Int : (h - (2 + (s - 1) + l)) + 0 = (h - (2 + s + l)) + 1
    OBVIOUS
  <2>2. Count(item[p] # << >>) = 0 /\ Count(item'[p] # << >>) = 1
        /\ heap \in Int /\ cbuf.size \in Int /\ lost \in Int
    BY <1>5, <1>6, <1>7, P1Facts DEF Count
  <2>3. heap' = heap /\ cbuf'.size = cbuf.size - 1 /\ lost' = lost BY <1>3, <1>4
  <2> DEFINE h == heap  s == cbuf.size  l == lost
  <2>4. h \in Int /\ s \in Int /\ l \in Int BY <2>2
  <2>5. InHands = h - (2 + s + l) /\ InHands' = h - (2 + (s - 1) + l)
    BY <2>3 DEF InHands
  <2> HIDE DEF h, s, l
  <2>6. InHands' + 0 = InHands + 1 BY <2>1, <2>2, <2>4, <2>5
  <2> QED BY <2>2, <2>6
<1>10. P1Inv'
  <2>1. sem' \in [huecos : Nat, elementos : Nat] BY <1>3 DEF P1Inv
  <2>2. /\ Count(HoldsGap(p)) = 0 /\ Count(HoldsItem(p)) = 1
        /\ Count(HoldsGap(p)') = 1 /\ Count(HoldsItem(p)') = 0
    BY <1>8 DEF Count
  <2>3. /\ sem'.huecos + Count(HoldsGap(p)') + cbuf'.size
             = sem.huecos + Count(HoldsGap(p)) + cbuf.size
        /\ sem'.elementos + Count(HoldsItem(p)') + cbuf.size
             = sem.elementos + Count(HoldsItem(p)) + cbuf'.size
    <3>1. \A g, s \in Int : g + 1 + (s - 1) = g + 0 + s OBVIOUS
    <3>2. sem'.huecos + 1 + (cbuf.size - 1) = sem.huecos + 0 + cbuf.size
      BY <1>3, <3>1, P1Facts
    <3>3. sem.elementos + 1 + (cbuf.size - 1) = sem'.elementos + 0 + cbuf.size
      BY <1>3, <3>1, P1Facts
    <3> QED BY <1>4, <2>2, <3>2, <3>3
  <2> QED BY <1>7, <1>8, <1>9, <2>1, <2>3, P1Keeps
<1>11. P1Queue!Next BY <1>2, <1>3, P1Facts, QueueTake DEF x
<1> QED BY <1>10, <1>11

(* The up of the other semaphore, vfree and return. *)
LEMMA P1FinishStep ==
  ASSUME P1Inv, NEW p \in Procs, P1Finish(p)
  PROVE  P1Inv' /\ [P1Queue!Next]_(P1Queue!vars)
<1>1. /\ pc[p] = "up" /\ loaded /\ Return(p, "OK", ret[p].data, TRUE)
      /\ sem' = [sem EXCEPT ![Gives(p)] = @ + 1]
      /\ UNCHANGED <<loaded, cbuf, mtx, lost>>
  BY P1Facts DEF P1Finish, Up
<1>2. ret[p].data \in Items /\ ret[p].data # << >>
  BY <1>1, P1Facts DEF PCTypes, P1Call
<1>3. /\ PCTypes' /\ LocalStep(p) /\ pc'[p] = "user" /\ call'[p] = "none"
      /\ item'[p] = << >> /\ heap' = heap - Count(item[p] # << >>)
  <2>1. cbuf' \in Buffers /\ lost' \in 0 .. MaxLost /\ mtx' \in Procs \cup {NoProc}
    BY <1>1 DEF P1Inv, PCTypes
  <2> QED BY <1>1, <1>2, <2>1, P1Facts, ReturnMoves
<1>4. call[p] \in {"write", "read"} BY <1>1, P1Facts DEF P1Call, PCTypes
<1>5. /\ P1Call(p)' /\ ~ HoldsGap(p)' /\ ~ HoldsItem(p)'
      /\ HoldsGap(p) <=> call[p] = "read"
      /\ HoldsItem(p) <=> call[p] = "write"
  BY <1>1, <1>3 DEF P1Call, HoldsGap, HoldsItem
<1>6. InHands' + Count(item[p] # << >>) = InHands + Count(item'[p] # << >>)
  <2>1. \A h, n, s, l \in Int : ((h - n) - (2 + s + l)) + n = (h - (2 + s + l)) + 0
    OBVIOUS
  <2>2. Count(item[p] # << >>) \in Int /\ Count(item'[p] # << >>) = 0
        /\ cbuf.size \in Int /\ lost \in Int
    BY <1>3, P1Facts DEF Count
  <2> QED BY <1>1, <1>3, <2>1, <2>2, P1Facts DEF InHands
<1>7. /\ sem' \in [huecos : Nat, elementos : Nat]
      /\ sem'.huecos + Count(HoldsGap(p)') = sem.huecos + Count(HoldsGap(p))
      /\ sem'.elementos + Count(HoldsItem(p)') = sem.elementos + Count(HoldsItem(p))
  <2>0. sem \in [huecos : Nat, elementos : Nat] BY DEF P1Inv
  <2>1. CASE call[p] = "read"
    <3>1. /\ Gives(p) = "huecos" /\ sem'.huecos = sem.huecos + 1
          /\ sem'.elementos = sem.elementos /\ sem.huecos + 1 \in Nat
      BY <1>1, <2>0, <2>1 DEF Gives
    <3>2. sem' \in [huecos : Nat, elementos : Nat] BY <1>1, <2>0, <3>1
    <3> QED BY <1>5, <2>1, <3>1, <3>2, P1Facts DEF Count
  <2>2. CASE call[p] = "write"
    <3>1. /\ Gives(p) = "elementos" /\ sem'.elementos = sem.elementos + 1
          /\ sem'.huecos = sem.huecos /\ sem.elementos + 1 \in Nat
      BY <1>1, <2>0, <2>2 DEF Gives
    <3>2. sem' \in [huecos : Nat, elementos : Nat] BY <1>1, <2>0, <3>1
    <3> QED BY <1>5, <2>2, <3>1, <3>2, P1Facts DEF Count
  <2> QED BY <1>4, <2>1, <2>2
<1>8. P1Inv' BY <1>1, <1>3, <1>5, <1>6, <1>7, P1Keeps
<1>9. P1Queue!Next BY <1>1, <1>2, QueueDone DEF Return
<1> QED BY <1>8, <1>9

LEMMA P1LoadStep ==
  ASSUME P1Inv, P1Load
  PROVE  P1Inv' /\ [P1Queue!Next]_(P1Queue!vars)
<1>1. /\ InitModule /\ sem' = [huecos |-> MAX_ITEMS_CBUF, elementos |-> 0]
      /\ UNCHANGED <<call, pc, item, ret>>
  BY DEF P1Load, InitModule
<1>2. /\ PCTypes' /\ OutOfUse' /\ MemoryAccounted'
      /\ \A p \in Procs : pc[p] = "user"
      /\ cbuf'.size = 0 /\ PtrContents(cbuf') = PtrContents(cbuf)
  BY <1>1, LoadPC DEF P1Inv
<1>3. sem' \in [huecos : Nat, elementos : Nat]
  BY <1>1, ProdConsAssumption
<1>4. \A p \in Procs : P1Call(p)' BY <1>1 DEF P1Inv, P1Call
<1>5. PermitsMatchBuffer'
  <2>1. \A c : Granted(c)' = {} /\ Untold(c)' = {}
    BY <1>1, <1>2 DEF Granted, Untold
  <2>2. MAX_ITEMS_CBUF + 0 + 0 = MAX_ITEMS_CBUF - 0 /\ 0 + 0 + 0 = 0
    BY ProdConsAssumption
  <2> QED BY <1>1, <1>2, <2>1, <2>2, FS_EmptySet DEF PermitsMatchBuffer
<1>6. P1Inv' BY <1>2, <1>3, <1>4, <1>5 DEF P1Inv
<1> QED BY <1>1, <1>2, <1>6, QueueStutter

LEMMA P1UnloadStep ==
  ASSUME P1Inv, P1Unload
  PROVE  P1Inv' /\ [P1Queue!Next]_(P1Queue!vars)
<1>1. ExitModule /\ UNCHANGED <<sem, call, pc, item, ret>>
  BY DEF P1Unload, ExitModule
<1>2. /\ PCTypes' /\ OutOfUse' /\ MemoryAccounted'
      /\ ~ loaded' /\ PtrContents(cbuf') = << >>
  BY <1>1, UnloadPC DEF P1Inv
<1>3. \A p \in Procs : P1Call(p)' BY <1>1 DEF P1Inv, P1Call
<1>4. P1Inv' BY <1>1, <1>2, <1>3 DEF P1Inv, PermitsMatchBuffer
<1> QED BY <1>1, <1>2, <1>4, QueueUnload

LEMMA P1Starts == P1Init => P1Inv /\ P1Queue!Init
<1> SUFFICES ASSUME P1Init PROVE P1Inv /\ P1Queue!Init
  OBVIOUS
<1>1. PCTypes /\ OutOfUse /\ MemoryAccounted /\ P1Queue!Init
  BY InitPC, QueueInit DEF P1Init
<1>2. sem \in [huecos : Nat, elementos : Nat]
  BY ProdConsAssumption DEF P1Init
<1>3. \A p \in Procs : P1Call(p) BY DEF P1Init, PCInit, P1Call
<1>4. PermitsMatchBuffer BY DEF P1Init, PCInit, PermitsMatchBuffer
<1> QED BY <1>1, <1>2, <1>3, <1>4 DEF P1Inv

LEMMA P1Step ==
  P1Inv /\ [P1Next]_p1Vars => P1Inv' /\ [P1Queue!Next]_(P1Queue!vars)
<1> SUFFICES ASSUME P1Inv, [P1Next]_p1Vars
             PROVE  P1Inv' /\ [P1Queue!Next]_(P1Queue!vars)
  OBVIOUS
<1>1. CASE P1Load BY <1>1, P1LoadStep
<1>2. CASE P1Unload BY <1>2, P1UnloadStep
<1>3. ASSUME NEW p \in Procs, P1Write(p) \/ P1Read(p)
      PROVE  P1Inv' /\ [P1Queue!Next]_(P1Queue!vars)
  BY <1>3, P1StartStep
<1>4. ASSUME NEW p \in Procs, P1Down(p) \/ P1InterruptSem(p)
      PROVE  P1Inv' /\ [P1Queue!Next]_(P1Queue!vars)
  BY <1>4, P1DownStep, P1InterruptSemStep
<1>5. ASSUME NEW p \in Procs, P1Acquire(p) \/ P1InterruptMtx(p)
      PROVE  P1Inv' /\ [P1Queue!Next]_(P1Queue!vars)
  BY <1>5, P1AcquireStep, P1InterruptMtxStep
<1>6. ASSUME NEW p \in Procs, P1Section(p) \/ P1Finish(p)
      PROVE  P1Inv' /\ [P1Queue!Next]_(P1Queue!vars)
  BY <1>6, P1InsertStep, P1RemoveStep, P1FinishStep DEF P1Section
<1>7. CASE UNCHANGED p1Vars
  <2>1. UNCHANGED <<loaded, cbuf, mtx, call, pc, item, ret, heap, lost, sem>>
    BY <1>7 DEF p1Vars, pcVars
  <2>2. P1Inv'
    BY <2>1 DEF P1Inv, PCTypes, OutOfUse, MemoryAccounted, P1Call,
                PermitsMatchBuffer, Granted, Untold
  <2> QED BY <2>1, <2>2, QueueStutter
<1> QED
  BY <1>1, <1>2, <1>3, <1>4, <1>5, <1>6, <1>7 DEF P1Next

-----------------------------------------------------------------------------
(* The second version *)

P2Types ==
  /\ queue \in [Kind -> Nat] /\ nr_waiting \in [Kind -> Int]
  /\ swallowed \in [Kind -> Nat]

P2Call(p) ==
  /\ pc[p] \in {"user", "mtx", "cond", "redown", "intr"}
  /\ pc[p] = "user" <=> call[p] = "none"
  /\ item[p] # << >> <=> call[p] = "write"

(* Both statements about the waiters are inductive with the types. *)
P2Inv ==
  /\ PCTypes /\ OutOfUse /\ MemoryAccounted
  /\ P2Types /\ (\A p \in Procs : P2Call(p))
  /\ WaitersAccounted /\ WakeUpForEachGap

Waits(p, c) == pc[p] \in {"cond", "intr"} /\ call[p] = c
IsWoken(p, c) == pc[p] = "redown" /\ call[p] = c

(* The wake-ups for c: those on their way and those that were swallowed,   *)
(* with all processes and with p alone.                                    *)
OnTheirWay(c) == queue[c] + Cardinality(Woken(c)) + swallowed[c]
Due(p, c) == queue[c] + Count(IsWoken(p, c)) + swallowed[c]

LEMMA P2Facts ==
  ASSUME P2Inv, NEW p \in Procs
  PROVE  /\ PCTypes /\ P2Types /\ P2Call(p) /\ item[p] \in Items
         /\ pc[p] # "user" => loaded
         /\ cbuf \in Buffers /\ cbuf.size \in Nat /\ lost \in Nat /\ heap \in Int
         /\ cbuf.size <= MAX_ITEMS_CBUF /\ MAX_ITEMS_CBUF \in Nat
         /\ cbuf.max_size = MAX_ITEMS_CBUF /\ InHands \in Int
         /\ \A c \in Kind : /\ queue[c] \in Nat /\ nr_waiting[c] \in Int
                            /\ swallowed[c] \in Nat /\ Available(c) \in Nat
                            /\ Due(p, c) \in Nat
<1>1. PCTypes /\ P2Types BY DEF P2Inv
<1>2. /\ cbuf \in Buffers /\ cbuf.size \in Nat /\ lost \in Nat /\ heap \in Int
      /\ cbuf.size <= MAX_ITEMS_CBUF /\ MAX_ITEMS_CBUF \in Nat
      /\ cbuf.max_size = MAX_ITEMS_CBUF
  BY <1>1, BufferFields, ProdConsAssumption DEF PCTypes
<1>3. InHands \in Int BY <1>2 DEF InHands
<1>4. item[p] \in Items BY <1>1 DEF PCTypes
<1>5. \A c \in Kind : queue[c] \in Nat /\ nr_waiting[c] \in Int /\ swallowed[c] \in Nat
  BY <1>1 DEF P2Types
<1>6. \A c \in Kind : Available(c) \in Nat BY <1>2 DEF Available
<1>7. \A c \in Kind : Due(p, c) \in Nat BY <1>5 DEF Due, Count
<1> QED BY <1>1, <1>2, <1>3, <1>4, <1>5, <1>6, <1>7 DEF P2Inv, OutOfUse

LEMMA WaitersStep ==
  ASSUME NEW p \in Procs, LocalStep(p), NEW c \in Kind
  PROVE  /\ Cardinality(P2Waiting(c)') = Cardinality(P2Waiting(c))
                + Count(Waits(p, c)') - Count(Waits(p, c))
         /\ Cardinality(Woken(c)') = Cardinality(Woken(c))
                + Count(IsWoken(p, c)') - Count(IsWoken(p, c))
         /\ Cardinality(P2Waiting(c)) \in Nat /\ Cardinality(P2Waiting(c)') \in Nat
         /\ Cardinality(Woken(c)) \in Nat /\ Cardinality(Woken(c)') \in Nat
<1>1. IsFiniteSet(P2Waiting(c)) /\ IsFiniteSet(Woken(c))
  BY KernelAssumption, FS_Subset DEF P2Waiting, Woken
<1>2. P2Waiting(c) \ {p} = P2Waiting(c)' \ {p} /\ Woken(c) \ {p} = Woken(c)' \ {p}
  BY DEF LocalStep, P2Waiting, Woken
<1>3. /\ (p \in P2Waiting(c) <=> Waits(p, c)) /\ (p \in P2Waiting(c)' <=> Waits(p, c)')
      /\ (p \in Woken(c) <=> IsWoken(p, c)) /\ (p \in Woken(c)' <=> IsWoken(p, c)')
  BY DEF P2Waiting, Woken, Waits, IsWoken
<1>4. /\ Count(p \in P2Waiting(c)) = Count(Waits(p, c))
      /\ Count(p \in P2Waiting(c)') = Count(Waits(p, c)')
      /\ Count(p \in Woken(c)) = Count(IsWoken(p, c))
      /\ Count(p \in Woken(c)') = Count(IsWoken(p, c)')
  BY <1>3 DEF Count
<1>5. /\ Cardinality(P2Waiting(c)) \in Nat /\ Cardinality(P2Waiting(c)') \in Nat
      /\ Cardinality(P2Waiting(c)') = Cardinality(P2Waiting(c))
            + Count(p \in P2Waiting(c)') - Count(p \in P2Waiting(c))
  BY <1>1, <1>2, CardinalityStep
<1>6. /\ Cardinality(Woken(c)) \in Nat /\ Cardinality(Woken(c)') \in Nat
      /\ Cardinality(Woken(c)') = Cardinality(Woken(c))
            + Count(p \in Woken(c)') - Count(p \in Woken(c))
  BY <1>1, <1>2, CardinalityStep
<1> QED BY <1>4, <1>5, <1>6

(* A step of p keeps both statements when, for each kind of waiter, what   *)
(* it adds to the counts it is itself, and every gap it makes (or finds,   *)
(* going to sleep) comes with a wake-up, or nobody sleeps.                 *)
LEMMA P2Keeps ==
  ASSUME P2Inv, PCTypes', P2Types', NEW p \in Procs, LocalStep(p), P2Call(p)',
         InHands' + Count(item[p] # << >>) = InHands + Count(item'[p] # << >>),
         \A c \in Kind :
           /\ nr_waiting'[c] + queue'[c] + Count(Waits(p, c))
                = nr_waiting[c] + queue[c] + Count(Waits(p, c)')
           /\ nr_waiting'[c] > 0 =>
                \/ Available(c)' = 0
                \/ /\ nr_waiting[c] > 0
                   /\ Available(c)' + Due(p, c) <= Available(c) + Due(p, c)'
  PROVE  P2Inv'
<1>1. PCTypes /\ MemoryAccounted /\ loaded /\ loaded' BY DEF P2Inv, LocalStep
<1>2. MemoryAccounted' BY <1>1, MemoryStep
<1>3. \A q \in Procs : P2Call(q)' BY DEF P2Inv, LocalStep, P2Call
<1>4. ASSUME NEW c \in Kind
      PROVE  /\ nr_waiting'[c] + queue'[c] = Cardinality(P2Waiting(c)')
             /\ nr_waiting'[c] > 0 => Available(c)' <= OnTheirWay(c)'
  <2>1. /\ queue[c] \in Nat /\ nr_waiting[c] \in Int /\ swallowed[c] \in Nat
        /\ queue'[c] \in Nat /\ nr_waiting'[c] \in Int /\ swallowed'[c] \in Nat
    BY P2Facts DEF P2Types
  <2>2. /\ nr_waiting[c] + queue[c] = Cardinality(P2Waiting(c))
        /\ nr_waiting[c] > 0 => Available(c) <= OnTheirWay(c)
    BY <1>1 DEF P2Inv, WaitersAccounted, WakeUpForEachGap, OnTheirWay
  <2>3. nr_waiting'[c] + queue'[c] = Cardinality(P2Waiting(c)')
    <3> DEFINE a == Count(Waits(p, c))
               b == Count(Waits(p, c)')
               m == Cardinality(P2Waiting(c))
               n == Cardinality(P2Waiting(c)')
               s == nr_waiting[c] + queue[c]
               t == nr_waiting'[c] + queue'[c]
    <3>1. /\ a \in Nat /\ b \in Nat /\ m \in Nat /\ n \in Nat
          /\ s \in Int /\ t \in Int
      <4>1. a \in Nat /\ b \in Nat BY DEF Count
      <4>2. m \in Nat /\ n \in Nat BY WaitersStep
      <4>3. s \in Int /\ t \in Int BY <2>1
      <4> QED BY <4>1, <4>2, <4>3
    <3>2. n = m + b - a /\ s = m /\ t + a = s + b BY <2>2, WaitersStep
    <3> HIDE DEF a, b, m, n, s, t
    <3>3. t = n BY <3>1, <3>2
    <3> QED BY <3>3 DEF t, n
  <2>4. /\ OnTheirWay(c)' + Due(p, c) = OnTheirWay(c) + Due(p, c)'
        /\ OnTheirWay(c) \in Nat /\ OnTheirWay(c)' \in Nat
        /\ Due(p, c) \in Nat /\ Due(p, c)' \in Nat
    <3> DEFINE a == Count(IsWoken(p, c))
               b == Count(IsWoken(p, c)')
               m == Cardinality(Woken(c))
               n == Cardinality(Woken(c)')
               q == queue[c]
               r == queue'[c]
               s == swallowed[c]
               t == swallowed'[c]
    <3>1. /\ a \in Nat /\ b \in Nat /\ m \in Nat /\ n \in Nat
          /\ q \in Nat /\ r \in Nat /\ s \in Nat /\ t \in Nat
      BY <2>1, WaitersStep DEF Count
    <3>2. n = m + b - a BY WaitersStep
    <3>3. /\ OnTheirWay(c)' = r + n + t /\ Due(p, c) = q + a + s
          /\ OnTheirWay(c) = q + m + s /\ Due(p, c)' = r + b + t
      BY DEF OnTheirWay, Due
    <3> HIDE DEF a, b, m, n, q, r, s, t
    <3>4. (r + n + t) + (q + a + s) = (q + m + s) + (r + b + t)
      BY <3>1, <3>2
    <3> QED BY <3>1, <3>3, <3>4
  <2>5. Available(c) \in Nat /\ Available(c)' \in Nat
    <3>1. Available(c) \in Nat BY P2Facts
    <3>2. /\ cbuf'.size \in Nat /\ cbuf'.size <= MAX_ITEMS_CBUF /\ MAX_ITEMS_CBUF \in Nat
      BY BufferFields, ProdConsAssumption DEF PCTypes
    <3> QED BY <3>1, <3>2 DEF Available
  <2>6. nr_waiting'[c] > 0 => Available(c)' <= OnTheirWay(c)'
    <3> DEFINE v == Available(c)
               w == Available(c)'
               d == Due(p, c)
               e == Due(p, c)'
               m == OnTheirWay(c)
               n == OnTheirWay(c)'
    <3>1. nr_waiting'[c] > 0 => w = 0 \/ (v <= m /\ w + d <= v + e)
      BY <2>2
    <3>2. n + d = m + e /\ v \in Nat /\ w \in Nat /\ d \in Nat /\ e \in Nat
          /\ m \in Nat /\ n \in Nat
      BY <2>4, <2>5
    <3> HIDE DEF v, w, d, e, m, n
    <3>3. w = 0 \/ (v <= m /\ w + d <= v + e) => w <= n BY <3>2
    <3> QED BY <3>1, <3>3 DEF w, n
  <2> QED BY <2>3, <2>6
<1>5. WaitersAccounted' /\ WakeUpForEachGap'
  BY <1>4 DEF WaitersAccounted, WakeUpForEachGap, OnTheirWay
<1> QED BY <1>1, <1>2, <1>3, <1>5 DEF P2Inv, OutOfUse

(* A step that touches neither the queues nor the buffer. *)
LEMMA P2KeepsWaiters ==
  ASSUME P2Inv, PCTypes', NEW p \in Procs, LocalStep(p),
         UNCHANGED <<cbuf, queue, nr_waiting, swallowed>>, P2Call(p)',
         InHands' + Count(item[p] # << >>) = InHands + Count(item'[p] # << >>),
         \A c \in Kind : /\ (Waits(p, c)' <=> Waits(p, c))
                        /\ (IsWoken(p, c)' <=> IsWoken(p, c))
  PROVE  P2Inv'
<1>1. P2Types' BY DEF P2Inv, P2Types
<1>2. ASSUME NEW c \in Kind
      PROVE  /\ nr_waiting'[c] + queue'[c] + Count(Waits(p, c))
                  = nr_waiting[c] + queue[c] + Count(Waits(p, c)')
             /\ nr_waiting'[c] > 0 =>
                  /\ nr_waiting[c] > 0
                  /\ Available(c)' + Due(p, c) <= Available(c) + Due(p, c)'
  <2>1. /\ Count(Waits(p, c)') = Count(Waits(p, c))
        /\ Count(IsWoken(p, c)') = Count(IsWoken(p, c))
    <3>1. (Waits(p, c)' <=> Waits(p, c)) /\ (IsWoken(p, c)' <=> IsWoken(p, c))
      OBVIOUS
    <3> QED BY <3>1 DEF Count
  <2>2. Due(p, c)' = Due(p, c) /\ Available(c)' = Available(c)
    BY <2>1 DEF Due, Available
  <2>3. Due(p, c) \in Nat /\ Available(c) \in Nat BY P2Facts
  <2> QED BY <2>1, <2>2, <2>3
<1> QED BY <1>1, <1>2, P2Keeps

LEMMA P2StartStep ==
  ASSUME P2Inv, NEW p \in Procs, P2Write(p) \/ P2Read(p)
  PROVE  P2Inv' /\ [P1Queue!Next]_(P1Queue!vars)
<1>1. /\ loaded /\ pc[p] = "user" /\ item[p] = << >> /\ call[p] = "none"
      /\ UNCHANGED <<loaded, cbuf, mtx, lost, queue, nr_waiting, swallowed>>
  BY P2Facts DEF P2Write, P2Read, WriteStart, ReadStart, P2Call
<1>2. cbuf' \in Buffers /\ lost' \in 0 .. MaxLost /\ mtx' \in Procs \cup {NoProc}
  BY <1>1 DEF P2Inv, PCTypes
<1>3. CASE Return(p, "none", << >>, FALSE)
  <2>1. /\ PCTypes' /\ LocalStep(p) /\ pc'[p] = "user" /\ call'[p] = "none"
        /\ item'[p] = << >> /\ heap' = heap
    BY <1>1, <1>2, <1>3, P2Facts, NoBlocks, ReturnMoves
  <2>2. P2Call(p)' /\ \A c \in Kind : /\ (Waits(p, c)' <=> Waits(p, c))
                                      /\ (IsWoken(p, c)' <=> IsWoken(p, c))
    BY <1>1, <2>1 DEF P2Call, Waits, IsWoken
  <2>3. InHands' = InHands BY <1>1, <2>1 DEF InHands
  <2>4. P2Inv' BY <1>1, <2>1, <2>2, <2>3, P2KeepsWaiters
  <2> QED BY <1>1, <1>3, <2>4, QueueIdle DEF Return
<1>4. ASSUME NEW c \in {"write", "read"}, NEW i \in Items,
             c = "write" <=> i # << >>, Enter(p, c, "mtx", i)
      PROVE  P2Inv' /\ [P1Queue!Next]_(P1Queue!vars)
  <2>1. /\ PCTypes' /\ LocalStep(p) /\ pc'[p] = "mtx" /\ call'[p] = c
        /\ item'[p] = i /\ heap' = heap + Count(i # << >>)
    <3>1. "mtx" \in Labels BY DEF Labels
    <3> QED BY <1>1, <1>4, <3>1, P2Facts, EnterMoves
  <2>2. P2Call(p)' /\ \A d \in Kind : /\ (Waits(p, d)' <=> Waits(p, d))
                                      /\ (IsWoken(p, d)' <=> IsWoken(p, d))
    BY <1>1, <1>4, <2>1 DEF P2Call, Waits, IsWoken
  <2>3. InHands' + Count(item[p] # << >>) = InHands + Count(item'[p] # << >>)
    <3>1. InHands' = InHands + Count(i # << >>)
      <4>1. Count(i # << >>) \in Int BY DEF Count
      <4>2. \A h, n, k \in Int : (h + n) - k = (h - k) + n OBVIOUS
      <4>3. 2 + cbuf.size + lost \in Int BY P2Facts
      <4> QED BY <1>1, <2>1, <4>1, <4>2, <4>3, P2Facts DEF InHands
    <3> QED BY <1>1, <2>1, <3>1, P2Facts DEF Count
  <2>4. P2Inv' BY <1>1, <2>1, <2>2, <2>3, P2KeepsWaiters
  <2> QED BY <1>1, <1>4, <2>4, QueueIdle DEF Enter
<1>5. \A x \in Item : <<x>> \in Items /\ <<x>> # << >> BY DEF Items
<1> QED
  BY <1>3, <1>4, <1>5, NoBlocks DEF P2Write, P2Read, WriteStart, ReadStart

LEMMA P2AcquireStep ==
  ASSUME P2Inv, NEW p \in Procs, P2Acquire(p)
  PROVE  P2Inv' /\ [P1Queue!Next]_(P1Queue!vars)
<1>1. /\ pc[p] \in {"mtx", "redown", "intr"} /\ loaded /\ mtx' = p
      /\ UNCHANGED <<loaded, cbuf, call, pc, item, ret, heap, lost>>
      /\ UNCHANGED <<queue, nr_waiting, swallowed>>
  BY P2Facts DEF P2Acquire, AcquireMtx
<1>2. PCTypes' /\ LocalStep(p)
  BY <1>1, P2Facts DEF PCTypes, LocalStep
<1>3. /\ P2Call(p)' /\ InHands' = InHands /\ item'[p] = item[p]
      /\ \A c \in Kind : /\ (Waits(p, c)' <=> Waits(p, c))
                         /\ (IsWoken(p, c)' <=> IsWoken(p, c))
  BY <1>1, P2Facts DEF P2Call, Waits, IsWoken, InHands
<1>4. P2Inv' BY <1>1, <1>2, <1>3, P2KeepsWaiters
<1> QED BY <1>1, <1>4, QueueStutter

(* A signal ends the wait: the process stays counted as one that waits. *)
LEMMA P2InterruptWaitStep ==
  ASSUME P2Inv, NEW p \in Procs, P2InterruptWait(p)
  PROVE  P2Inv' /\ [P1Queue!Next]_(P1Queue!vars)
<1>1. /\ pc[p] = "cond" /\ loaded /\ pc' = [pc EXCEPT ![p] = "intr"]
      /\ UNCHANGED <<loaded, cbuf, mtx, call, item, ret, heap, lost>>
      /\ UNCHANGED <<queue, nr_waiting, swallowed>>
  BY P2Facts DEF P2InterruptWait, Goto
<1>2. PCTypes' /\ LocalStep(p) /\ pc'[p] = "intr"
  BY <1>1, P2Facts DEF PCTypes, LocalStep, Labels
<1>3. /\ P2Call(p)' /\ InHands' = InHands /\ item'[p] = item[p]
      /\ \A c \in Kind : /\ (Waits(p, c)' <=> Waits(p, c))
                         /\ (IsWoken(p, c)' <=> IsWoken(p, c))
  BY <1>1, <1>2, P2Facts DEF P2Call, Waits, IsWoken, InHands
<1>4. P2Inv' BY <1>1, <1>2, <1>3, P2KeepsWaiters
<1> QED BY <1>1, <1>4, QueueStutter

(* A wake-up passes from the queue to p. *)
LEMMA P2WakeStep ==
  ASSUME P2Inv, NEW p \in Procs, P2Wake(p)
  PROVE  P2Inv' /\ [P1Queue!Next]_(P1Queue!vars)
<1>1. /\ pc[p] = "cond" /\ loaded /\ queue[call[p]] > 0
      /\ queue' = [queue EXCEPT ![call[p]] = @ - 1]
      /\ pc' = [pc EXCEPT ![p] = "redown"]
      /\ UNCHANGED <<loaded, cbuf, mtx, call, item, ret, heap, lost>>
      /\ UNCHANGED <<nr_waiting, swallowed>>
  BY P2Facts DEF P2Wake, Goto
<1>2. call[p] \in Kind BY <1>1, P2Facts DEF P2Call, PCTypes, Kind
<1>3. PCTypes' /\ LocalStep(p) /\ pc'[p] = "redown"
  BY <1>1, P2Facts DEF PCTypes, LocalStep, Labels
<1>4. P2Call(p)' /\ InHands' = InHands /\ item'[p] = item[p]
  BY <1>1, <1>3, P2Facts DEF P2Call, InHands
<1>5. P2Types'
  <2>1. queue[call[p]] - 1 \in Nat BY <1>1, <1>2, P2Facts
  <2> QED BY <1>1, <2>1, P2Facts DEF P2Types
<1>6. ASSUME NEW c \in Kind
      PROVE  /\ nr_waiting'[c] + queue'[c] + Count(Waits(p, c))
                  = nr_waiting[c] + queue[c] + Count(Waits(p, c)')
             /\ nr_waiting'[c] > 0 =>
                  /\ nr_waiting[c] > 0
                  /\ Available(c)' + Due(p, c) <= Available(c) + Due(p, c)'
  <2>1. Available(c)' = Available(c) /\ Available(c) \in Nat
    BY <1>1, P2Facts DEF Available
  <2>2. queue[c] \in Nat /\ nr_waiting[c] \in Int /\ swallowed[c] \in Nat
    BY P2Facts
  <2>3. CASE c = call[p]
    <3>1. queue'[c] = queue[c] - 1 BY <1>1, <2>3, P2Facts DEF P2Types
    <3>2. /\ Count(Waits(p, c)) = 1 /\ Count(Waits(p, c)') = 0
          /\ Count(IsWoken(p, c)) = 0 /\ Count(IsWoken(p, c)') = 1
      BY <1>1, <1>3, <2>3 DEF Count, Waits, IsWoken
    <3>3. nr_waiting[c] + (queue[c] - 1) + 1 = nr_waiting[c] + queue[c] + 0
      BY <2>2
    <3>4. (queue[c] - 1) + 1 + swallowed[c] = queue[c] + 0 + swallowed[c]
      BY <2>2
    <3>5. Due(p, c)' = Due(p, c) /\ Due(p, c) \in Nat
      BY <1>1, <3>1, <3>2, <3>4, P2Facts DEF Due
    <3> QED BY <1>1, <2>1, <3>1, <3>2, <3>3, <3>5
  <2>4. CASE c # call[p]
    <3>1. queue'[c] = queue[c] BY <1>1, <2>4, P2Facts DEF P2Types
    <3>2. /\ Count(Waits(p, c)) = 0 /\ Count(Waits(p, c)') = 0
          /\ Count(IsWoken(p, c)) = 0 /\ Count(IsWoken(p, c)') = 0
      BY <1>1, <1>3, <2>4 DEF Count, Waits, IsWoken
    <3>3. Due(p, c)' = Due(p, c) /\ Due(p, c) \in Nat
      BY <1>1, <3>1, <3>2, P2Facts DEF Due
    <3> QED BY <1>1, <2>1, <3>1, <3>2, <3>3
  <2> QED BY <2>3, <2>4
<1>7. P2Inv' BY <1>3, <1>4, <1>5, <1>6, P2Keeps
<1> QED BY <1>1, <1>7, QueueStutter

(* A signal at mtx: the item is lost and so is, after a wait, a wake-up. *)
LEMMA P2InterruptMtxStep ==
  ASSUME P2Inv, NEW p \in Procs, P2InterruptMtx(p)
  PROVE  P2Inv' /\ [P1Queue!Next]_(P1Queue!vars)
<1>1. /\ pc[p] \in {"mtx", "redown"} /\ loaded /\ Return(p, "none", << >>, FALSE)
      /\ swallowed' = [swallowed EXCEPT ![call[p]] =
                          IF pc[p] = "redown" THEN @ + 1 ELSE @]
      /\ lost' = lost + Count(item[p] # << >>) /\ lost' <= MaxLost
      /\ UNCHANGED <<loaded, cbuf, mtx, queue, nr_waiting>>
  BY P2Facts, OneBlock DEF P2InterruptMtx, P2GiveUp, Lose
<1>2. call[p] \in Kind BY <1>1, P2Facts DEF P2Call, PCTypes, Kind
<1>3. /\ PCTypes' /\ LocalStep(p) /\ pc'[p] = "user" /\ call'[p] = "none"
      /\ item'[p] = << >> /\ heap' = heap
  <2>1. cbuf' \in Buffers /\ mtx' \in Procs \cup {NoProc}
    BY <1>1, P2Facts DEF PCTypes
  <2>2. lost' \in 0 .. MaxLost
    BY <1>1, P2Facts, ProdConsAssumption DEF Count
  <2>3. PCTypes BY P2Facts
  <2> QED BY <1>1, <2>1, <2>2, <2>3, NoBlocks, ReturnMoves
<1>4. P2Call(p)' BY <1>3 DEF P2Call
<1>5. InHands' + Count(item[p] # << >>) = InHands + Count(item'[p] # << >>)
  <2>1. \A h, n, s, l \in Int : (h - (2 + s + (l + n))) + n = (h - (2 + s + l)) + 0
    OBVIOUS
  <2>2. Count(item[p] # << >>) \in Int /\ Count(item'[p] # << >>) = 0
        /\ cbuf.size \in Int /\ lost \in Int /\ heap \in Int
    BY <1>3, P2Facts DEF Count
  <2> QED BY <1>1, <1>3, <2>1, <2>2 DEF InHands
<1>6. /\ swallowed' \in [Kind -> Nat]
      /\ \A c \in Kind : swallowed'[c] = swallowed[c] + Count(IsWoken(p, c))
  <2>1. swallowed \in [Kind -> Nat] BY P2Facts DEF P2Types
  <2>2. swallowed[call[p]] \in Nat BY <1>2, <2>1
  <2>3. (IF pc[p] = "redown" THEN swallowed[call[p]] + 1 ELSE swallowed[call[p]]) \in Nat
    BY <2>2
  <2>4. swallowed' \in [Kind -> Nat] BY <1>1, <1>2, <2>1, <2>3
  <2>5. ASSUME NEW c \in Kind
        PROVE  swallowed'[c] = swallowed[c] + Count(IsWoken(p, c))
    <3>1. swallowed[c] \in Nat BY <2>1
    <3>2. CASE c = call[p]
      BY <1>1, <1>2, <2>1, <3>1, <3>2 DEF IsWoken, Count
    <3>3. CASE c # call[p]
      BY <1>1, <1>2, <2>1, <3>1, <3>3 DEF IsWoken, Count
    <3> QED BY <3>2, <3>3
  <2> QED BY <2>4, <2>5
<1>7. P2Types' BY <1>1, <1>6, P2Facts DEF P2Types
<1>8. ASSUME NEW c \in Kind
      PROVE  /\ nr_waiting'[c] + queue'[c] + Count(Waits(p, c))
                  = nr_waiting[c] + queue[c] + Count(Waits(p, c)')
             /\ nr_waiting'[c] > 0 =>
                  /\ nr_waiting[c] > 0
                  /\ Available(c)' + Due(p, c) <= Available(c) + Due(p, c)'
  <2>1. Available(c)' = Available(c) /\ Available(c) \in Nat
    BY <1>1, P2Facts DEF Available
  <2>2. /\ Count(Waits(p, c)) = 0 /\ Count(Waits(p, c)') = 0
        /\ Count(IsWoken(p, c)') = 0 /\ Count(IsWoken(p, c)) \in Nat
    BY <1>1, <1>3 DEF Count, Waits, IsWoken
  <2>3. Due(p, c)' = Due(p, c) /\ Due(p, c) \in Nat
    <3>1. \A q, n, s \in Int : q + 0 + (s + n) = q + n + s OBVIOUS
    <3>2. queue[c] \in Int /\ swallowed[c] \in Int BY P2Facts
    <3> QED BY <1>1, <1>6, <2>2, <3>1, <3>2, P2Facts DEF Due
  <2> QED BY <1>1, <2>1, <2>2, <2>3
<1>9. P2Inv' BY <1>3, <1>4, <1>5, <1>7, <1>8, P2Keeps
<1> QED BY <1>1, <1>9, QueueIdle DEF Return

(* The section of an interrupted waiter: it is no longer counted. *)
LEMMA P2InterruptSectionStep ==
  ASSUME P2Inv, NEW p \in Procs, P2InterruptSection(p)
  PROVE  P2Inv' /\ [P1Queue!Next]_(P1Queue!vars)
<1>1. /\ pc[p] = "intr" /\ loaded /\ mtx' = NoProc
      /\ Return(p, "none", << >>, FALSE)
      /\ nr_waiting' = [nr_waiting EXCEPT ![call[p]] = @ - 1]
      /\ lost' = lost + Count(item[p] # << >>) /\ lost' <= MaxLost
      /\ UNCHANGED <<loaded, cbuf, queue, swallowed>>
  BY P2Facts, OneBlock DEF P2InterruptSection, P2GiveUp, Lose, InMtx, UpMtx
<1>2. call[p] \in Kind BY <1>1, P2Facts DEF P2Call, PCTypes, Kind
<1>3. /\ PCTypes' /\ LocalStep(p) /\ pc'[p] = "user" /\ call'[p] = "none"
      /\ item'[p] = << >> /\ heap' = heap
  <2>1. cbuf' \in Buffers /\ mtx' \in Procs \cup {NoProc}
    BY <1>1, P2Facts DEF PCTypes
  <2>2. lost' \in 0 .. MaxLost
    BY <1>1, P2Facts, ProdConsAssumption DEF Count
  <2>3. PCTypes BY P2Facts
  <2> QED BY <1>1, <2>1, <2>2, <2>3, NoBlocks, ReturnMoves
<1>4. P2Call(p)' BY <1>3 DEF P2Call
<1>5. InHands' + Count(item[p] # << >>) = InHands + Count(item'[p] # << >>)
  <2>1. \A h, n, s, l \in Int : (h - (2 + s + (l + n))) + n = (h - (2 + s + l)) + 0
    OBVIOUS
  <2>2. Count(item[p] # << >>) \in Int /\ Count(item'[p] # << >>) = 0
        /\ cbuf.size \in Int /\ lost \in Int /\ heap \in Int
    BY <1>3, P2Facts DEF Count
  <2> QED BY <1>1, <1>3, <2>1, <2>2 DEF InHands
<1>6. /\ nr_waiting' \in [Kind -> Int]
      /\ \A c \in Kind : nr_waiting'[c] = nr_waiting[c] - Count(c = call[p])
  <2>1. nr_waiting \in [Kind -> Int] BY P2Facts DEF P2Types
  <2>2. nr_waiting[call[p]] - 1 \in Int BY <1>2, <2>1
  <2>3. nr_waiting' \in [Kind -> Int] BY <1>1, <1>2, <2>1, <2>2
  <2>4. ASSUME NEW c \in Kind
        PROVE  nr_waiting'[c] = nr_waiting[c] - Count(c = call[p])
    <3>1. nr_waiting[c] \in Int BY <2>1
    <3>2. CASE c = call[p]
      BY <1>1, <2>1, <3>1, <3>2 DEF Count
    <3>3. CASE c # call[p]
      BY <1>1, <2>1, <3>1, <3>3 DEF Count
    <3> QED BY <3>2, <3>3
  <2> QED BY <2>3, <2>4
<1>7. P2Types' BY <1>1, <1>6, P2Facts DEF P2Types
<1>8. ASSUME NEW c \in Kind
      PROVE  /\ nr_waiting'[c] + queue'[c] + Count(Waits(p, c))
                  = nr_waiting[c] + queue[c] + Count(Waits(p, c)')
             /\ nr_waiting'[c] > 0 =>
                  /\ nr_waiting[c] > 0
                  /\ Available(c)' + Due(p, c) <= Available(c) + Due(p, c)'
  <2>1. Available(c)' = Available(c) /\ Available(c) \in Nat
    BY <1>1, P2Facts DEF Available
  <2>2. /\ Count(Waits(p, c)) = Count(c = call[p]) /\ Count(Waits(p, c)') = 0
        /\ Count(IsWoken(p, c)') = 0 /\ Count(IsWoken(p, c)) = 0
    BY <1>1, <1>3 DEF Count, Waits, IsWoken
  <2>3. Due(p, c)' = Due(p, c) /\ Due(p, c) \in Nat
    BY <1>1, <2>2, P2Facts DEF Due
  <2>4. Count(c = call[p]) \in Nat /\ nr_waiting[c] \in Int /\ queue[c] \in Int
    BY P2Facts DEF Count
  <2>5. /\ \A r, q, n \in Int : (r - n) + q + n = r + q + 0
        /\ \A r \in Int, n \in Nat : r - n > 0 => r > 0
    OBVIOUS
  <2> QED BY <1>1, <1>6, <2>1, <2>2, <2>3, <2>4, <2>5
<1>9. P2Inv' BY <1>3, <1>4, <1>5, <1>7, <1>8, P2Keeps
<1> QED BY <1>1, <1>9, QueueIdle DEF Return

(* Going to sleep: there is nothing to wait for, so nothing is missed. *)
LEMMA P2CondWaitStep ==
  ASSUME P2Inv, NEW p \in Procs, InLoop(p), call[p] \in Kind,
         Available(call[p]) = 0, UpMtx, P2CondWait(p),
         UNCHANGED <<loaded, lost, swallowed>>
  PROVE  P2Inv' /\ [P1Queue!Next]_(P1Queue!vars)
<1>1. /\ pc[p] \in {"mtx", "redown"} /\ loaded /\ mtx' = NoProc
      /\ nr_waiting' = [nr_waiting EXCEPT ![call[p]] = @ + 1]
      /\ pc' = [pc EXCEPT ![p] = "cond"]
      /\ UNCHANGED <<loaded, lost, swallowed, cbuf, call, item, ret, heap, queue>>
  BY P2Facts DEF InLoop, InMtx, UpMtx, P2CondWait, Goto
<1>2. PCTypes' /\ LocalStep(p) /\ pc'[p] = "cond"
  BY <1>1, P2Facts DEF PCTypes, LocalStep, Labels
<1>3. P2Call(p)' /\ InHands' = InHands /\ item'[p] = item[p]
  BY <1>1, <1>2, P2Facts DEF P2Call, InHands
<1>4. P2Types'
  <2>1. nr_waiting[call[p]] + 1 \in Int BY P2Facts
  <2> QED BY <1>1, <2>1, P2Facts DEF P2Types
<1>5. ASSUME NEW c \in Kind
      PROVE  /\ nr_waiting'[c] + queue'[c] + Count(Waits(p, c))
                  = nr_waiting[c] + queue[c] + Count(Waits(p, c)')
             /\ nr_waiting'[c] > 0 =>
                  \/ Available(c)' = 0
                  \/ /\ nr_waiting[c] > 0
                     /\ Available(c)' + Due(p, c) <= Available(c) + Due(p, c)'
  <2>1. Available(c)' = Available(c) /\ Available(c) \in Nat
    BY <1>1, P2Facts DEF Available
  <2>2. queue[c] \in Nat /\ nr_waiting[c] \in Int BY P2Facts
  <2>3. CASE c = call[p]
    <3>1. nr_waiting'[c] = nr_waiting[c] + 1 BY <1>1, <2>3, P2Facts DEF P2Types
    <3>2. /\ Count(Waits(p, c)) = 0 /\ Count(Waits(p, c)') = 1
      BY <1>1, <1>2, <2>3 DEF Count, Waits
    <3>3. (nr_waiting[c] + 1) + queue[c] + 0 = nr_waiting[c] + queue[c] + 1
      BY <2>2
    <3> QED BY <1>1, <2>1, <2>3, <3>1, <3>2, <3>3
  <2>4. CASE c # call[p]
    <3>1. nr_waiting'[c] = nr_waiting[c] BY <1>1, <2>4, P2Facts DEF P2Types
    <3>2. /\ Count(Waits(p, c)) = 0 /\ Count(Waits(p, c)') = 0
          /\ Count(IsWoken(p, c)) = 0 /\ Count(IsWoken(p, c)') = 0
      BY <1>1, <1>2, <2>4 DEF Count, Waits, IsWoken
    <3>3. Due(p, c)' = Due(p, c) /\ Due(p, c) \in Nat
      BY <1>1, <3>2, P2Facts DEF Due
    <3> QED BY <1>1, <2>1, <3>1, <3>2, <3>3
  <2> QED BY <2>3, <2>4
<1>6. P2Inv' BY <1>2, <1>3, <1>4, <1>5, P2Keeps
<1> QED BY <1>1, <1>6, QueueStutter

(* One more wake-up for c if somebody sleeps there, and else no change. *)
LEMMA SignalEffect ==
  ASSUME P2Types, NEW c \in Kind, P2Signal(c)
  PROVE  /\ queue' \in [Kind -> Nat] /\ nr_waiting' \in [Kind -> Int]
         /\ \A d \in Kind :
              nr_waiting'[d] + queue'[d] = nr_waiting[d] + queue[d]
         /\ \A d \in Kind \ {c} :
              nr_waiting'[d] = nr_waiting[d] /\ queue'[d] = queue[d]
         /\ nr_waiting'[c] > 0 => nr_waiting[c] > 0 /\ queue'[c] = queue[c] + 1
<1>1. queue \in [Kind -> Nat] /\ nr_waiting \in [Kind -> Int]
  BY DEF P2Types
<1>2. \A d \in Kind : queue[d] \in Nat /\ nr_waiting[d] \in Int
  BY <1>1
<1>3. CASE nr_waiting[c] > 0
  <2>1. /\ queue' = [queue EXCEPT ![c] = @ + 1]
        /\ nr_waiting' = [nr_waiting EXCEPT ![c] = @ - 1]
    BY <1>3 DEF P2Signal
  <2>2. queue[c] + 1 \in Nat /\ nr_waiting[c] - 1 \in Int BY <1>2
  <2>3. queue' \in [Kind -> Nat] /\ nr_waiting' \in [Kind -> Int]
    BY <1>1, <2>1, <2>2
  <2>4. queue'[c] = queue[c] + 1 /\ nr_waiting'[c] = nr_waiting[c] - 1
    BY <1>1, <2>1
  <2>5. \A d \in Kind \ {c} : nr_waiting'[d] = nr_waiting[d] /\ queue'[d] = queue[d]
    BY <1>1, <2>1
  <2>6. (nr_waiting[c] - 1) + (queue[c] + 1) = nr_waiting[c] + queue[c]
    BY <1>2
  <2> QED BY <1>3, <2>3, <2>4, <2>5, <2>6
<1>4. CASE ~ (nr_waiting[c] > 0)
  BY <1>1, <1>4 DEF P2Signal
<1> QED BY <1>3, <1>4

(* An item moves in or out: what the opposite kind gets more of comes with *)
(* a wake-up, and the kind of p gets less.                                 *)
LEMMA P2MoveBalance ==
  ASSUME P2Inv, NEW p \in Procs, InLoop(p), call[p] \in Kind,
         pc'[p] = "user", UNCHANGED swallowed,
         P2Signal(Opposite(call[p])),
         \A c \in Kind : Available(c)' =
                         IF c = call[p] THEN Available(c) - 1 ELSE Available(c) + 1
  PROVE  /\ P2Types'
         /\ \A c \in Kind :
              /\ nr_waiting'[c] + queue'[c] + Count(Waits(p, c))
                   = nr_waiting[c] + queue[c] + Count(Waits(p, c)')
              /\ nr_waiting'[c] > 0 =>
                   /\ nr_waiting[c] > 0
                   /\ Available(c)' + Due(p, c) <= Available(c) + Due(p, c)'
<1> DEFINE o == Opposite(call[p])
<1>1. /\ o \in Kind /\ o # call[p] /\ \A c \in Kind : c = o \/ c = call[p]
      /\ pc[p] \in {"mtx", "redown"}
  BY DEF Opposite, Kind, InLoop, InMtx
<1>2. /\ queue' \in [Kind -> Nat] /\ nr_waiting' \in [Kind -> Int]
      /\ \A d \in Kind : nr_waiting'[d] + queue'[d] = nr_waiting[d] + queue[d]
      /\ nr_waiting'[call[p]] = nr_waiting[call[p]] /\ queue'[call[p]] = queue[call[p]]
      /\ nr_waiting'[o] > 0 => nr_waiting[o] > 0 /\ queue'[o] = queue[o] + 1
  BY <1>1, P2Facts, SignalEffect
<1>3. P2Types' BY <1>2, P2Facts DEF P2Types
<1>4. ASSUME NEW c \in Kind
      PROVE  /\ nr_waiting'[c] + queue'[c] + Count(Waits(p, c))
                  = nr_waiting[c] + queue[c] + Count(Waits(p, c)')
             /\ nr_waiting'[c] > 0 =>
                  /\ nr_waiting[c] > 0
                  /\ Available(c)' + Due(p, c) <= Available(c) + Due(p, c)'
  <2>1. /\ Count(Waits(p, c)) = 0 /\ Count(Waits(p, c)') = 0
        /\ Count(IsWoken(p, c)') = 0
    BY <1>1 DEF Count, Waits, IsWoken
  <2>2. /\ queue[c] \in Nat /\ nr_waiting[c] \in Int /\ swallowed[c] \in Nat
        /\ Available(c) \in Nat
    BY P2Facts
  <2>3. Due(p, c)' = queue'[c] + 0 + swallowed[c] BY <2>1 DEF Due
  <2>4. CASE c = o
    <3>1. Count(IsWoken(p, c)) = 0 BY <1>1, <2>4 DEF Count, IsWoken
    <3>2. Due(p, c) = queue[c] + 0 + swallowed[c] BY <3>1 DEF Due
    <3>3. \A v, q, s \in Nat : (v + 1) + (q + 0 + s) <= v + ((q + 1) + 0 + s)
      OBVIOUS
    <3>4. nr_waiting'[c] > 0 =>
            /\ nr_waiting[c] > 0 /\ Available(c)' = Available(c) + 1
            /\ Due(p, c)' = (queue[c] + 1) + 0 + swallowed[c]
      BY <1>1, <1>2, <2>3, <2>4
    <3> QED BY <1>2, <2>1, <2>2, <3>2, <3>3, <3>4
  <2>5. CASE c = call[p]
    <3>1. Count(IsWoken(p, c)) \in {0, 1} BY DEF Count
    <3>2. \A v, q, s \in Nat, n \in {0, 1} : (v - 1) + (q + n + s) <= v + (q + 0 + s)
      OBVIOUS
    <3>3. /\ Available(c)' = Available(c) - 1 /\ queue'[c] = queue[c]
          /\ nr_waiting'[c] = nr_waiting[c]
      BY <1>2, <2>5
    <3>4. Available(c)' + Due(p, c) <= Available(c) + Due(p, c)'
      BY <2>2, <2>3, <3>1, <3>2, <3>3 DEF Due
    <3> QED BY <2>1, <3>3, <3>4
  <2> QED BY <1>1, <2>4, <2>5
<1> QED BY <1>3, <1>4

(* insert_cbuffer_t, the signal to the readers, up(&mtx) and return. *)
LEMMA P2InsertStep ==
  ASSUME P2Inv, NEW p \in Procs, InLoop(p), call[p] = "write", UpMtx,
         ~ ptr_is_full(cbuf), cbuf' = ptr_insert(cbuf, item[p][1]),
         P2Signal("read"), Return(p, "OK", item[p], FALSE),
         UNCHANGED <<loaded, lost, swallowed>>
  PROVE  P2Inv' /\ [P1Queue!Next]_(P1Queue!vars)
<1>1. pc[p] \in {"mtx", "redown"} /\ loaded /\ mtx' = NoProc
  BY P2Facts DEF InLoop, InMtx, UpMtx
<1>2. item[p] # << >> BY P2Facts DEF P2Call
<1>3. item[p][1] \in Item /\ item[p] = <<item[p][1]>> /\ item[p] \in Items
  BY <1>2, P2Facts, OneBlock
<1>4. cbuf.size < MAX_ITEMS_CBUF BY P2Facts DEF ptr_is_full
<1>5. cbuf' \in Buffers /\ cbuf'.size = cbuf.size + 1
  BY <1>3, <1>4, P2Facts, InsertAppends
<1>6. /\ PCTypes' /\ LocalStep(p) /\ pc'[p] = "user" /\ call'[p] = "none"
      /\ item'[p] = << >> /\ heap' = heap
  <2>1. PCTypes /\ mtx' \in Procs \cup {NoProc} /\ lost' \in 0 .. MaxLost
    BY <1>1, P2Facts DEF PCTypes
  <2> QED BY <1>1, <1>3, <1>5, <2>1, ReturnMoves
<1>7. P2Call(p)' BY <1>6 DEF P2Call
<1>8. InHands' + Count(item[p] # << >>) = InHands + Count(item'[p] # << >>)
  <2>1. \A h, s, l \in Int : (h - (2 + (s + 1) + l)) + 1 = (h - (2 + s + l)) + 0
    OBVIOUS
  <2>2. Count(item[p] # << >>) = 1 /\ Count(item'[p] # << >>) = 0
        /\ cbuf.size \in Int /\ lost \in Int /\ heap \in Int
    BY <1>2, <1>6, P2Facts DEF Count
  <2> QED BY <1>5, <1>6, <2>1, <2>2 DEF InHands
<1>9. \A c \in Kind : Available(c)' =
                      IF c = call[p] THEN Available(c) - 1 ELSE Available(c) + 1
  BY <1>5, P2Facts DEF Available, Kind
<1>10. call[p] \in Kind /\ Opposite(call[p]) = "read" BY DEF Kind, Opposite
<1>11. P2Inv' BY <1>6, <1>7, <1>8, <1>9, <1>10, P2MoveBalance, P2Keeps
<1>12. P1Queue!Next BY <1>3, <1>4, P2Facts, QueuePut DEF Return
<1> QED BY <1>11, <1>12

(* remove_cbuffer_t, the signal to the writers, up(&mtx) and return. *)
LEMMA P2TakeStep ==
  ASSUME P2Inv, NEW p \in Procs, InLoop(p), call[p] = "read", UpMtx,
         ~ ptr_is_empty(cbuf), P2Take(p), UNCHANGED <<loaded, lost, swallowed>>
  PROVE  P2Inv' /\ [P1Queue!Next]_(P1Queue!vars)
<1> DEFINE x == cbuf.data[cbuf.head]
<1>1. /\ pc[p] \in {"mtx", "redown"} /\ loaded /\ mtx' = NoProc
      /\ cbuf' = ptr_remove(cbuf) /\ P2Signal("write")
      /\ call' = [call EXCEPT ![p] = "none"] /\ pc' = [pc EXCEPT ![p] = "user"]
      /\ ret' = [ret EXCEPT ![p] = Result("OK", <<x>>)]
      /\ heap' = heap - 1 /\ UNCHANGED item
  BY P2Facts DEF InLoop, InMtx, UpMtx, P2Take, Goto
<1>2. cbuf.size > 0 BY P2Facts DEF ptr_is_empty
<1>3. x \in Item /\ cbuf' \in Buffers /\ cbuf'.size = cbuf.size - 1
  BY <1>1, <1>2, P2Facts, RemoveTakesFirst
<1>4. item[p] = << >> /\ <<x>> \in Items
  BY <1>3, P2Facts DEF P2Call, Items
<1> HIDE DEF x
<1>5. /\ PCTypes' /\ LocalStep(p) /\ pc'[p] = "user" /\ call'[p] = "none"
      /\ item'[p] = << >>
  <2>1. /\ "user" \in Labels /\ item' = [item EXCEPT ![p] = << >>]
    BY <1>1, <1>4, P2Facts DEF Labels, PCTypes
  <2>2. /\ LocalStep(p) /\ pc'[p] = "user" /\ call'[p] = "none" /\ item'[p] = << >>
        /\ pc' \in [Procs -> Labels] /\ item' \in [Procs -> Items]
        /\ call' \in [Procs -> {"none", "write", "read"}]
        /\ ret' \in [Procs -> [code : {"none", "OK"}, data : Items]]
    <3> DEFINE l == "user"  c == "none"  i == << >>  r == "OK"  d == <<x>>
    <3>1. /\ PCTypes /\ loaded /\ loaded' = loaded
          /\ l \in Labels /\ c \in {"none", "write", "read"}
          /\ i \in Items /\ r \in {"none", "OK"} /\ d \in Items
          /\ pc' = [pc EXCEPT ![p] = l] /\ call' = [call EXCEPT ![p] = c]
          /\ item' = [item EXCEPT ![p] = i] /\ ret' = [ret EXCEPT ![p] = Result(r, d)]
      BY <1>1, <1>4, <2>1, P2Facts, NoBlocks
    <3> HIDE DEF l, c, i, r, d
    <3>2. /\ LocalStep(p)
          /\ pc'[p] = l /\ call'[p] = c /\ item'[p] = i /\ ret'[p] = Result(r, d)
          /\ pc' \in [Procs -> Labels] /\ item' \in [Procs -> Items]
          /\ call' \in [Procs -> {"none", "write", "read"}]
          /\ ret' \in [Procs -> [code : {"none", "OK"}, data : Items]]
      BY <3>1, Moves, Zenon
    <3> QED BY <3>2, Zenon DEF l, c, i, r
  <2>3. heap' \in Int BY <1>1, P2Facts
  <2> QED BY <1>1, <1>3, <2>2, <2>3, P2Facts DEF PCTypes
<1>6. P2Call(p)' BY <1>5 DEF P2Call
<1>7. InHands' + Count(item[p] # << >>) = InHands + Count(item'[p] # << >>)
  <2>1. \A h, s, l \in Int : ((h - 1) - (2 + (s - 1) + l)) + 0 = (h - (2 + s + l)) + 0
    OBVIOUS
  <2>2. Count(item[p] # << >>) = 0 /\ Count(item'[p] # << >>) = 0
        /\ cbuf.size \in Int /\ lost \in Int /\ heap \in Int
    BY <1>4, <1>5, P2Facts DEF Count
  <2>3. heap' = heap - 1 /\ cbuf'.size = cbuf.size - 1 /\ lost' = lost BY <1>1, <1>3
  <2> DEFINE h == heap  s == cbuf.size  l == lost
  <2>4. h \in Int /\ s \in Int /\ l \in Int BY <2>2
  <2>5. InHands = h - (2 + s + l) /\ InHands' = (h - 1) - (2 + (s - 1) + l)
    BY <2>3 DEF InHands
  <2> HIDE DEF h, s, l
  <2>6. InHands' + 0 = InHands + 0 BY <2>1, <2>2, <2>4, <2>5
  <2> QED BY <2>2, <2>6
<1>8. \A c \in Kind : Available(c)' =
                      IF c = call[p] THEN Available(c) - 1 ELSE Available(c) + 1
  BY <1>3, P2Facts DEF Available, Kind
<1>9. call[p] \in Kind /\ Opposite(call[p]) = "write" BY DEF Kind, Opposite
<1>10. P2Inv' BY <1>1, <1>5, <1>6, <1>7, <1>8, <1>9, P2MoveBalance, P2Keeps
<1>11. P1Queue!Next BY <1>1, <1>2, P2Facts, QueueTake DEF x
<1> QED BY <1>10, <1>11

LEMMA P2LoadStep ==
  ASSUME P2Inv, P2Load
  PROVE  P2Inv' /\ [P1Queue!Next]_(P1Queue!vars)
<1>1. /\ InitModule /\ queue' = Zero /\ nr_waiting' = Zero /\ swallowed' = Zero
      /\ UNCHANGED <<call, pc, item, ret>>
  BY DEF P2Load, InitModule
<1>2. /\ PCTypes' /\ OutOfUse' /\ MemoryAccounted'
      /\ \A p \in Procs : pc[p] = "user"
      /\ cbuf'.size = 0 /\ PtrContents(cbuf') = PtrContents(cbuf)
  BY <1>1, LoadPC DEF P2Inv
<1>3. P2Types' BY <1>1 DEF P2Types, Zero
<1>4. \A p \in Procs : P2Call(p)' BY <1>1 DEF P2Inv, P2Call
<1>5. WaitersAccounted' /\ WakeUpForEachGap'
  <2>1. \A c : P2Waiting(c)' = {}
    BY <1>1, <1>2 DEF P2Waiting
  <2>2. \A c \in Kind : queue'[c] = 0 /\ nr_waiting'[c] = 0
    BY <1>1 DEF Zero
  <2> QED BY <2>1, <2>2, FS_EmptySet DEF WaitersAccounted, WakeUpForEachGap
<1>6. P2Inv' BY <1>2, <1>3, <1>4, <1>5 DEF P2Inv
<1> QED BY <1>1, <1>2, <1>6, QueueStutter

LEMMA P2UnloadStep ==
  ASSUME P2Inv, P2Unload
  PROVE  P2Inv' /\ [P1Queue!Next]_(P1Queue!vars)
<1>1. ExitModule /\ UNCHANGED <<queue, nr_waiting, swallowed, call, pc, item, ret>>
  BY DEF P2Unload, ExitModule
<1>2. /\ PCTypes' /\ OutOfUse' /\ MemoryAccounted'
      /\ ~ loaded' /\ PtrContents(cbuf') = << >>
  BY <1>1, UnloadPC DEF P2Inv
<1>3. P2Types' /\ \A p \in Procs : P2Call(p)'
  BY <1>1 DEF P2Inv, P2Types, P2Call
<1>4. P2Inv' BY <1>2, <1>3 DEF P2Inv, WaitersAccounted, WakeUpForEachGap
<1> QED BY <1>1, <1>2, <1>4, QueueUnload

LEMMA P2Starts == P2Init => P2Inv /\ P1Queue!Init
<1> SUFFICES ASSUME P2Init PROVE P2Inv /\ P1Queue!Init
  OBVIOUS
<1>1. PCTypes /\ OutOfUse /\ MemoryAccounted /\ P1Queue!Init
  BY InitPC, QueueInit DEF P2Init
<1>2. P2Types BY DEF P2Init, P2Types, Zero
<1>3. \A p \in Procs : P2Call(p) BY DEF P2Init, PCInit, P2Call
<1>4. WaitersAccounted /\ WakeUpForEachGap
  BY DEF P2Init, PCInit, WaitersAccounted, WakeUpForEachGap
<1> QED BY <1>1, <1>2, <1>3, <1>4 DEF P2Inv

LEMMA P2SectionStep ==
  ASSUME P2Inv, NEW p \in Procs, P2Section(p)
  PROVE  P2Inv' /\ [P1Queue!Next]_(P1Queue!vars)
<1>1. CASE P2WriteSection(p)
  <2>1. /\ InLoop(p) /\ call[p] = "write" /\ UpMtx /\ UNCHANGED <<loaded, lost, swallowed>>
        /\ call[p] \in Kind
    BY <1>1 DEF P2WriteSection, Kind
  <2>2. CASE ptr_is_full(cbuf) /\ P2CondWait(p)
    <3>1. Available(call[p]) = 0
      BY <2>1, <2>2, P2Facts DEF Available, ptr_is_full
    <3> QED BY <2>1, <2>2, <3>1, P2CondWaitStep
  <2>3. CASE /\ ~ ptr_is_full(cbuf)
             /\ cbuf' = ptr_insert(cbuf, item[p][1])
             /\ P2Signal("read")
             /\ Return(p, "OK", item[p], FALSE)
    BY <2>1, <2>3, P2InsertStep
  <2> QED BY <1>1, <2>2, <2>3 DEF P2WriteSection
<1>2. CASE P2ReadSection(p)
  <2>1. /\ InLoop(p) /\ call[p] = "read" /\ UpMtx /\ UNCHANGED <<loaded, lost, swallowed>>
        /\ call[p] \in Kind
    BY <1>2 DEF P2ReadSection, Kind
  <2>2. CASE ptr_is_empty(cbuf) /\ P2CondWait(p)
    <3>1. Available(call[p]) = 0
      BY <2>1, <2>2, P2Facts DEF Available, ptr_is_empty
    <3> QED BY <2>1, <2>2, <3>1, P2CondWaitStep
  <2>3. CASE ~ ptr_is_empty(cbuf) /\ P2Take(p)
    BY <2>1, <2>3, P2TakeStep
  <2> QED BY <1>2, <2>2, <2>3 DEF P2ReadSection
<1>3. CASE P2InterruptSection(p) BY <1>3, P2InterruptSectionStep
<1> QED BY <1>1, <1>2, <1>3 DEF P2Section

LEMMA P2Step ==
  P2Inv /\ [P2Next]_p2Vars => P2Inv' /\ [P1Queue!Next]_(P1Queue!vars)
<1> SUFFICES ASSUME P2Inv, [P2Next]_p2Vars
             PROVE  P2Inv' /\ [P1Queue!Next]_(P1Queue!vars)
  OBVIOUS
<1>1. CASE P2Load BY <1>1, P2LoadStep
<1>2. CASE P2Unload BY <1>2, P2UnloadStep
<1>3. ASSUME NEW p \in Procs, P2Write(p) \/ P2Read(p)
      PROVE  P2Inv' /\ [P1Queue!Next]_(P1Queue!vars)
  BY <1>3, P2StartStep
<1>4. ASSUME NEW p \in Procs, P2Acquire(p) \/ P2InterruptMtx(p)
      PROVE  P2Inv' /\ [P1Queue!Next]_(P1Queue!vars)
  BY <1>4, P2AcquireStep, P2InterruptMtxStep
<1>5. ASSUME NEW p \in Procs, P2Wake(p) \/ P2InterruptWait(p)
      PROVE  P2Inv' /\ [P1Queue!Next]_(P1Queue!vars)
  BY <1>5, P2WakeStep, P2InterruptWaitStep
<1>6. ASSUME NEW p \in Procs, P2Section(p)
      PROVE  P2Inv' /\ [P1Queue!Next]_(P1Queue!vars)
  BY <1>6, P2SectionStep
<1>7. CASE UNCHANGED p2Vars
  <2>1. /\ UNCHANGED <<loaded, cbuf, mtx, call, pc, item, ret, heap, lost>>
        /\ UNCHANGED <<queue, nr_waiting, swallowed>>
    BY <1>7 DEF p2Vars, pcVars
  <2>2. P2Inv'
    BY <2>1 DEF P2Inv, PCTypes, OutOfUse, MemoryAccounted, P2Call, P2Types,
                WaitersAccounted, WakeUpForEachGap, P2Waiting, Woken, Available
  <2> QED BY <2>1, <2>2, QueueStutter
<1> QED
  BY <1>1, <1>2, <1>3, <1>4, <1>5, <1>6, <1>7 DEF P2Next

-----------------------------------------------------------------------------
(* Both together, as the runs check them *)

ProdConsInv ==
  \/ version = 1 /\ P1Inv /\ queue = Zero /\ nr_waiting = Zero
  \/ version = 2 /\ P2Inv

LEMMA ProdConsStarts == Init => ProdConsInv /\ P1Queue!Init
BY P1Starts, P2Starts DEF Init, P2Init, ProdConsInv

LEMMA ProdConsStep ==
  ProdConsInv /\ [Next]_mcVars => ProdConsInv' /\ [P1Queue!Next]_(P1Queue!vars)
<1> SUFFICES ASSUME ProdConsInv, [Next]_mcVars
             PROVE  ProdConsInv' /\ [P1Queue!Next]_(P1Queue!vars)
  OBVIOUS
<1>1. CASE version = 1
  <2>1. P1Inv /\ queue = Zero /\ nr_waiting = Zero BY <1>1 DEF ProdConsInv
  <2>2. [P1Next]_p1Vars /\ UNCHANGED <<version, queue, nr_waiting>>
    BY <1>1 DEF Next, mcVars, p2Own, p1Vars
  <2>3. P1Inv' /\ [P1Queue!Next]_(P1Queue!vars) BY <2>1, <2>2, P1Step
  <2> QED BY <1>1, <2>1, <2>2, <2>3 DEF ProdConsInv, Zero
<1>2. CASE version = 2
  <2>1. P2Inv BY <1>2 DEF ProdConsInv
  <2>2. [P2Next]_p2Vars /\ UNCHANGED version
    BY <1>2 DEF Next, mcVars, p1Own, p2Vars
  <2>3. P2Inv' /\ [P1Queue!Next]_(P1Queue!vars) BY <2>1, <2>2, P2Step
  <2> QED BY <1>2, <2>2, <2>3 DEF ProdConsInv
<1> QED BY <1>1, <1>2 DEF ProdConsInv

LEMMA ProdConsInvariant == Spec => []ProdConsInv
BY ProdConsStarts, ProdConsStep, PTL DEF Spec

(* Every block obtained with vmalloc is in the buffer, in the hands of one *)
(* call or lost on one of the three paths that forget it; none is freed    *)
(* twice (vfree and the interrupted calls of both versions).               *)
THEOREM MemoryIsAccounted == Spec => []MemoryAccounted
<1>1. ProdConsInv => MemoryAccounted BY DEF ProdConsInv, P1Inv, P2Inv
<1> QED BY <1>1, ProdConsInvariant, PTL

(* huecos and elementos, with the calls that hold a permit, add up to the  *)
(* gaps and the items: no insert of prodcons1.c finds the buffer full and  *)
(* no remove finds it empty, whatever signals arrive.                      *)
THEOREM SemaphoresMatchBuffer == Spec => []Permits
<1>1. ProdConsInv => Permits BY DEF ProdConsInv, P1Inv, Permits
<1> QED BY <1>1, ProdConsInvariant, PTL

(* nr_prod_waiting and nr_cons_waiting of prodcons2.c may go negative, but *)
(* with the wake-ups in the queues they are the processes that wait.       *)
THEOREM WaitersAddUp == Spec => []WaitersAccounted
<1>1. ProdConsInv => WaitersAccounted
  <2>1. ASSUME version = 1, P1Inv, queue = Zero, nr_waiting = Zero
        PROVE  WaitersAccounted
    <3>1. \A c : P2Waiting(c) = {} BY <2>1 DEF P1Inv, P1Call, P2Waiting
    <3> QED BY <2>1, <3>1, FS_EmptySet DEF WaitersAccounted, Zero
  <2> QED BY <2>1 DEF ProdConsInv, P2Inv
<1> QED BY <1>1, ProdConsInvariant, PTL

(* Nobody sleeps in prodcons2.c beside a gap (or an item) that no wake-up  *)
(* speaks for, except for the wake-ups an interrupted call took with it.   *)
THEOREM NoGapUnannounced == Spec => []WakeUpForEachGap
<1>1. ProdConsInv => WakeUpForEachGap
  BY DEF ProdConsInv, P2Inv, WakeUpForEachGap, Zero
<1> QED BY <1>1, ProdConsInvariant, PTL

LEMMA SameQueue ==
  /\ P1Queue!Init <=> P2Queue!Init
  /\ [P1Queue!Next]_(P1Queue!vars) <=> [P2Queue!Next]_(P2Queue!vars)
BY DEF P1Queue!Init, P2Queue!Init, P1Queue!Next, P2Queue!Next, P1Queue!vars, P2Queue!vars,
       P1Queue!Idle, P2Queue!Idle, P1Queue!Put, P2Queue!Put, P1Queue!Take, P2Queue!Take,
       P1Queue!Done, P2Queue!Done, P1Queue!Unload, P2Queue!Unload,
       P1Queue!Returns, P2Queue!Returns, P1Queue!Result, P2Queue!Result

(* Each version implements the bounded first-in first-out queue of         *)
(* ItemQueue: every step is one of the queue's or leaves it alone.         *)
THEOREM VersionsImplementQueue == Spec => ImplementsQueue
<1>1. Spec => P1Queue!Spec
  <2>1. P1Queue!Spec <=> P1Queue!Init /\ [][P1Queue!Next]_(P1Queue!vars)
    BY DEF P1Queue!Spec
  <2> QED BY <2>1, ProdConsStarts, ProdConsStep, PTL DEF Spec
<1>2. Spec => P2Queue!Spec
  <2>1. P2Queue!Spec <=> P2Queue!Init /\ [][P2Queue!Next]_(P2Queue!vars)
    BY DEF P2Queue!Spec
  <2> QED BY <2>1, ProdConsStarts, ProdConsStep, SameQueue, PTL DEF Spec
<1> QED BY <1>1, <1>2 DEF ImplementsQueue, P1ImplementsQueue, P2ImplementsQueue
=============================================================================
