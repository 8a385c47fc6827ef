----------------------------- MODULE CBufferProofs -----------------------------
(***************************************************************************)
(* Facts about the operations of cbuffer.c, for every capacity and every   *)
(* set of bytes: they keep the buffer a cbuffer_t, move as many bytes as   *)
(* they say, and do to the bytes it holds what a queue does.               *)
(***************************************************************************)
EXTENDS CBuffer, CountingProofs

(* A memcpy into data from bytes that exist leaves data an array of bytes. *)
LEMMA CopyInType ==
  ASSUME NEW S, NEW max \in Nat, NEW data \in [0 .. max - 1 -> S],
         NEW items \in Seq(S), NEW at \in Nat, NEW from \in Nat,
         NEW n \in Nat, from + n <= Len(items)
  PROVE  CopyIn(data, at, items, from, n) \in [0 .. max - 1 -> S]
<1>1. SUFFICES ASSUME NEW i \in 0 .. max - 1
               PROVE  (IF at <= i /\ i < at + n
                       THEN items[from + (i - at) + 1] ELSE data[i]) \in S
  BY DEF CopyIn
<1>2. CASE at <= i /\ i < at + n
  <2>1. from + (i - at) + 1 \in 1 .. Len(items)
    BY <1>2
  <2> QED
    BY <1>2, <2>1, ElementOfSeq
<1>3. CASE ~ (at <= i /\ i < at + n)
  BY <1>3
<1> QED
  BY <1>2, <1>3

(* A memcpy out of data gives a sequence of that many bytes. *)
LEMMA CopyOutType ==
  ASSUME NEW S, NEW max \in Nat, NEW data \in [0 .. max - 1 -> S],
         NEW at \in Nat, NEW n \in Nat, at + n <= max
  PROVE  CopyOut(data, at, n) \in Seq(S) /\ Len(CopyOut(data, at, n)) = n
<1>1. \A i \in 1 .. n : data[at + i - 1] \in S
  OBVIOUS
<1> QED
  BY <1>1 DEF CopyOut

(* An index reduced modulo max_size is inside data. *)
LEMMA ModRange ==
  ASSUME NEW a \in Nat, NEW m \in Nat \ {0}
  PROVE  a % m \in 0 .. m - 1
OBVIOUS

(* The fields of a cbuffer_t, and how one is put together. *)
LEMMA Fields ==
  ASSUME NEW S, NEW max, NEW cb \in cbuffer_t(S, max)
  PROVE  /\ cb.data \in [0 .. max - 1 -> S] /\ cb.head \in 0 .. max
         /\ cb.size \in 0 .. max /\ cb.max_size = max
         /\ cb = [data |-> cb.data, head |-> cb.head, size |-> cb.size,
                  max_size |-> cb.max_size]
BY DEF cbuffer_t

(* insert_items_cbuffer_t returns a cbuffer_t of the same capacity. *)
LEMMA InsertItemsType ==
  ASSUME NEW S, NEW max \in Nat \ {0}, NEW cb \in cbuffer_t(S, max),
         NEW items \in Seq(S)
  PROVE  insert_items_cbuffer_t(cb, items) \in cbuffer_t(S, max)
<1> DEFINE n      == Len(items)
           gaps   == cb.max_size - cb.size
           whead  == (cb.head + cb.size) % cb.max_size
           wraps  == whead + n > cb.max_size
           copied == IF wraps THEN cb.max_size - whead ELSE 0
           whead2 == IF wraps THEN 0 ELSE whead
           data1  == CopyIn(cb.data, whead, items, 0, copied)
           data2  == CopyIn(data1, whead2, items, copied, n - copied)
           fits   == [cb EXCEPT !.data = data2, !.size = @ + n]
           drops  == [cb EXCEPT !.data = data2, !.size = cb.max_size,
                                !.head = (@ + (n - gaps)) % cb.max_size]
<1>1. /\ cb.data \in [0 .. max - 1 -> S] /\ cb.head \in 0 .. max
      /\ cb.size \in 0 .. max /\ cb.max_size = max
  BY Fields
<1>2. n \in Nat
  BY LenProperties
<1>3. insert_items_cbuffer_t(cb, items)
        = IF n > max THEN cb ELSE IF gaps >= n THEN fits ELSE drops
  BY <1>1 DEF insert_items_cbuffer_t
<1> HIDE DEF n
<1>4. CASE n > max
  BY <1>3, <1>4
<1>5. CASE ~ (n > max)
  <2>1. whead \in 0 .. max - 1
    <3>1. cb.head + cb.size \in Nat
      BY <1>1
    <3> QED BY <1>1, <3>1, ModRange
  <2> HIDE DEF whead
  <2>2. copied \in Nat /\ n - copied \in Nat /\ whead2 \in Nat
    BY <1>1, <1>2, <1>5, <2>1
  <2> HIDE DEF copied, whead2
  <2>3. data1 \in [0 .. max - 1 -> S]
    <3>1. 0 + copied <= Len(items)
      BY <1>2, <2>2 DEF n
    <3>2. whead \in Nat /\ max \in Nat /\ 0 \in Nat
      BY <2>1
    <3> QED BY <1>1, <2>2, <3>1, <3>2, CopyInType
  <2> HIDE DEF data1
  <2>4. data2 \in [0 .. max - 1 -> S]
    <3>1. copied + (n - copied) <= Len(items)
      BY <1>2, <2>2 DEF n
    <3> QED BY <2>2, <2>3, <3>1, CopyInType
  <2> HIDE DEF data2
  <2>5. CASE gaps >= n
    <3>1. cb.size + n \in 0 .. max
      BY <1>1, <1>2, <2>5
    <3> QED
      BY <1>3, <1>5, <2>4, <2>5, <3>1 DEF cbuffer_t
  <2>6. CASE ~ (gaps >= n)
    <3>1. (cb.head + (n - gaps)) % max \in 0 .. max - 1
      <4>1. cb.head + (n - gaps) \in Nat
        BY <1>1, <1>2, <2>6
      <4> QED BY <4>1, ModRange
    <3>2. max \in 0 .. max /\ 0 .. max - 1 \subseteq 0 .. max
      OBVIOUS
    <3> QED
      BY <1>1, <1>3, <1>5, <2>4, <2>6, <3>1, <3>2 DEF cbuffer_t
  <2> QED
    BY <2>5, <2>6
<1> QED
  BY <1>4, <1>5

(* remove_items_cbuffer_t returns a cbuffer_t of the same capacity: head   *)
(* may reach max_size and never passes it.                                 *)
LEMMA RemoveItemsType ==
  ASSUME NEW S, NEW max \in Nat \ {0}, NEW cb \in cbuffer_t(S, max),
         NEW n \in Nat
  PROVE  remove_items_cbuffer_t(cb, n) \in cbuffer_t(S, max)
<1>1. /\ cb.data \in [0 .. max - 1 -> S] /\ cb.head \in 0 .. max
      /\ cb.size \in 0 .. max /\ cb.max_size = max
  BY Fields
<1>2. CASE n > cb.size
  BY <1>2 DEF remove_items_cbuffer_t
<1>3. CASE ~ (n > cb.size)
  <2> DEFINE head == IF cb.head + n > max THEN 0 + (n - (max - cb.head))
                                          ELSE cb.head + (n - 0)
  <2>1. head \in 0 .. max /\ cb.size - n \in 0 .. max
    BY <1>1, <1>3
  <2>2. remove_items_cbuffer_t(cb, n)
          = [cb EXCEPT !.head = head, !.size = @ - n]
    BY <1>1, <1>3 DEF remove_items_cbuffer_t
  <2> HIDE DEF head
  <2> QED
    BY <2>1, <2>2 DEF cbuffer_t
<1> QED
  BY <1>2, <1>3

(* The bytes it stores are as many as were asked for. *)
LEMMA RemovedItemsType ==
  ASSUME NEW S, NEW max \in Nat \ {0}, NEW cb \in cbuffer_t(S, max),
         NEW n \in Nat, n <= cb.size
  PROVE  removed_items(cb, n) \in Seq(S) /\ Len(removed_items(cb, n)) = n
<1> DEFINE wraps  == cb.head + n > cb.max_size
           copied == IF wraps THEN cb.max_size - cb.head ELSE 0
           head2  == IF wraps THEN 0 ELSE cb.head
           s      == CopyOut(cb.data, cb.head, copied)
           t      == CopyOut(cb.data, head2, n - copied)
<1>1. /\ cb.data \in [0 .. max - 1 -> S] /\ cb.head \in 0 .. max
      /\ cb.size \in 0 .. max /\ cb.max_size = max
  BY Fields
<1>2. copied \in Nat /\ cb.head + copied <= max
  BY <1>1
<1>3. n - copied \in Nat /\ head2 \in Nat /\ head2 + (n - copied) <= max
  BY <1>1
<1>4. max \in Nat /\ cb.head \in Nat
  BY <1>1
<1> HIDE DEF wraps, copied, head2
<1>5. ASSUME NEW a \in Nat, NEW c \in Nat, a + c <= max
      PROVE  /\ CopyOut(cb.data, a, c) \in Seq(S)
             /\ Len(CopyOut(cb.data, a, c)) = c
  BY <1>1, <1>4, <1>5, CopyOutType
<1>6. /\ s \in Seq(S) /\ Len(s) = copied
      /\ t \in Seq(S) /\ Len(t) = n - copied
  BY <1>2, <1>3, <1>4, <1>5
<1>7. removed_items(cb, n) = s \o t
  BY <1>1 DEF removed_items, wraps, copied, head2
<1> HIDE DEF s, t
<1>8. s \o t \in Seq(S) /\ Len(s \o t) = Len(s) + Len(t)
  BY <1>6, ConcatProperties
<1>9. copied + (n - copied) = n
  BY <1>2
<1> QED
  BY <1>6, <1>7, <1>8, <1>9

(* An index of the ring, reduced modulo max_size, is itself or one turn    *)
(* less.                                                                   *)
LEMMA ModTurn ==
  ASSUME NEW a \in Nat, NEW m \in Nat \ {0}, a < 2 * m
  PROVE  a % m = IF a < m THEN a ELSE a - m
<1>1. CASE a < m
  BY <1>1
<1>2. CASE ~ (a < m)
  <2>1. /\ a % m \in 0 .. m - 1 /\ a \div m \in Int
        /\ a = m * (a \div m) + (a % m)
    OBVIOUS
  <2> DEFINE q == a \div m
             r == a % m
  <2> HIDE DEF q, r
  <2>2. q \in Int /\ r \in 0 .. m - 1 /\ a = m * q + r
    BY <2>1 DEF q, r
  <2>3. q = 1
    BY <1>2, <2>2
  <2> QED BY <1>2, <2>2, <2>3 DEF q, r
<1> QED
  BY <1>1, <1>2

(* Where the ring keeps its i-th byte. *)
Place(head, max, i) == IF head + i - 1 < max
                       THEN head + i - 1 ELSE head + i - 1 - max

LEMMA ContentsIs ==
  ASSUME NEW S, NEW max \in Nat \ {0}, NEW cb \in cbuffer_t(S, max)
  PROVE  /\ Contents(cb) \in Seq(S) /\ Len(Contents(cb)) = cb.size
         /\ Contents(cb) = [i \in 1 .. cb.size |-> cb.data[Place(cb.head, max, i)]]
         /\ \A i \in 1 .. max : Place(cb.head, max, i) \in 0 .. max - 1
<1>1. /\ cb.data \in [0 .. max - 1 -> S] /\ cb.head \in 0 .. max
      /\ cb.size \in 0 .. max /\ cb.max_size = max
  BY Fields
<1>2. \A i \in 1 .. max : /\ Place(cb.head, max, i) \in 0 .. max - 1
                          /\ (cb.head + i - 1) % max = Place(cb.head, max, i)
  <2> SUFFICES ASSUME NEW i \in 1 .. max
               PROVE  /\ Place(cb.head, max, i) \in 0 .. max - 1
                      /\ (cb.head + i - 1) % max = Place(cb.head, max, i)
    OBVIOUS
  <2> DEFINE h == cb.head
             a == h + i - 1
  <2>1. h \in 0 .. max /\ a \in Nat /\ a < 2 * max
    BY <1>1
  <2>2. a % max = IF a < max THEN a ELSE a - max
    <3> HIDE DEF a
    <3> QED BY <2>1, ModTurn
  <2>3. /\ Place(h, max, i) = IF a < max THEN a ELSE a - max
        /\ Place(h, max, i) \in 0 .. max - 1
    <3> HIDE DEF h
    <3> QED BY <2>1 DEF Place
  <2> QED BY <2>2, <2>3
<1>3. \A i \in 1 .. cb.size : i \in 1 .. max
  BY <1>1
<1>4. Contents(cb) = [i \in 1 .. cb.size |-> cb.data[Place(cb.head, max, i)]]
  BY <1>1, <1>2, <1>3 DEF Contents
<1>5. \A i \in 1 .. cb.size : cb.data[Place(cb.head, max, i)] \in S
  BY <1>1, <1>2, <1>3
<1>6. cb.size \in Nat
  BY <1>1
<1> QED
  <2> DEFINE c == Contents(cb)
             v(i) == cb.data[Place(cb.head, max, i)]
             z == cb.size
  <2>1. z \in Nat /\ c = [i \in 1 .. z |-> v(i)] /\ \A i \in 1 .. z : v(i) \in S
    BY <1>4, <1>5, <1>6
  <2>2. c \in Seq(S) /\ Len(c) = z
    <3> HIDE DEF c, v, z
    <3> QED BY <2>1
  <2> QED BY <1>2, <1>4, <2>2

(* A slice of a sequence is a sequence, of the elements in its range. *)
LEMMA SliceOfSeq ==
  ASSUME NEW S, NEW s \in Seq(S), NEW m \in Nat \ {0}, NEW n \in 0 .. Len(s),
         m <= n + 1
  PROVE  /\ SubSeq(s, m, n) \in Seq(S) /\ Len(SubSeq(s, m, n)) = n - m + 1
         /\ \A i \in 1 .. n - m + 1 : SubSeq(s, m, n)[i] = s[m + i - 1]
<1>1. Len(s) \in Nat /\ m \in Int /\ n \in Int
  BY LenProperties
<1>2. \A i \in m .. n : i \in 1 .. Len(s)
  BY <1>1
<1>3. \A i \in m .. n : s[i] \in S
  BY <1>2, ElementOfSeq
<1>4. /\ SubSeq(s, m, n) \in Seq(S)
      /\ Len(SubSeq(s, m, n)) = IF m <= n THEN n - m + 1 ELSE 0
      /\ \A i \in 1 .. n - m + 1 : SubSeq(s, m, n)[i] = s[m + i - 1]
  BY <1>1, <1>3, SubSeqProperties
<1> QED
  BY <1>1, <1>4

LEMMA SliceFromOne ==
  ASSUME NEW S, NEW s \in Seq(S), NEW n \in 0 .. Len(s)
  PROVE  /\ SubSeq(s, 1, n) \in Seq(S) /\ Len(SubSeq(s, 1, n)) = n
         /\ \A i \in 1 .. n : SubSeq(s, 1, n)[i] = s[i]
<1>1. 1 \in Nat \ {0} /\ Len(s) \in Nat /\ n \in Nat /\ 1 <= n + 1
  BY LenProperties
<1>2. /\ SubSeq(s, 1, n) \in Seq(S) /\ Len(SubSeq(s, 1, n)) = n - 1 + 1
      /\ \A i \in 1 .. n - 1 + 1 : SubSeq(s, 1, n)[i] = s[1 + i - 1]
  BY <1>1, SliceOfSeq
<1> QED
  BY <1>1, <1>2

(* The first bytes of the first bytes are the first bytes. *)
LEMMA PrefixOfPrefix ==
  ASSUME NEW S, NEW s \in Seq(S), NEW n \in 0 .. Len(s), NEW k \in 0 .. n
  PROVE  SubSeq(SubSeq(s, 1, n), 1, k) = SubSeq(s, 1, k)
<1> DEFINE t == SubSeq(s, 1, n)
<1>1. Len(s) \in Nat
  BY LenProperties
<1>2. /\ t \in Seq(S) /\ Len(t) = n /\ \A i \in 1 .. n : t[i] = s[i]
  BY <1>1, SliceFromOne
<1>3. k \in 0 .. Len(s) /\ k \in 0 .. Len(t)
  BY <1>1, <1>2
<1>4. /\ SubSeq(s, 1, k) \in Seq(S) /\ Len(SubSeq(s, 1, k)) = k
      /\ \A i \in 1 .. k : SubSeq(s, 1, k)[i] = s[i]
  BY <1>3, SliceFromOne
<1> HIDE DEF t
<1>5. /\ SubSeq(t, 1, k) \in Seq(S) /\ Len(SubSeq(t, 1, k)) = k
      /\ \A i \in 1 .. k : SubSeq(t, 1, k)[i] = t[i]
  BY <1>2, <1>3, SliceFromOne
<1>6. \A i \in 1 .. k : SubSeq(t, 1, k)[i] = SubSeq(s, 1, k)[i]
  BY <1>1, <1>2, <1>4, <1>5
<1>7. SubSeq(t, 1, k) = SubSeq(s, 1, k)
  BY <1>4, <1>5, <1>6, SeqEqual
<1> QED
  BY <1>7 DEF t

(* What was there and what was appended can be told apart again. *)
LEMMA AppendedParts ==
  ASSUME NEW S, NEW s \in Seq(S), NEW t \in Seq(S)
  PROVE  /\ Len(s \o t) = Len(s) + Len(t)
         /\ s = SubSeq(s \o t, 1, Len(s))
         /\ t = SubSeq(s \o t, Len(s) + 1, Len(s \o t))
<1> DEFINE u == s \o t
           a == Len(s)
           b == Len(t)
<1>1. /\ a \in Nat /\ b \in Nat /\ u \in Seq(S) /\ Len(u) = a + b
      /\ \A i \in 1 .. a + b : u[i] = IF i <= a THEN s[i] ELSE t[i - a]
  BY ConcatProperties, LenProperties
<1> HIDE DEF u
<1>2. s = SubSeq(u, 1, a)
  <2>1. /\ SubSeq(u, 1, a) \in Seq(S) /\ Len(SubSeq(u, 1, a)) = a
        /\ \A i \in 1 .. a : SubSeq(u, 1, a)[i] = u[i]
    <3>1. a \in 0 .. Len(u)
      BY <1>1
    <3> QED BY <1>1, <3>1, SliceFromOne
  <2>2. \A i \in 1 .. a : s[i] = SubSeq(u, 1, a)[i]
    BY <1>1, <2>1
  <2> QED BY <2>1, <2>2, SeqEqual
<1>3. t = SubSeq(u, a + 1, Len(u))
  <2> DEFINE m == a + 1
             n == Len(u)
  <2>1. /\ m \in Nat \ {0} /\ n \in 0 .. Len(u) /\ m <= n + 1
        /\ n - m + 1 = b
    BY <1>1
  <2>2. /\ SubSeq(u, m, n) \in Seq(S) /\ Len(SubSeq(u, m, n)) = n - m + 1
        /\ \A i \in 1 .. n - m + 1 : SubSeq(u, m, n)[i] = u[m + i - 1]
    <3> HIDE DEF m, n
    <3> QED BY <1>1, <2>1, SliceOfSeq
  <2>3. ASSUME NEW i \in 1 .. b
        PROVE  t[i] = SubSeq(u, m, n)[i]
    <3>1. i \in 1 .. n - m + 1 /\ m + i - 1 = a + i
      BY <1>1, <2>1
    <3>2. /\ a + i \in 1 .. a + b /\ ~ (a + i <= a) /\ (a + i) - a = i
      BY <1>1
    <3>3. u[a + i] = t[(a + i) - a]
      BY <1>1, <3>2
    <3> QED BY <2>2, <3>1, <3>2, <3>3
  <2>4. Len(SubSeq(u, m, n)) = Len(t)
    BY <2>1, <2>2
  <2> HIDE DEF m, n
  <2>5. t = SubSeq(u, m, n)
    BY <2>2, <2>3, <2>4, SeqEqual
  <2> QED BY <2>5 DEF m, n
<1> QED
  BY <1>1, <1>2, <1>3 DEF u

(* insert_items_cbuffer_t appends, when there are gaps enough. *)
LEMMA InsertItemsAppends ==
  ASSUME NEW S, NEW max \in Nat \ {0}, NEW cb \in cbuffer_t(S, max),
         NEW items \in Seq(S), Len(items) <= max - cb.size
  PROVE  Contents(insert_items_cbuffer_t(cb, items)) = Contents(cb) \o items
<1> DEFINE n      == Len(items)
           whead  == (cb.head + cb.size) % cb.max_size
           copied == IF whead + n > cb.max_size THEN cb.max_size - whead ELSE 0
           whead2 == IF whead + n > cb.max_size THEN 0 ELSE whead
           data1  == CopyIn(cb.data, whead, items, 0, copied)
           data2  == CopyIn(data1, whead2, items, copied, n - copied)
           out    == insert_items_cbuffer_t(cb, items)
<1>1. /\ cb.data \in [0 .. max - 1 -> S] /\ cb.head \in 0 .. max
      /\ cb.size \in 0 .. max /\ cb.max_size = max
  BY Fields
<1>2. n \in Nat /\ n <= max - cb.size
  BY LenProperties
<1>3. out = [cb EXCEPT !.data = data2, !.size = @ + n]
  BY <1>1, <1>2 DEF insert_items_cbuffer_t
<1> HIDE DEF n
<1>4. /\ whead \in 0 .. max - 1
      /\ n > 0 => whead = IF cb.head + cb.size < max THEN cb.head + cb.size
                          ELSE cb.head + cb.size - max
  <2> DEFINE a == cb.head + cb.size
  <2>1. a \in Nat /\ (n > 0 => a < 2 * max)
    BY <1>1, <1>2
  <2>2. a % max \in 0 .. max - 1 /\ (n > 0 => a % max = IF a < max THEN a ELSE a - max)
    <3> HIDE DEF a
    <3> QED BY <2>1, ModRange, ModTurn
  <2> QED BY <1>1, <2>2
<1> HIDE DEF whead
<1>5. out \in cbuffer_t(S, max)
  BY InsertItemsType
<1>6. out.head = cb.head /\ out.size = cb.size + n /\ out.data = data2
  BY <1>3, Fields DEF cbuffer_t
<1>7. \A j \in 0 .. max - 1 :
        data2[j] = IF whead2 <= j /\ j < whead2 + (n - copied)
                   THEN items[copied + (j - whead2) + 1]
                   ELSE IF whead <= j /\ j < whead + copied
                        THEN items[(j - whead) + 1] ELSE cb.data[j]
  <2>1. DOMAIN cb.data = 0 .. max - 1 /\ DOMAIN data1 = 0 .. max - 1
    BY <1>1 DEF CopyIn
  <2>2. ASSUME NEW j \in 0 .. max - 1
        PROVE  data1[j] = IF whead <= j /\ j < whead + copied
                          THEN items[(j - whead) + 1] ELSE cb.data[j]
    <3>1. 0 + (j - whead) + 1 = (j - whead) + 1
      BY <1>4
    <3> QED BY <2>1, <3>1 DEF CopyIn
  <2> HIDE DEF data1
  <2> QED BY <2>1, <2>2 DEF CopyIn
<1> HIDE DEF data1, data2, out
<1>8. ASSUME NEW i \in 1 .. cb.size
      PROVE  data2[Place(cb.head, max, i)] = cb.data[Place(cb.head, max, i)]
  <2> DEFINE j == Place(cb.head, max, i)
  <2>1. /\ j \in 0 .. max - 1
        /\ ~ (whead2 <= j /\ j < whead2 + (n - copied))
        /\ ~ (whead <= j /\ j < whead + copied)
    <3> DEFINE h == cb.head
               z == cb.size
    <3>1. /\ max \in Nat \ {0} /\ h \in 0 .. max /\ z \in 0 .. max
          /\ i \in 1 .. z /\ n \in 0 .. max - z
          /\ whead \in 0 .. max - 1
          /\ n > 0 => whead = IF h + z < max THEN h + z ELSE h + z - max
          /\ j = Place(h, max, i)
          /\ copied = IF whead + n > max THEN max - whead ELSE 0
          /\ whead2 = IF whead + n > max THEN 0 ELSE whead
      BY <1>1, <1>2, <1>4
    <3> HIDE DEF h, z, j, copied, whead2
    <3> QED BY <3>1 DEF Place
  <2> HIDE DEF j, whead2, copied
  <2>2. data2[j] = cb.data[j]
    BY <1>7, <2>1
  <2> QED BY <2>2 DEF j
<1>9. ASSUME NEW i \in cb.size + 1 .. cb.size + n
      PROVE  data2[Place(cb.head, max, i)] = items[i - cb.size]
  <2> DEFINE j == Place(cb.head, max, i)
  <2>1. /\ j \in 0 .. max - 1
        /\ whead2 <= j /\ j < whead2 + (n - copied)
             => copied + (j - whead2) + 1 = i - cb.size
        /\ ~ (whead2 <= j /\ j < whead2 + (n - copied))
             => /\ whead <= j /\ j < whead + copied
                /\ (j - whead) + 1 = i - cb.size
    <3> DEFINE h == cb.head
               z == cb.size
    <3>1. /\ max \in Nat \ {0} /\ h \in 0 .. max /\ z \in 0 .. max
          /\ i \in z + 1 .. z + n /\ n \in 0 .. max - z
          /\ whead \in 0 .. max - 1
          /\ n > 0 => whead = IF h + z < max THEN h + z ELSE h + z - max
          /\ j = Place(h, max, i)
          /\ copied = IF whead + n > max THEN max - whead ELSE 0
          /\ whead2 = IF whead + n > max THEN 0 ELSE whead
      BY <1>1, <1>2, <1>4
    <3> HIDE DEF h, j, copied, whead2
    <3>2. /\ j \in 0 .. max - 1
          /\ whead2 <= j /\ j < whead2 + (n - copied)
               => copied + (j - whead2) + 1 = i - z
          /\ ~ (whead2 <= j /\ j < whead2 + (n - copied))
               => /\ whead <= j /\ j < whead + copied
                  /\ (j - whead) + 1 = i - z
      <4> HIDE DEF z
      <4> QED BY <3>1 DEF Place
    <3> QED BY <3>2
  <2> HIDE DEF j, whead2, copied
  <2>2. data2[j] = items[i - cb.size]
    BY <1>7, <2>1
  <2> QED BY <2>2 DEF j
<1>10. /\ Contents(out) \in Seq(S) /\ Len(Contents(out)) = cb.size + n
       /\ Contents(out) = [i \in 1 .. cb.size + n |-> data2[Place(out.head, max, i)]]
       /\ \A i \in 1 .. cb.size + n : Place(out.head, max, i) = Place(cb.head, max, i)
  <2>1. /\ Contents(out) \in Seq(S) /\ Len(Contents(out)) = out.size
        /\ Contents(out)
             = [i \in 1 .. out.size |-> out.data[Place(out.head, max, i)]]
    <3> HIDE DEF out
    <3> QED BY <1>5, ContentsIs
  <2> HIDE DEF out, data2
  <2> QED BY <1>6, <2>1
<1>11. /\ Contents(cb) \in Seq(S) /\ Len(Contents(cb)) = cb.size
       /\ Contents(cb) = [i \in 1 .. cb.size |-> cb.data[Place(cb.head, max, i)]]
  BY ContentsIs
<1>12. ASSUME NEW i \in 1 .. cb.size + n
       PROVE  Contents(out)[i] = IF i <= cb.size THEN Contents(cb)[i]
                                 ELSE items[i - cb.size]
  <2>1. Contents(out)[i] = data2[Place(cb.head, max, i)]
    BY <1>10
  <2>2. CASE i <= cb.size
    <3>1. i \in 1 .. cb.size
      BY <1>1, <2>2
    <3>2. Contents(cb)[i] = cb.data[Place(cb.head, max, i)]
      BY <1>11, <3>1
    <3> QED BY <1>8, <2>1, <2>2, <3>1, <3>2
  <2>3. CASE ~ (i <= cb.size)
    <3>1. i \in cb.size + 1 .. cb.size + n
      BY <1>1, <1>2, <2>3
    <3> QED BY <1>9, <2>1, <2>3, <3>1
  <2> QED BY <2>2, <2>3
<1> QED
  <2> DEFINE c == Contents(cb)
             d == Contents(out)
  <2>1. /\ c \in Seq(S) /\ d \in Seq(S) /\ Len(d) = Len(c) + Len(items)
        /\ \A i \in 1 .. Len(c) + Len(items) :
             d[i] = IF i <= Len(c) THEN c[i] ELSE items[i - Len(c)]
    BY <1>10, <1>11, <1>12 DEF n
  <2> HIDE DEF c, d
  <2>2. d = c \o items
    <3>1. /\ c \o items \in Seq(S) /\ Len(c \o items) = Len(c) + Len(items)
          /\ \A i \in 1 .. Len(c) + Len(items) :
               (c \o items)[i] = IF i <= Len(c) THEN c[i] ELSE items[i - Len(c)]
      BY <2>1, ConcatProperties
    <3> QED BY <2>1, <3>1, SeqEqual
  <2> QED BY <2>2 DEF c, d, out

(* remove_items_cbuffer_t leaves the buffer without its first n bytes, and *)
(* stores those in items.                                                  *)
LEMMA RemoveItemsDrops ==
  ASSUME NEW S, NEW max \in Nat \ {0}, NEW cb \in cbuffer_t(S, max),
         NEW n \in Nat, n <= cb.size
  PROVE  /\ Contents(remove_items_cbuffer_t(cb, n))
              = SubSeq(Contents(cb), n + 1, cb.size)
         /\ removed_items(cb, n) = SubSeq(Contents(cb), 1, n)
<1> DEFINE copied == IF cb.head + n > cb.max_size
                     THEN cb.max_size - cb.head ELSE 0
           head2  == IF cb.head + n > cb.max_size THEN 0 ELSE cb.head
           out    == remove_items_cbuffer_t(cb, n)
           s      == CopyOut(cb.data, cb.head, copied)
           t      == CopyOut(cb.data, head2, n - copied)
           c      == Contents(cb)
<1>1. /\ cb.data \in [0 .. max - 1 -> S] /\ cb.head \in 0 .. max
      /\ cb.size \in 0 .. max /\ cb.max_size = max
  BY Fields
<1>2. /\ out = [cb EXCEPT !.head = head2 + (n - copied), !.size = @ - n]
      /\ removed_items(cb, n) = s \o t
  BY <1>1 DEF remove_items_cbuffer_t, removed_items
<1>3. /\ out \in cbuffer_t(S, max)
      /\ out.data = cb.data /\ out.size = cb.size - n
      /\ out.head = IF cb.head + n > max THEN cb.head + n - max ELSE cb.head + n
  <2>1. out \in cbuffer_t(S, max)
    BY RemoveItemsType
  <2>2. /\ out.data = cb.data /\ out.size = cb.size - n
        /\ out.head = head2 + (n - copied)
    BY <1>2 DEF cbuffer_t
  <2> QED BY <1>1, <2>1, <2>2
<1> HIDE DEF out
<1>4. /\ c \in Seq(S) /\ Len(c) = cb.size
      /\ c = [i \in 1 .. cb.size |-> cb.data[Place(cb.head, max, i)]]
      /\ Contents(out) \in Seq(S) /\ Len(Contents(out)) = cb.size - n
      /\ Contents(out) = [i \in 1 .. cb.size - n |-> cb.data[Place(out.head, max, i)]]
  <2>1. /\ c \in Seq(S) /\ Len(c) = cb.size
        /\ c = [i \in 1 .. cb.size |-> cb.data[Place(cb.head, max, i)]]
    BY ContentsIs
  <2>2. /\ Contents(out) \in Seq(S) /\ Len(Contents(out)) = out.size
        /\ Contents(out)
             = [i \in 1 .. out.size |-> out.data[Place(out.head, max, i)]]
    BY <1>3, ContentsIs
  <2> HIDE DEF c
  <2> QED BY <1>3, <2>1, <2>2
<1>5. Contents(out) = SubSeq(c, n + 1, cb.size)
  <2>1. ASSUME NEW i \in 1 .. cb.size - n
        PROVE  Place(out.head, max, i) = Place(cb.head, max, n + i) /\ n + i \in 1 .. cb.size
    <3> DEFINE h == cb.head
               z == cb.size
               k == out.head
    <3>1. /\ max \in Nat \ {0} /\ h \in 0 .. max /\ z \in 0 .. max
          /\ n \in 0 .. z /\ i \in 1 .. z - n
          /\ k = IF h + n > max THEN h + n - max ELSE h + n
      BY <1>1, <1>3
    <3> HIDE DEF h, z, k
    <3>2. Place(k, max, i) = Place(h, max, n + i) /\ n + i \in 1 .. z
      BY <3>1 DEF Place
    <3> QED BY <3>2 DEF h, z, k
  <2>2. \A i \in 1 .. cb.size - n : Contents(out)[i] = c[n + i]
    BY <1>1, <1>4, <2>1
  <2> DEFINE d == Contents(out)
  <2> HIDE DEF c, d
  <2>3. /\ SubSeq(c, n + 1, cb.size) \in Seq(S)
        /\ Len(SubSeq(c, n + 1, cb.size)) = cb.size - n
        /\ \A i \in 1 .. cb.size - n : SubSeq(c, n + 1, cb.size)[i] = c[n + i]
    <3> DEFINE m == n + 1
               e == cb.size
    <3>1. e \in Nat /\ n <= e /\ Len(c) = e /\ c \in Seq(S)
      BY <1>1, <1>4
    <3> HIDE DEF e
    <3>2. /\ m \in Nat \ {0} /\ e \in 0 .. Len(c) /\ m <= e + 1
          /\ e - m + 1 = e - n /\ \A i \in 1 .. e - n : m + i - 1 = n + i
      BY <3>1
    <3>3. c \in Seq(S)
      BY <3>1
    <3> HIDE DEF m
    <3>4. /\ SubSeq(c, m, e) \in Seq(S) /\ Len(SubSeq(c, m, e)) = e - m + 1
          /\ \A i \in 1 .. e - m + 1 : SubSeq(c, m, e)[i] = c[m + i - 1]
      BY <3>2, <3>3, SliceOfSeq
    <3> QED BY <3>2, <3>4 DEF m, e
  <2>4. d \in Seq(S) /\ Len(d) = cb.size - n
        /\ \A i \in 1 .. cb.size - n : d[i] = c[n + i]
    BY <1>4, <2>2 DEF d
  <2> QED BY <2>3, <2>4, SeqEqual DEF d
<1>6. s \o t = SubSeq(c, 1, n)
  <2>1. /\ copied \in 0 .. n /\ head2 \in Nat /\ head2 + (n - copied) <= max
        /\ cb.head \in Nat /\ cb.head + copied <= max /\ n - copied \in Nat
        /\ \A i \in 1 .. n : /\ i <= copied => cb.head + i - 1 = Place(cb.head, max, i)
                             /\ i > copied => head2 + (i - copied) - 1 = Place(cb.head, max, i)
    <3> DEFINE h == cb.head
               z == cb.size
    <3>1. /\ max \in Nat \ {0} /\ h \in 0 .. max /\ z \in 0 .. max
          /\ n \in 0 .. z
          /\ copied = IF h + n > max THEN max - h ELSE 0
          /\ head2 = IF h + n > max THEN 0 ELSE h
      BY <1>1
    <3> HIDE DEF h, z, copied, head2
    <3>2. /\ copied \in 0 .. n /\ head2 \in Nat /\ head2 + (n - copied) <= max
          /\ h \in Nat /\ h + copied <= max /\ n - copied \in Nat
          /\ \A i \in 1 .. n :
               /\ i <= copied => h + i - 1 = Place(h, max, i)
               /\ i > copied => head2 + (i - copied) - 1 = Place(h, max, i)
      BY <3>1 DEF Place
    <3> QED BY <3>2 DEF h
  <2> HIDE DEF copied, head2
  <2>2. /\ s \in Seq(S) /\ Len(s) = copied
        /\ t \in Seq(S) /\ Len(t) = n - copied
    <3>1. ASSUME NEW a \in Nat, NEW k \in Nat, a + k <= max
          PROVE  /\ CopyOut(cb.data, a, k) \in Seq(S)
                 /\ Len(CopyOut(cb.data, a, k)) = k
      <4> DEFINE data == cb.data
      <4>1. data \in [0 .. max - 1 -> S] /\ max \in Nat
        BY <1>1
      <4> HIDE DEF data
      <4>2. CopyOut(data, a, k) \in Seq(S) /\ Len(CopyOut(data, a, k)) = k
        BY <3>1, <4>1, CopyOutType
      <4> QED BY <4>2 DEF data
    <3>2. s \in Seq(S) /\ Len(s) = copied
      <4>1. cb.head \in Nat /\ copied \in Nat /\ cb.head + copied <= max
        BY <2>1
      <4> QED BY <3>1, <4>1
    <3>3. t \in Seq(S) /\ Len(t) = n - copied
      BY <2>1, <3>1
    <3> QED BY <3>2, <3>3
  <2>3. ASSUME NEW i \in 1 .. n
        PROVE  IF i <= copied THEN s[i] = c[i] ELSE t[i - copied] = c[i]
    <3>1. i \in 1 .. cb.size /\ c[i] = cb.data[Place(cb.head, max, i)]
      BY <1>1, <1>4
    <3>2. CASE i <= copied
      <4>1. s[i] = cb.data[cb.head + i - 1]
        BY <2>1, <3>2 DEF CopyOut
      <4> QED BY <2>1, <3>1, <3>2, <4>1
    <3>3. CASE i > copied
      <4>1. i - copied \in 1 .. n - copied /\ ~ (i <= copied)
        BY <2>1, <3>3
      <4>2. t[i - copied] = cb.data[head2 + (i - copied) - 1]
        BY <4>1 DEF CopyOut
      <4> QED BY <2>1, <3>1, <3>3, <4>1, <4>2
    <3> QED BY <2>1, <3>2, <3>3
  <2> HIDE DEF s, t, c
  <2>4. /\ s \o t \in Seq(S) /\ Len(s \o t) = n
        /\ \A i \in 1 .. n : (s \o t)[i] = c[i]
    <3>1. /\ s \o t \in Seq(S) /\ Len(s \o t) = Len(s) + Len(t)
          /\ \A i \in 1 .. Len(s) + Len(t) :
               (s \o t)[i] = IF i <= Len(s) THEN s[i] ELSE t[i - Len(s)]
      BY <2>2, ConcatProperties
    <3>2. Len(s) + Len(t) = n
      BY <2>1, <2>2
    <3>3. \A i \in 1 .. n : (s \o t)[i] = IF i <= copied THEN s[i] ELSE t[i - copied]
      BY <2>2, <3>1, <3>2
    <3> QED BY <2>3, <3>1, <3>2, <3>3
  <2>5. /\ SubSeq(c, 1, n) \in Seq(S) /\ Len(SubSeq(c, 1, n)) = n
        /\ \A i \in 1 .. n : SubSeq(c, 1, n)[i] = c[i]
    <3>1. 1 \in Nat \ {0} /\ n \in 0 .. Len(c) /\ 1 <= n + 1
      BY <1>1, <1>4 DEF c
    <3>2. c \in Seq(S)
      BY <1>4 DEF c
    <3>3. /\ SubSeq(c, 1, n) \in Seq(S) /\ Len(SubSeq(c, 1, n)) = n - 1 + 1
          /\ \A i \in 1 .. n - 1 + 1 : SubSeq(c, 1, n)[i] = c[1 + i - 1]
      BY <3>1, <3>2, SliceOfSeq
    <3> QED BY <3>3
  <2> QED BY <2>4, <2>5, SeqEqual
<1> QED
  BY <1>2, <1>5, <1>6 DEF out

(* An index after at most two turns of the ring. *)
Turned(a, max) ==
  IF a < max THEN a ELSE IF a < 2 * max THEN a - max ELSE 0

(* An index reduced modulo max_size is such an index. *)
LEMMA ModTurns ==
  ASSUME NEW a \in Nat, NEW m \in Nat \ {0}, a <= 2 * m
  PROVE  a % m = Turned(a, m)
<1> USE DEF Turned
<1>1. CASE a < 2 * m
  BY <1>1, ModTurn
<1>2. CASE a = 2 * m
  <2>1. /\ a % m \in 0 .. m - 1 /\ a \div m \in Int
        /\ a = m * (a \div m) + (a % m)
    OBVIOUS
  <2> DEFINE q == a \div m
             r == a % m
  <2> HIDE DEF q, r
  <2>2. q \in Int /\ r \in 0 .. m - 1 /\ a = m * q + r
    BY <2>1 DEF q, r
  <2>3. q = 2
    BY <1>2, <2>2
  <2>4. r = 0
    BY <1>2, <2>2, <2>3
  <2> QED BY <1>2, <2>4 DEF r
<1> QED
  BY <1>1, <1>2

(***************************************************************************)
(* n bytes are written over the oldest d ones of a ring that held z from h *)
(* on: the first memcpy copies k of them to w, the second the others to v, *)
(* and g is the new head.                                                  *)
(***************************************************************************)
Overwriting(max, h, z, n, d, w, k, v, g) ==
  /\ max \in Nat \ {0} /\ h \in 0 .. max /\ z \in 0 .. max
  /\ n \in 1 .. max /\ d \in 1 .. z /\ d = n - (max - z)
  /\ w \in 0 .. max - 1 /\ w = Turned(h + z, max)
  /\ g \in 0 .. max - 1 /\ g = Turned(h + d, max)
  /\ k = IF w + n > max THEN max - w ELSE 0
  /\ v = IF w + n > max THEN 0 ELSE w

(* The j-th byte is then at the place of a byte that was there, which      *)
(* nothing has overwritten, or of one of the new ones.                     *)
LEMMA PlacesWrap ==
  ASSUME NEW max, NEW h, NEW z, NEW n, NEW d, NEW w, NEW k, NEW v, NEW g,
         Overwriting(max, h, z, n, d, w, k, v, g), NEW j \in 1 .. max
  PROVE  LET p == Place(g, max, j)
         IN  /\ p \in 0 .. max - 1
             /\ j + d <= z => /\ p = Place(h, max, j + d)
                              /\ ~ (v <= p /\ p < v + (n - k))
                              /\ ~ (w <= p /\ p < w + k)
             /\ j + d > z =>
                  \/ /\ v <= p /\ p < v + (n - k)
                     /\ k + (p - v) + 1 = (j + d) - z
                  \/ /\ ~ (v <= p /\ p < v + (n - k))
                     /\ w <= p /\ p < w + k
                     /\ (p - w) + 1 = (j + d) - z
<1> DEFINE p == Place(g, max, j)
<1> USE DEF Overwriting, Turned
<1>1. p = IF g + j - 1 < max THEN g + j - 1 ELSE g + j - 1 - max
  BY DEF Place
<1>2. p \in 0 .. max - 1
  BY <1>1
<1>3. ASSUME j + d <= z
      PROVE  Place(h, max, j + d) = IF h + (j + d) - 1 < max
                THEN h + (j + d) - 1 ELSE h + (j + d) - 1 - max
  BY DEF Place
<1> HIDE DEF p
<1>4. CASE w + n > max
  <2>1. k = max - w /\ v = 0
    BY <1>4
  <2>2. CASE j + d <= z
    BY <1>1, <1>2, <1>3, <1>4, <2>1, <2>2 DEF p
  <2>3. CASE j + d > z
    <3>1. CASE (j + d) - z <= max - w
      <4>1. p = w + (j + d) - z - 1
        BY <1>1, <1>4, <2>3, <3>1
      <4> QED BY <1>2, <1>4, <2>1, <2>3, <3>1, <4>1 DEF p
    <3>2. CASE ~ ((j + d) - z <= max - w)
      <4>1. p = (j + d) - z - (max - w) - 1
        BY <1>1, <1>4, <2>3, <3>2
      <4> QED BY <1>2, <1>4, <2>1, <2>3, <3>2, <4>1 DEF p
    <3> QED BY <3>1, <3>2
  <2> QED BY <2>2, <2>3
<1>5. CASE ~ (w + n > max)
  <2>1. k = 0 /\ v = w
    BY <1>5
  <2>2. CASE j + d <= z
    BY <1>1, <1>2, <1>3, <1>5, <2>1, <2>2 DEF p
  <2>3. CASE j + d > z
    BY <1>1, <1>2, <1>5, <2>1, <2>3 DEF p
  <2> QED BY <2>2, <2>3
<1> QED
  BY <1>4, <1>5

(* insert_items_cbuffer_t drops the oldest bytes, when there are not gaps  *)
(* enough.                                                                 *)
LEMMA InsertItemsOverwrites ==
  ASSUME NEW S, NEW max \in Nat \ {0}, NEW cb \in cbuffer_t(S, max),
         NEW items \in Seq(S), Len(items) <= max, Len(items) > max - cb.size
  PROVE  Contents(insert_items_cbuffer_t(cb, items))
           = SubSeq(Contents(cb) \o items, Len(items) - (max - cb.size) + 1,
                    Len(Contents(cb) \o items))
<1> DEFINE n      == Len(items)
           z      == cb.size
           h      == cb.head
           d      == n - (max - z)
           whead  == (cb.head + cb.size) % cb.max_size
           copied == IF whead + n > cb.max_size THEN cb.max_size - whead ELSE 0
           whead2 == IF whead + n > cb.max_size THEN 0 ELSE whead
           data1  == CopyIn(cb.data, whead, items, 0, copied)
           data2  == CopyIn(data1, whead2, items, copied, n - copied)
           g      == (h + d) % max
           out    == insert_items_cbuffer_t(cb, items)
           c      == Contents(cb)
           u      == c \o items
           place(j) == Place(g, max, j)
<1>1. /\ cb.data \in [0 .. max - 1 -> S] /\ h \in 0 .. max
      /\ z \in 0 .. max /\ cb.max_size = max
  BY Fields
<1>2. n \in Nat /\ n <= max /\ n > max - z
  BY LenProperties
<1>3. out = [cb EXCEPT !.data = data2, !.size = max, !.head = g]
  BY <1>1, <1>2 DEF insert_items_cbuffer_t
<1> HIDE DEF n
<1>4. n \in 1 .. max /\ d \in 1 .. z /\ d = n - (max - z) /\ max \in Nat
  BY <1>1, <1>2
<1>5. whead \in 0 .. max - 1
      /\ whead = Turned(h + z, max)
  <2> DEFINE a == h + z
  <2>1. a \in Nat /\ a <= 2 * max
    BY <1>1
  <2>2. /\ a % max \in 0 .. max - 1
        /\ a % max = Turned(a, max)
    <3> HIDE DEF a
    <3> QED BY <2>1, ModRange, ModTurns
  <2> QED BY <1>1, <2>2
<1>6. g \in 0 .. max - 1
      /\ g = Turned(h + d, max)
  <2> DEFINE a == h + d
  <2>1. a \in Nat /\ a <= 2 * max
    <3> HIDE DEF h, z, d
    <3> QED BY <1>1, <1>4
  <2>2. /\ a % max \in 0 .. max - 1
        /\ a % max = Turned(a, max)
    <3> HIDE DEF a
    <3> QED BY <2>1, ModRange, ModTurns
  <2> QED BY <2>2
<1>7. /\ copied = IF whead + n > max THEN max - whead ELSE 0
      /\ whead2 = IF whead + n > max THEN 0 ELSE whead
  BY <1>1
<1> HIDE DEF whead, g, copied, whead2
<1>8. out \in cbuffer_t(S, max) /\ out.head = g /\ out.size = max
      /\ out.data = data2
  <2>1. out \in cbuffer_t(S, max)
    BY InsertItemsType
  <2> QED BY <1>3, <2>1, Fields DEF cbuffer_t
<1>9. \A j \in 0 .. max - 1 :
        data2[j] = IF whead2 <= j /\ j < whead2 + (n - copied)
                   THEN items[copied + (j - whead2) + 1]
                   ELSE IF whead <= j /\ j < whead + copied
                        THEN items[(j - whead) + 1] ELSE cb.data[j]
  <2>1. DOMAIN cb.data = 0 .. max - 1 /\ DOMAIN data1 = 0 .. max - 1
    BY <1>1 DEF CopyIn
  <2>2. ASSUME NEW j \in 0 .. max - 1
        PROVE  data1[j] = IF whead <= j /\ j < whead + copied
                          THEN items[(j - whead) + 1] ELSE cb.data[j]
    <3>1. 0 + (j - whead) + 1 = (j - whead) + 1
      BY <1>5
    <3> QED BY <2>1, <3>1 DEF CopyIn
  <2> HIDE DEF data1
  <2> QED BY <2>1, <2>2 DEF CopyIn
<1> HIDE DEF data1, data2, out
<1>10. /\ c \in Seq(S) /\ Len(c) = z
       /\ c = [i \in 1 .. z |-> cb.data[Place(h, max, i)]]
  BY ContentsIs
<1>11. /\ Contents(out) \in Seq(S) /\ Len(Contents(out)) = max
       /\ Contents(out) = [i \in 1 .. max |-> data2[place(i)]]
  <2>1. /\ Contents(out) \in Seq(S) /\ Len(Contents(out)) = out.size
        /\ Contents(out)
             = [i \in 1 .. out.size |-> out.data[Place(out.head, max, i)]]
    <3>1. out \in cbuffer_t(S, max)
      BY <1>8
    <3> QED BY <3>1, ContentsIs
  <2> QED BY <1>8, <2>1
<1>12. /\ u \in Seq(S) /\ Len(u) = z + n
       /\ \A i \in 1 .. z + n : u[i] = IF i <= z THEN c[i] ELSE items[i - z]
  <2>1. /\ u \in Seq(S) /\ Len(u) = Len(c) + Len(items)
        /\ \A i \in 1 .. Len(c) + Len(items) :
             u[i] = IF i <= Len(c) THEN c[i] ELSE items[i - Len(c)]
    <3>1. c \in Seq(S) /\ items \in Seq(S)
      BY <1>10
    <3> HIDE DEF c
    <3> QED BY <3>1, ConcatProperties, Zenon
  <2> HIDE DEF u, c, z
  <2> QED BY <1>10, <2>1 DEF n
<1>13. ASSUME NEW j \in 1 .. max
       PROVE  Contents(out)[j] = u[j + d]
  <2>1. /\ place(j) \in 0 .. max - 1
        /\ j + d <= z => /\ place(j) = Place(h, max, j + d)
             /\ ~ (whead2 <= place(j) /\ place(j) < whead2 + (n - copied))
             /\ ~ (whead <= place(j) /\ place(j) < whead + copied)
        /\ j + d > z =>
             \/ /\ whead2 <= place(j) /\ place(j) < whead2 + (n - copied)
                /\ copied + (place(j) - whead2) + 1 = (j + d) - z
             \/ /\ ~ (whead2 <= place(j) /\ place(j) < whead2 + (n - copied))
                /\ whead <= place(j) /\ place(j) < whead + copied
                /\ (place(j) - whead) + 1 = (j + d) - z
    <3> HIDE DEF h, z, d
    <3>1. Overwriting(max, h, z, n, d, whead, copied, whead2, g)
      BY <1>1, <1>4, <1>5, <1>6, <1>7 DEF Overwriting
    <3> QED BY <3>1, PlacesWrap
  <2>2. Contents(out)[j] = data2[place(j)]
    BY <1>11
  <2>3. j + d \in 1 .. z + n /\ (j + d <= z => j + d \in 1 .. z)
    <3>1. z \in 0 .. max /\ d \in 1 .. z /\ d = n - (max - z) /\ max \in Nat /\ n \in 1 .. max
      BY <1>1, <1>4
    <3> HIDE DEF z, d
    <3> QED BY <3>1
  <2>4. u[j + d] = IF j + d <= z THEN c[j + d] ELSE items[(j + d) - z]
    <3> DEFINE l == j + d
    <3> HIDE DEF u, c, d, z, l
    <3>1. u[l] = IF l <= z THEN c[l] ELSE items[l - z]
      BY <1>12, <2>3 DEF l
    <3> QED BY <3>1 DEF l
  <2> HIDE DEF place, u
  <2>5. CASE j + d <= z
    <3>1. data2[place(j)] = cb.data[Place(h, max, j + d)]
      BY <1>9, <2>1, <2>5
    <3>2. c[j + d] = cb.data[Place(h, max, j + d)]
      BY <1>10, <2>3, <2>5
    <3> QED BY <2>2, <2>4, <2>5, <3>1, <3>2
  <2>6. CASE ~ (j + d <= z)
    <3>1. j + d > z
      BY <1>1, <1>4, <2>6
    <3>2. data2[place(j)] = items[(j + d) - z]
      <4> HIDE DEF d, z
      <4> QED BY <1>9, <2>1, <3>1
    <3> QED BY <2>2, <2>4, <2>6, <3>2
  <2> QED BY <2>5, <2>6
<1> QED
  <2> DEFINE o == Contents(out)
             m == d + 1
             e == Len(u)
  <2>1. /\ m \in Nat \ {0} /\ e \in 0 .. Len(u) /\ m <= e + 1
        /\ e - m + 1 = max /\ \A j \in 1 .. max : m + j - 1 = j + d
    <3>1. /\ z \in 0 .. max /\ d \in 1 .. z /\ d = n - (max - z)
          /\ max \in Nat /\ n \in 1 .. max /\ e = z + n
      BY <1>1, <1>4, <1>12
    <3> HIDE DEF z, d, e
    <3>2. d \in Nat /\ d >= 1 /\ e \in Nat /\ e = max + d
      BY <3>1
    <3> HIDE DEF m
    <3>3. m = d + 1
      BY DEF m
    <3>4. m \in Nat \ {0} /\ e \in 0 .. e /\ m <= e + 1 /\ e - m + 1 = max
      BY <3>2, <3>3
    <3>5. \A j \in 1 .. max : m + j - 1 = j + d
      BY <3>2, <3>3
    <3> QED BY <3>4, <3>5 DEF e
  <2>2. /\ SubSeq(u, m, e) \in Seq(S) /\ Len(SubSeq(u, m, e)) = e - m + 1
        /\ \A j \in 1 .. e - m + 1 : SubSeq(u, m, e)[j] = u[m + j - 1]
    <3> HIDE DEF m, e, u
    <3> QED BY <1>12, <2>1, SliceOfSeq
  <2>3. o \in Seq(S) /\ Len(o) = max /\ \A j \in 1 .. max : o[j] = u[j + d]
    BY <1>11, <1>13
  <2> HIDE DEF o, m, e, u
  <2>4. \A j \in 1 .. max : SubSeq(u, m, e)[j] = o[j]
    BY <2>1, <2>2, <2>3
  <2>5. o = SubSeq(u, m, e)
    BY <2>1, <2>2, <2>3, <2>4, SeqEqual
  <2> QED BY <2>5 DEF o, m, e, u, out, n

(* With head inside data, the operations of one byte are those of several, *)
(* for one.                                                                *)
LEMMA InsertIsInsertItems ==
  ASSUME NEW S, NEW max \in Nat \ {0}, NEW b \in cbuffer_t(S, max),
         b.head < max, NEW x \in S
  PROVE  /\ insert_cbuffer_t(b, x) = insert_items_cbuffer_t(b, <<x>>)
         /\ insert_cbuffer_t(b, x).head < max
<1> DEFINE whead == (b.head + b.size) % b.max_size
           data1 == CopyIn(b.data, whead, <<x>>, 0, 0)
           data2 == CopyIn(data1, whead, <<x>>, 0, 1)
           data3 == [b.data EXCEPT ![whead] = x]
<1>1. /\ b.data \in [0 .. max - 1 -> S] /\ b.head \in 0 .. max
      /\ b.size \in 0 .. max /\ b.max_size = max
      /\ b = [data |-> b.data, head |-> b.head, size |-> b.size,
              max_size |-> b.max_size]
  BY Fields
<1>2. Len(<<x>>) = 1
  OBVIOUS
<1>3. whead \in 0 .. max - 1 /\ (b.size = max => whead = b.head)
  <2> DEFINE a == b.head + b.size
  <2>1. a \in Nat /\ a < 2 * max /\ (b.size = max => a - max = b.head /\ ~ (a < max))
    BY <1>1
  <2>2. a % max \in 0 .. max - 1 /\ (b.size = max => a % max = b.head)
    <3> HIDE DEF a
    <3> QED BY <2>1, ModRange, ModTurn
  <2> QED BY <1>1, <2>2
<1> HIDE DEF whead
<1>4. data2 = data3
  <2>1. data1 = b.data
    BY <1>1, <1>3 DEF CopyIn
  <2>2. data2 = CopyIn(b.data, whead, <<x>>, 0, 1)
    BY <2>1
  <2>3. ASSUME NEW i \in 0 .. max - 1
        PROVE  CopyIn(b.data, whead, <<x>>, 0, 1)[i] = data3[i]
    <3>1. CASE i = whead
      <4>1. whead <= i /\ i < whead + 1 /\ 0 + (i - whead) + 1 = 1
        BY <1>3, <3>1
      <4>2. <<x>>[0 + (i - whead) + 1] = x
        BY <4>1
      <4>3. CopyIn(b.data, whead, <<x>>, 0, 1)[i] = <<x>>[0 + (i - whead) + 1]
        BY <1>1, <4>1 DEF CopyIn
      <4> QED BY <1>1, <1>3, <3>1, <4>2, <4>3
    <3>2. CASE i # whead
      <4>1. ~ (whead <= i /\ i < whead + 1)
        BY <1>3, <3>2
      <4> QED BY <1>1, <3>2, <4>1 DEF CopyIn
    <3> QED BY <3>1, <3>2
  <2> QED BY <1>1, <1>3, <2>2, <2>3 DEF CopyIn
<1>5. ~ (whead + 1 > max) /\ ~ (1 > max)
  BY <1>3
<1>6. insert_items_cbuffer_t(b, <<x>>)
        = IF max - b.size >= 1
          THEN [b EXCEPT !.data = data2, !.size = @ + 1]
          ELSE [b EXCEPT !.data = data2, !.size = max,
                         !.head = (@ + (1 - (max - b.size))) % max]
  <2> DEFINE items  == <<x>>
             n      == Len(items)
             copied == IF whead + n > b.max_size THEN b.max_size - whead ELSE 0
             whead2 == IF whead + n > b.max_size THEN 0 ELSE whead
             d1     == CopyIn(b.data, whead, items, 0, copied)
             d2     == CopyIn(d1, whead2, items, copied, n - copied)
  <2>1. insert_items_cbuffer_t(b, items)
          = IF n > b.max_size THEN b
            ELSE IF b.max_size - b.size >= n
            THEN [b EXCEPT !.data = d2, !.size = @ + n]
            ELSE [b EXCEPT !.data = d2, !.size = b.max_size,
                   !.head = (@ + (n - (b.max_size - b.size))) % b.max_size]
    BY DEF insert_items_cbuffer_t, whead
  <2>2. n = 1
    BY <1>2
  <2>3. copied = 0 /\ whead2 = whead /\ n - copied = 1
    BY <1>1, <1>5, <2>2
  <2> HIDE DEF copied, whead2
  <2>4. d2 = data2
    BY <2>3
  <2> HIDE DEF d1, d2, n
  <2> QED BY <1>1, <1>5, <2>1, <2>2, <2>4
<1> HIDE DEF data1, data2
<1>7. CASE b.size = max
  <2>1. insert_cbuffer_t(b, x) = [b EXCEPT !.data = data3, !.head = (@ + 1) % max]
    BY <1>1, <1>3, <1>7 DEF insert_cbuffer_t
  <2>2. /\ ~ (max - b.size >= 1) /\ 1 - (max - b.size) = 1
    BY <1>1, <1>7
  <2>3. (b.head + 1) % max \in 0 .. max - 1
    <3> DEFINE a == b.head + 1
    <3>1. a \in Nat
      BY <1>1
    <3> HIDE DEF a
    <3>2. a % max \in 0 .. max - 1
      BY <3>1, ModRange
    <3> QED BY <3>2 DEF a
  <2>4. insert_cbuffer_t(b, x).head < max
    <3>1. insert_cbuffer_t(b, x).head = (b.head + 1) % max
      BY <1>1, <2>1
    <3> QED BY <2>3, <3>1
  <2>5. insert_items_cbuffer_t(b, <<x>>)
          = [b EXCEPT !.data = data3, !.size = max, !.head = (@ + 1) % max]
    BY <1>4, <1>6, <2>2
  <2>6. [b EXCEPT !.data = data3, !.size = max, !.head = (@ + 1) % max]
          = [b EXCEPT !.data = data3, !.head = (@ + 1) % max]
    <3> DEFINE k == (b.head + 1) % max
    <3> HIDE DEF k, data3
    <3>1. [b EXCEPT !.data = data3, !.size = max, !.head = k]
            = [b EXCEPT !.data = data3, !.head = k]
      BY <1>1, <1>7
    <3> QED BY <3>1 DEF k
  <2> QED BY <2>1, <2>4, <2>5, <2>6
<1>8. CASE b.size # max
  <2>1. insert_cbuffer_t(b, x) = [b EXCEPT !.data = data3, !.size = @ + 1]
    BY <1>8, <1>1 DEF insert_cbuffer_t, whead
  <2>2. max - b.size >= 1
    BY <1>1, <1>8
  <2>3. insert_cbuffer_t(b, x).head = b.head
    BY <1>1, <2>1
  <2> QED BY <1>4, <1>6, <2>1, <2>2, <2>3
<1> QED
  BY <1>7, <1>8

LEMMA RemoveIsRemoveItems ==
  ASSUME NEW S, NEW max \in Nat \ {0}, NEW b \in cbuffer_t(S, max),
         b.head < max, b.size # 0
  PROVE  /\ remove_cbuffer_t(b) \in cbuffer_t(S, max)
         /\ remove_cbuffer_t(b).head < max
         /\ Contents(remove_cbuffer_t(b)) = Contents(remove_items_cbuffer_t(b, 1))
         /\ byte_at_head(b, S) = {Contents(b)[1]}
         /\ removed_items(b, 1) = <<Contents(b)[1]>>
<1> DEFINE r == remove_cbuffer_t(b)
           t == remove_items_cbuffer_t(b, 1)
           z == b.size - 1
<1>1. /\ b.data \in [0 .. max - 1 -> S] /\ b.head \in 0 .. max
      /\ b.size \in 0 .. max /\ b.max_size = max
      /\ b = [data |-> b.data, head |-> b.head, size |-> b.size,
              max_size |-> b.max_size]
  BY Fields
<1>2. (b.head + 1) % max = IF b.head + 1 < max THEN b.head + 1 ELSE 0
  <2> DEFINE a == b.head + 1
  <2>1. a \in Nat /\ a <= 2 * max /\ a <= max
    BY <1>1
  <2>2. a % max = IF a < max THEN a ELSE 0
    <3> HIDE DEF a
    <3> QED BY <2>1, ModTurns DEF Turned
  <2> QED BY <2>2
<1>3. r = [b EXCEPT !.head = (b.head + 1) % max, !.size = z]
  BY <1>1 DEF remove_cbuffer_t
<1>4. t = [b EXCEPT !.head = b.head + 1, !.size = z]
  <2>1. ~ (b.head + 1 > max) /\ ~ (1 > b.size) /\ b.head + (1 - 0) = b.head + 1
    BY <1>1
  <2> QED BY <1>1, <2>1 DEF remove_items_cbuffer_t
<1>5. z \in 0 .. max /\ b.head + 1 \in 0 .. max /\ (b.head + 1) % max \in 0 .. max - 1
  BY <1>1, <1>2
<1>6. /\ r \in cbuffer_t(S, max) /\ r.data = b.data /\ r.size = z
      /\ r.head = (b.head + 1) % max
  <2> DEFINE k == (b.head + 1) % max
  <2>1. k \in 0 .. max
    BY <1>5
  <2> HIDE DEF k, z
  <2>2. r = [b EXCEPT !.head = k, !.size = z]
    BY <1>3 DEF k
  <2> HIDE DEF r
  <2>3. r \in cbuffer_t(S, max) /\ r.data = b.data /\ r.size = z /\ r.head = k
    BY <1>5, <2>1, <2>2 DEF cbuffer_t
  <2> QED BY <2>3 DEF k
<1>7. /\ t \in cbuffer_t(S, max) /\ t.data = b.data /\ t.size = z
      /\ t.head = b.head + 1
  <2> DEFINE k == b.head + 1
  <2>1. k \in 0 .. max
    BY <1>5
  <2> HIDE DEF k, z
  <2>2. t = [b EXCEPT !.head = k, !.size = z]
    BY <1>4 DEF k
  <2> HIDE DEF t
  <2>3. t \in cbuffer_t(S, max) /\ t.data = b.data /\ t.size = z /\ t.head = k
    BY <1>5, <2>1, <2>2 DEF cbuffer_t
  <2> QED BY <2>3 DEF k
<1> HIDE DEF r, t
<1>8. Contents(r) = Contents(t)
  <2>1. /\ Contents(r) = [i \in 1 .. z |-> b.data[Place(r.head, max, i)]]
        /\ Contents(t) = [i \in 1 .. z |-> b.data[Place(t.head, max, i)]]
    <3>1. Contents(r) = [i \in 1 .. r.size |-> r.data[Place(r.head, max, i)]]
      BY <1>6, ContentsIs
    <3>2. Contents(t) = [i \in 1 .. t.size |-> t.data[Place(t.head, max, i)]]
      BY <1>7, ContentsIs
    <3> HIDE DEF z
    <3> QED BY <1>6, <1>7, <3>1, <3>2
  <2>2. ASSUME NEW i \in 1 .. z
        PROVE  Place(r.head, max, i) = Place(t.head, max, i)
    <3> DEFINE h == b.head
               k == r.head
               l == t.head
    <3>1. /\ h \in 0 .. max - 1 /\ l = h + 1 /\ i \in 1 .. max - 1
          /\ k = IF h + 1 < max THEN h + 1 ELSE 0
      BY <1>1, <1>2, <1>6, <1>7
    <3> HIDE DEF h, k, l
    <3>2. Place(k, max, i) = Place(l, max, i)
      BY <3>1 DEF Place
    <3> QED BY <3>2 DEF k, l
  <2> HIDE DEF z
  <2> QED BY <2>1, <2>2
<1>9. Contents(b)[1] = b.data[b.head] /\ b.head \in DOMAIN b.data
  <2>1. Contents(b) = [i \in 1 .. b.size |-> b.data[Place(b.head, max, i)]]
    BY ContentsIs
  <2>2. 1 \in 1 .. b.size /\ b.head \in 0 .. max - 1
    BY <1>1
  <2>3. Place(b.head, max, 1) = b.head
    BY <2>2 DEF Place
  <2> QED BY <1>1, <2>1, <2>2, <2>3
<1>10. removed_items(b, 1) = <<Contents(b)[1]>>
  <2> DEFINE c == Contents(b)
             f == SubSeq(c, 1, 1)
  <2>1. 1 <= b.size /\ 1 \in Nat /\ c \in Seq(S) /\ Len(c) = b.size
    BY <1>1, ContentsIs
  <2>2. removed_items(b, 1) = f
    BY <2>1, RemoveItemsDrops
  <2> HIDE DEF c
  <2>3. 1 \in 0 .. Len(c)
    BY <1>1, <2>1
  <2>4. f \in Seq(S) /\ Len(f) = 1 /\ f[1] = c[1]
    BY <2>1, <2>3, SliceFromOne
  <2> HIDE DEF f
  <2>5. f = <<c[1]>>
    BY <2>4
  <2> QED BY <2>2, <2>5 DEF c
<1> QED
  BY <1>5, <1>6, <1>8, <1>9, <1>10 DEF byte_at_head, r, t
================================================================================
