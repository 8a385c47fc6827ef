--------------------------- MODULE CountingProofs ---------------------------
(***************************************************************************)
(* General facts the proofs share: how a cardinality changes when one      *)
(* element enters or leaves a set, and sequences without repetitions.      *)
(***************************************************************************)
EXTENDS Integers, Sequences, FiniteSets, FiniteSetTheorems, SequenceTheorems,
        WellFoundedInduction, SequencesExt, TLAPS

Count(b) == IF b THEN 1 ELSE 0

(* Two finite sets that agree except on x differ by x in cardinality. *)
LEMMA CardinalityStep ==
  ASSUME NEW S, NEW T, NEW x, IsFiniteSet(S), S \ {x} = T \ {x}
  PROVE  /\ Cardinality(S) \in Nat /\ Cardinality(T) \in Nat
         /\ Cardinality(T) = Cardinality(S) + Count(x \in T) - Count(x \in S)
<1>1. Cardinality(S) \in Nat
  BY FS_CardinalityType
<1>2. CASE x \in S /\ x \in T
  <2>1. S = T
    BY <1>2
  <2> QED BY <1>1, <1>2, <2>1 DEF Count
<1>3. CASE x \notin S /\ x \notin T
  <2>1. S = T
    BY <1>3
  <2> QED BY <1>1, <1>3, <2>1 DEF Count
<1>4. CASE x \notin S /\ x \in T
  <2>1. T = S \cup {x}
    BY <1>4
  <2>2. Cardinality(T) = Cardinality(S) + 1
    BY <1>4, <2>1, FS_AddElement
  <2> QED BY <1>1, <1>4, <2>2 DEF Count
<1>5. CASE x \in S /\ x \notin T
  <2>1. T = S \ {x}
    BY <1>5
  <2>2. Cardinality(T) = Cardinality(S) - 1 /\ IsFiniteSet(T)
    BY <1>5, <2>1, FS_RemoveElement
  <2>3. Cardinality(T) \in Nat
    BY <2>2, FS_CardinalityType
  <2> QED BY <1>1, <1>5, <2>2, <2>3 DEF Count
<1> QED
  BY <1>2, <1>3, <1>4, <1>5
(* A function on 1 .. n is a sequence of length n. *)
LEMMA FunctionIsSeq ==
  ASSUME NEW S, NEW n \in Nat, NEW f \in [1 .. n -> S]
  PROVE  f \in Seq(S) /\ Len(f) = n
<1>1. f \in Seq(S) BY SeqDef
<1> QED BY <1>1, LenProperties

(* A set of natural numbers that is not empty has a least element. *)
LEMMA LeastElement ==
  ASSUME NEW S \in SUBSET Nat, S # {}
  PROVE  \E n \in S : \A m \in S : n <= m
<1> DEFINE R == {ss \in Nat \X Nat : ss[1] < ss[2]}
<1>1. OpToRel(<, Nat) = R
  BY DEF OpToRel
<1>2. IsWellFoundedOn(R, Nat)
  BY <1>1, NatLessThanWellFounded
<1>3. PICK n \in S : \A m \in S : ~ (<<m, n>> \in R)
  <2> HIDE DEF R
  <2> QED BY <1>2, WFMin
<1>4. \A m \in S : ~ (m < n)
  BY <1>3
<1> QED
  BY <1>4

-----------------------------------------------------------------------------
(* Sequences whose elements are all different. *)

Elements(q) == {q[i] : i \in 1 .. Len(q)}
Distinct(q) == \A i, j \in 1 .. Len(q) : q[i] = q[j] => i = j

(* There are as many elements as positions. *)
LEMMA DistinctCardinality ==
  ASSUME NEW S, NEW q \in Seq(S), Distinct(q)
  PROVE  IsFiniteSet(Elements(q)) /\ Cardinality(Elements(q)) = Len(q)
<1>1. q \in Bijection(1 .. Len(q), Elements(q))
  <2>1. q \in [1 .. Len(q) -> Elements(q)]
    BY DEF Elements
  <2>2. \A i, j \in 1 .. Len(q) : q[i] = q[j] => i = j
    BY DEF Distinct
  <2>3. \A e \in Elements(q) : \E i \in 1 .. Len(q) : q[i] = e
    BY DEF Elements
  <2> QED
    BY <2>1, <2>2, <2>3
    DEF Bijection, Injection, Surjection, IsInjective
<1>2. ExistsBijection(1 .. Len(q), Elements(q))
  BY <1>1 DEF ExistsBijection
<1>3. Len(q) \in Nat
  OBVIOUS
<1> QED
  BY <1>2, <1>3, FS_CountingElements, FS_NatBijection

(* Joining at the end. *)
LEMMA DistinctAppend ==
  ASSUME NEW S, NEW q \in Seq(S), NEW x \in S
  PROVE  /\ Append(q, x) \in Seq(S)
         /\ Elements(Append(q, x)) = Elements(q) \cup {x}
         /\ Distinct(q) /\ x \notin Elements(q) => Distinct(Append(q, x))
<1> DEFINE r == Append(q, x)
<1>1. /\ r \in Seq(S) /\ Len(r) = Len(q) + 1
      /\ \A i \in 1 .. Len(q) : r[i] = q[i]
      /\ r[Len(q) + 1] = x
  OBVIOUS
<1> HIDE DEF r
<1>2. Elements(r) = Elements(q) \cup {x}
  BY <1>1 DEF Elements
<1>3. Distinct(q) /\ x \notin Elements(q) => Distinct(r)
  BY <1>1 DEF Distinct, Elements
<1> QED
  BY <1>1, <1>2, <1>3 DEF r

(* Joining at the front. *)
LEMMA DistinctCons ==
  ASSUME NEW S, NEW q \in Seq(S), NEW x \in S
  PROVE  /\ <<x>> \o q \in Seq(S)
         /\ Elements(<<x>> \o q) = Elements(q) \cup {x}
         /\ Distinct(q) /\ x \notin Elements(q) => Distinct(<<x>> \o q)
<1> DEFINE r == <<x>> \o q
<1>1. /\ r \in Seq(S) /\ Len(r) = Len(q) + 1
      /\ \A i \in 2 .. Len(q) + 1 : r[i] = q[i - 1]
      /\ r[1] = x
  OBVIOUS
<1> HIDE DEF r
<1>2. \A i \in 1 .. Len(q) : r[i + 1] = q[i]
  BY <1>1
<1>3. Elements(r) = Elements(q) \cup {x}
  <2>1. Elements(q) \cup {x} \subseteq Elements(r)
    <3>1. \A k \in 1 .. Len(q) : k + 1 \in 1 .. Len(r) /\ r[k + 1] = q[k]
      BY <1>1, <1>2
    <3>2. 1 \in 1 .. Len(r) /\ r[1] = x
      BY <1>1
    <3> QED BY <3>1, <3>2, Zenon DEF Elements
  <2>2. \A i \in 1 .. Len(r) : r[i] \in Elements(q) \cup {x}
    BY <1>1 DEF Elements
  <2> QED BY <2>1, <2>2 DEF Elements
<1>4. ASSUME Distinct(q), x \notin Elements(q)  PROVE  Distinct(r)
  <2>1. \A i \in 2 .. Len(r) : i - 1 \in 1 .. Len(q) /\ r[i] # x
    BY <1>1, <1>4 DEF Elements
  <2>2. \A i, j \in 2 .. Len(r) : r[i] = r[j] => i - 1 = j - 1
    <3> SUFFICES ASSUME NEW i \in 2 .. Len(r), NEW j \in 2 .. Len(r), r[i] = r[j]
                 PROVE  i - 1 = j - 1
      OBVIOUS
    <3>1. /\ i - 1 \in 1 .. Len(q) /\ j - 1 \in 1 .. Len(q)
          /\ i \in 2 .. Len(q) + 1 /\ j \in 2 .. Len(q) + 1
      BY <1>1
    <3>2. q[i - 1] = q[j - 1]
      BY <1>1, <3>1
    <3> QED BY <1>4, <3>1, <3>2, Zenon DEF Distinct
  <2>3. \A i \in 1 .. Len(r) : i = 1 \/ i \in 2 .. Len(r)
    BY <1>1
  <2> QED BY <1>1, <2>1, <2>2, <2>3 DEF Distinct
<1> QED
  BY <1>1, <1>3, <1>4 DEF r

(* Leaving the front. *)
LEMMA DistinctTail ==
  ASSUME NEW S, NEW q \in Seq(S), q # << >>
  PROVE  /\ Tail(q) \in Seq(S) /\ Head(q) \in Elements(q)
         /\ Head(q) \in S
         /\ Elements(q) = Elements(Tail(q)) \cup {Head(q)}
         /\ Distinct(q) => Distinct(Tail(q)) /\ Head(q) \notin Elements(Tail(q))
<1> DEFINE r == Tail(q)
<1>1. /\ r \in Seq(S) /\ Len(r) = Len(q) - 1 /\ Len(q) >= 1
      /\ \A i \in 1 .. Len(q) - 1 : r[i] = q[i + 1]
      /\ Head(q) = q[1] /\ q[1] \in S
  OBVIOUS
<1> HIDE DEF r
<1>2. \A i \in 2 .. Len(q) : q[i] = r[i - 1]
  BY <1>1
<1>3. Elements(q) = Elements(r) \cup {q[1]}
  <2>1. /\ q[1] \in Elements(q)
        /\ \A i \in 1 .. Len(r) : r[i] \in Elements(q)
    BY <1>1 DEF Elements
  <2>2. \A i \in 1 .. Len(q) : i = 1 \/ (i - 1 \in 1 .. Len(r) /\ i \in 2 .. Len(q))
    BY <1>1
  <2>3. \A i \in 1 .. Len(q) : q[i] \in Elements(r) \cup {q[1]}
    BY <1>1, <1>2, <2>2 DEF Elements
  <2> QED BY <2>1, <2>3 DEF Elements
<1>4. ASSUME Distinct(q)  PROVE  Distinct(r) /\ q[1] \notin Elements(r)
  <2>1. \A i \in 1 .. Len(r) : /\ r[i] = q[i + 1] /\ i + 1 # 1
                               /\ i + 1 \in 1 .. Len(q) /\ 1 \in 1 .. Len(q)
    BY <1>1
  <2>2. q[1] \notin Elements(r)
    <3>1. \A i \in 1 .. Len(r) : r[i] # q[1]
      BY <1>4, <2>1, Zenon DEF Distinct
    <3> QED BY <3>1, Zenon DEF Elements
  <2>3. \A i, j \in 1 .. Len(r) : r[i] = r[j] => i + 1 = j + 1
    BY <1>4, <2>1, Zenon DEF Distinct
  <2>4. \A i, j \in 1 .. Len(r) : i + 1 = j + 1 => i = j
    BY <1>1
  <2> QED BY <2>2, <2>3, <2>4, Zenon DEF Distinct
<1> QED
  BY <1>1, <1>3, <1>4 DEF r, Elements

(* Leaving from anywhere. *)
LEMMA DistinctRemove ==
  ASSUME NEW S, NEW q \in Seq(S), NEW i \in 1 .. Len(q)
  PROVE  /\ RemoveAt(q, i) \in Seq(S)
         /\ Len(RemoveAt(q, i)) = Len(q) - 1
         /\ \A j \in 1 .. Len(q) - 1 :
              RemoveAt(q, i)[j] = IF j < i THEN q[j] ELSE q[j + 1]
         /\ Distinct(q) => /\ Distinct(RemoveAt(q, i))
                           /\ Elements(RemoveAt(q, i)) = Elements(q) \ {q[i]}
<1> DEFINE r == RemoveAt(q, i)
           a == SubSeq(q, 1, i - 1)
           b == SubSeq(q, i + 1, Len(q))
<1>1. /\ a \in Seq(S) /\ Len(a) = i - 1
      /\ \A j \in 1 .. i - 1 : a[j] = q[j]
  BY SubSeqProperties
<1>2. /\ b \in Seq(S) /\ Len(b) = Len(q) - i
      /\ \A j \in 1 .. Len(q) - i : b[j] = q[j + i]
  BY SubSeqProperties
<1>3. r = a \o b
  BY DEF RemoveAt
<1> HIDE DEF a, b, r
<1>4. r \in Seq(S) /\ Len(r) = Len(q) - 1
  BY <1>1, <1>2, <1>3
<1>5. \A j \in 1 .. Len(q) - 1 : r[j] = IF j < i THEN q[j] ELSE q[j + 1]
  <2> TAKE j \in 1 .. Len(q) - 1
  <2>1. r[j] = IF j < i THEN a[j] ELSE b[j - (i - 1)]
    BY <1>1, <1>2, <1>3
  <2>2. j >= i => b[j - (i - 1)] = q[(j - (i - 1)) + i]
    BY <1>2
  <2> QED BY <1>1, <2>1, <2>2
<1>6. ASSUME Distinct(q)
      PROVE  Distinct(r) /\ Elements(r) = Elements(q) \ {q[i]}
  <2>1. Distinct(r)
    BY <1>4, <1>5, <1>6 DEF Distinct
  <2>2. \A j \in 1 .. Len(r) : r[j] \in Elements(q) \ {q[i]}
    BY <1>4, <1>5, <1>6 DEF Distinct, Elements
  <2>3. \A j \in 1 .. Len(q) : j # i => q[j] \in Elements(r)
    <3> SUFFICES ASSUME NEW j \in 1 .. Len(q), j # i
                 PROVE  \E k \in 1 .. Len(r) : r[k] = q[j]
      BY DEF Elements
    <3>1. CASE j < i
      BY <1>4, <1>5, <3>1
    <3>2. CASE j > i
      <4>1. j - 1 \in 1 .. Len(q) - 1 /\ ~ (j - 1 < i) /\ (j - 1) + 1 = j
        BY <3>2
      <4> QED BY <1>4, <1>5, <4>1
    <3> QED BY <3>1, <3>2
  <2> QED BY <2>1, <2>2, <2>3 DEF Elements
<1> QED
  BY <1>4, <1>5, <1>6 DEF r

-----------------------------------------------------------------------------
(***************************************************************************)
(* Sums.  SumFunction is defined by recursion over the subsets of the      *)
(* function's domain.  The recursion has a solution, by induction on the   *)
(* cardinality of the subsets, and by another induction the sum changes as *)
(* one of its terms does.                                                  *)
(***************************************************************************)

(* Induction, for a set of natural numbers. *)
LEMMA SetInduction ==
  ASSUME NEW N \in SUBSET Nat, 0 \in N, \A n \in N : n + 1 \in N
  PROVE  N = Nat
<1> SUFFICES ASSUME Nat \ N # {}  PROVE FALSE
  OBVIOUS
<1>1. PICK n \in Nat \ N : \A m \in Nat \ N : n <= m
  <2>1. Nat \ N \in SUBSET Nat
    OBVIOUS
  <2> QED BY <2>1, LeastElement
<1>2. n # 0 /\ n - 1 \in Nat
  BY <1>1
<1>3. n - 1 \in N
  BY <1>1, <1>2
<1>4. (n - 1) + 1 \in N
  BY <1>3
<1> QED
  BY <1>1, <1>4

(* h is the sequence of states of a loop of n rounds.                      *)
IsRun(h, n, start, round) ==
  \A k \in 0 .. n : h[k] = IF k = 0 THEN start ELSE round[k][h[k - 1]]

(* A loop of n rounds, round k of which takes a state of S to another, has *)
(* a sequence of states, and all of them are in S.                         *)
LEMMA LoopRuns ==
  ASSUME NEW S, NEW n \in Nat, NEW start \in S,
         NEW round \in [1 .. n -> [S -> S]]
  PROVE  \E h \in [0 .. n -> S] : IsRun(h, n, start, round)
<1> DEFINE Runs(h, m) == \A k \in 0 .. m :
                           h[k] = IF k = 0 THEN start ELSE round[k][h[k - 1]]
           N == {m \in Nat : m <= n => \E h \in [0 .. m -> S] : Runs(h, m)}
<1>1. 0 \in N
  <2>1. [k \in 0 .. 0 |-> start] \in [0 .. 0 -> S]
        /\ Runs([k \in 0 .. 0 |-> start], 0)
    OBVIOUS
  <2> QED BY <2>1
<1>2. ASSUME NEW m \in N, m + 1 <= n
      PROVE  \E g \in [0 .. m + 1 -> S] : Runs(g, m + 1)
  <2>1. PICK h \in [0 .. m -> S] : Runs(h, m)
    BY <1>2
  <2> DEFINE g == [k \in 0 .. m + 1 |-> IF k = m + 1 THEN round[m + 1][h[m]] ELSE h[k]]
  <2>2. m \in Nat /\ m + 1 \in 1 .. n /\ h[m] \in S
    BY <1>2
  <2>3. g \in [0 .. m + 1 -> S]
    <3>1. round[m + 1][h[m]] \in S
      BY <2>2
    <3> QED BY <2>1, <2>2, <3>1
  <2>4. ASSUME NEW k \in 0 .. m + 1
        PROVE  g[k] = IF k = 0 THEN start ELSE round[k][g[k - 1]]
    <3>1. CASE k = m + 1
      <4>1. k - 1 = m /\ m \in 0 .. m + 1 /\ m # m + 1 /\ k # 0
        BY <2>2, <3>1
      <4>2. g[m] = h[m] /\ g[k] = round[k][h[m]]
        BY <3>1, <4>1
      <4> QED BY <4>1, <4>2
    <3>2. CASE k # m + 1
      <4>1. k \in 0 .. m /\ (k # 0 => k - 1 \in 0 .. m /\ k - 1 # m + 1)
        BY <2>2, <3>2
      <4>2. g[k] = h[k] /\ (k # 0 => g[k - 1] = h[k - 1])
        BY <3>2, <4>1
      <4> QED BY <2>1, <4>1, <4>2
    <3> QED BY <3>1, <3>2
  <2> HIDE DEF g
  <2> QED BY <2>3, <2>4
<1>3. N \in SUBSET Nat /\ \A m \in N : m + 1 \in N
  <2> HIDE DEF Runs
  <2>1. N \in SUBSET Nat
    OBVIOUS
  <2>2. ASSUME NEW m \in N  PROVE m + 1 \in N
    <3>1. m + 1 <= n => \E h \in [0 .. m + 1 -> S] : Runs(h, m + 1)
      BY <1>2
    <3> QED BY <3>1
  <2> QED BY <2>1, <2>2
<1> HIDE DEF N
<1>4. n \in N
  BY <1>1, <1>3, SetInduction
<1>5. PICK h \in [0 .. n -> S] : Runs(h, n)
  BY <1>4 DEF N
<1> QED
  BY <1>5 DEF IsRun

(* What each round hands on to the next holds of all the states. *)
LEMMA LoopKeeps ==
  ASSUME NEW inv, NEW n \in Nat, NEW h, h[0] \in inv[0],
         \A k \in 1 .. n : h[k - 1] \in inv[k - 1] => h[k] \in inv[k]
  PROVE  \A k \in 0 .. n : h[k] \in inv[k]
<1> DEFINE N == {m \in Nat : m <= n => h[m] \in inv[m]}
<1>1. 0 \in N
  OBVIOUS
<1>2. ASSUME NEW m \in N, m + 1 <= n  PROVE h[m + 1] \in inv[m + 1]
  <2>1. m + 1 \in 1 .. n /\ (m + 1) - 1 = m /\ h[m] \in inv[m]
    BY <1>2
  <2> QED BY <2>1
<1>3. N \in SUBSET Nat /\ \A m \in N : m + 1 \in N
  BY <1>2
<1>4. N = Nat
  <2> HIDE DEF N
  <2> QED BY <1>1, <1>3, SetInduction
<1>5. \A k \in 0 .. n : k \in N /\ k <= n
  <2> HIDE DEF N
  <2> QED BY <1>4
<1> QED
  BY <1>5

LEMMA LoopStays ==
  ASSUME NEW S, NEW n \in Nat, NEW h, h[0] \in S,
         \A k \in 1 .. n : h[k - 1] \in S => h[k] \in S
  PROVE  \A k \in 0 .. n : h[k] \in S
<1> DEFINE inv == [k \in 0 .. n |-> S]
<1>1. \A k \in 0 .. n : inv[k] = S
  OBVIOUS
<1>2. 0 \in 0 .. n /\ \A k \in 1 .. n : k \in 0 .. n /\ k - 1 \in 0 .. n
  OBVIOUS
<1> HIDE DEF inv
<1>3. h[0] \in inv[0] /\ \A k \in 1 .. n : h[k - 1] \in inv[k - 1] => h[k] \in inv[k]
  BY <1>1, <1>2
<1>4. \A k \in 0 .. n : h[k] \in inv[k]
  BY <1>3, LoopKeeps
<1> QED
  BY <1>1, <1>4

Pick(s) == CHOOSE x \in s : TRUE

(* h gives the sums of f over the subsets of S that have at most n         *)
(* elements.                                                               *)
SmallSubsets(S, n) == {s \in SUBSET S : Cardinality(s) <= n}
Sums(f, h, subsets) ==
  \A s \in subsets :
    h[s] = IF s = {} THEN 0 ELSE f[Pick(s)] + h[s \ {Pick(s)}]

LEMMA PickSmaller ==
  ASSUME NEW S, IsFiniteSet(S), NEW n \in Nat,
         NEW s \in SmallSubsets(S, n + 1), s # {}
  PROVE  Pick(s) \in s /\ Pick(s) \in S /\ s \ {Pick(s)} \in SmallSubsets(S, n)
<1>1. Pick(s) \in s
  BY DEF Pick
<1>2. s \subseteq S /\ IsFiniteSet(s)
  BY FS_Subset DEF SmallSubsets
<1>3. Cardinality(s \ {Pick(s)}) = Cardinality(s) - 1 /\ Cardinality(s) \in Nat
  BY <1>1, <1>2, FS_RemoveElement, FS_CardinalityType
<1> QED
  BY <1>1, <1>2, <1>3 DEF SmallSubsets

LEMMA SumsExist ==
  ASSUME NEW S, IsFiniteSet(S), NEW f \in [S -> Int]
  PROVE  \E h \in [SUBSET S -> Int] : Sums(f, h, SUBSET S)
<1> DEFINE Known(n) == \E h \in [SmallSubsets(S, n) -> Int] :
                         Sums(f, h, SmallSubsets(S, n))
           N == {n \in Nat : Known(n)}
<1>1. Known(0)
  <2> DEFINE h == [s \in SmallSubsets(S, 0) |-> 0]
  <2>1. \A s \in SmallSubsets(S, 0) : s = {}
    <3> TAKE s \in SmallSubsets(S, 0)
    <3>1. s \subseteq S /\ IsFiniteSet(s) /\ Cardinality(s) <= 0
      BY FS_Subset DEF SmallSubsets
    <3> QED BY <3>1, FS_CardinalityType, FS_EmptySet
  <2>2. h \in [SmallSubsets(S, 0) -> Int] /\ Sums(f, h, SmallSubsets(S, 0))
    BY <2>1 DEF Sums
  <2> QED BY <2>2
<1>2. ASSUME NEW n \in Nat, Known(n)
      PROVE  Known(n + 1)
  <2> DEFINE D == SmallSubsets(S, n)
             E == SmallSubsets(S, n + 1)
  <2>1. PICK h \in [D -> Int] : Sums(f, h, D)
    BY <1>2
  <2> DEFINE g == [s \in E |-> IF s = {} THEN 0
                               ELSE f[Pick(s)] + h[s \ {Pick(s)}]]
  <2>2. \A s \in E : s # {} => /\ Pick(s) \in S /\ s \ {Pick(s)} \in D
    BY PickSmaller
  <2>3. D \subseteq E
    <3> SUFFICES ASSUME NEW s \in D  PROVE s \in E
      OBVIOUS
    <3>1. s \in SUBSET S /\ IsFiniteSet(s) /\ Cardinality(s) <= n
      BY FS_Subset DEF SmallSubsets
    <3>2. Cardinality(s) \in Nat
      BY <3>1, FS_CardinalityType
    <3> QED BY <3>1, <3>2 DEF SmallSubsets
  <2> HIDE DEF D, E
  <2>4. g \in [E -> Int]
    BY <2>1, <2>2
  <2>5. \A s \in D : g[s] = h[s]
    BY <2>1, <2>3 DEF Sums
  <2>6. Sums(f, g, E)
    <3> SUFFICES ASSUME NEW s \in E
                 PROVE  g[s] = IF s = {} THEN 0 ELSE f[Pick(s)] + g[s \ {Pick(s)}]
      BY DEF Sums
    <3> QED BY <2>2, <2>5
  <2> HIDE DEF g
  <2> QED BY <2>4, <2>6 DEF E
<1> HIDE DEF Known
<1>3. N = Nat
  <2>1. N \in SUBSET Nat /\ 0 \in N /\ \A n \in N : n + 1 \in N
    BY <1>1, <1>2
  <2> HIDE DEF N
  <2> QED BY <2>1, SetInduction
<1>4. Cardinality(S) \in Nat /\ SmallSubsets(S, Cardinality(S)) = SUBSET S
  BY FS_CardinalityType, FS_Subset DEF SmallSubsets
<1>5. Known(Cardinality(S))
  BY <1>3, <1>4
<1> QED
  BY <1>4, <1>5 DEF Known

(* What SumFunction does, and the sums of the subsets on the way. *)
LEMMA SumsOf ==
  ASSUME NEW S, IsFiniteSet(S), NEW f \in [S -> Int]
  PROVE  \E h : /\ Sums(f, h, SUBSET S)
                /\ SumFunction(f) = h[S]
<1> DEFINE Step(h) == [s \in SUBSET S |->
                        IF s = {} THEN 0
                        ELSE LET x == CHOOSE x \in s : TRUE
                             IN  f[x] + h[s \ {x}]]
           iter == CHOOSE h : h = Step(h)
<1>1. SumFunction(f) = iter[S]
  <2>1. DOMAIN f = S
    OBVIOUS
  <2> QED
    BY <2>1 DEF SumFunction, SumFunctionOnSet, FoldFunctionOnSet, MapThenFoldSet
<1>2. \E h : h = Step(h)
  <2>1. PICK h \in [SUBSET S -> Int] : Sums(f, h, SUBSET S)
    BY SumsExist
  <2>2. h = Step(h)
    BY <2>1 DEF Sums, Pick
  <2> QED BY <2>2
<1>3. iter = Step(iter)
  <2> HIDE DEF Step
  <2> QED BY <1>2
<1>4. Sums(f, iter, SUBSET S)
  <2> HIDE DEF iter
  <2> QED BY <1>3 DEF Sums, Pick
<1> QED
  BY <1>1, <1>4

(* A sum of integers is an integer, and if two functions differ at c only, *)
(* so do their sums, by the same difference.                               *)
LEMMA SumStep ==
  ASSUME NEW S, IsFiniteSet(S), NEW f \in [S -> Int], NEW g \in [S -> Int],
         NEW c \in S, \A x \in S \ {c} : g[x] = f[x]
  PROVE  /\ SumFunction(f) \in Int
         /\ SumFunction(g) = SumFunction(f) + g[c] - f[c]
<1>1. PICK hf : Sums(f, hf, SUBSET S) /\ SumFunction(f) = hf[S]
  BY SumsOf
<1>2. PICK hg : Sums(g, hg, SUBSET S) /\ SumFunction(g) = hg[S]
  BY SumsOf
<1> DEFINE Change(s) == IF c \in s THEN g[c] - f[c] ELSE 0
           Good(s) == hf[s] \in Int /\ hg[s] = hf[s] + Change(s)
           N == {n \in Nat : \A s \in SmallSubsets(S, n) : Good(s)}
<1>3. \A s \in SmallSubsets(S, 0) : Good(s)
  <2> SUFFICES ASSUME NEW s \in SmallSubsets(S, 0)  PROVE Good(s)
    OBVIOUS
  <2>1. s \subseteq S /\ IsFiniteSet(s) /\ Cardinality(s) <= 0
    BY FS_Subset DEF SmallSubsets
  <2>2. s = {}
    BY <2>1, FS_CardinalityType, FS_EmptySet
  <2>3. hf[s] = 0 /\ hg[s] = 0 /\ Change(s) = 0
    BY <1>1, <1>2, <2>2 DEF Sums
  <2> QED BY <2>3
<1>4. ASSUME NEW n \in Nat, \A s \in SmallSubsets(S, n) : Good(s)
      PROVE  \A s \in SmallSubsets(S, n + 1) : Good(s)
  <2> SUFFICES ASSUME NEW s \in SmallSubsets(S, n + 1)  PROVE Good(s)
    OBVIOUS
  <2> DEFINE p == Pick(s)
             t == s \ {p}
  <2>1. CASE s = {}
    <3>1. hf[s] = 0 /\ hg[s] = 0 /\ Change(s) = 0
      BY <1>1, <1>2, <2>1 DEF Sums
    <3> QED BY <3>1
  <2>2. CASE s # {}
    <3>1. p \in s /\ p \in S /\ t \in SmallSubsets(S, n)
      BY <2>2, PickSmaller
    <3>2. hf[t] \in Int /\ hg[t] = hf[t] + Change(t)
      <4> HIDE DEF Change, t
      <4> QED BY <1>4, <3>1
    <3>3. hf[s] = f[p] + hf[t] /\ hg[s] = g[p] + hg[t]
      BY <1>1, <1>2, <2>2 DEF Sums, SmallSubsets
    <3>4. f[p] \in Int /\ g[p] \in Int /\ f[c] \in Int /\ g[c] \in Int
      BY <3>1
    <3>5. CASE p = c
      <4>1. Change(t) = 0 /\ Change(s) = g[p] - f[p]
        BY <3>1, <3>5
      <4> HIDE DEF Change, p, t
      <4> QED BY <3>2, <3>3, <3>4, <4>1
    <3>6. CASE p # c
      <4>1. Change(t) = Change(s) /\ g[p] = f[p] /\ Change(s) \in Int
        BY <3>1, <3>4, <3>6
      <4> HIDE DEF Change, p, t
      <4> QED BY <3>2, <3>3, <3>4, <4>1
    <3> QED BY <3>5, <3>6
  <2> QED BY <2>1, <2>2
<1> HIDE DEF Good
<1>5. N = Nat
  <2>1. N \in SUBSET Nat /\ 0 \in N /\ \A n \in N : n + 1 \in N
    BY <1>3, <1>4
  <2> HIDE DEF N
  <2> QED BY <2>1, SetInduction
<1>6. S \in SmallSubsets(S, Cardinality(S)) /\ Cardinality(S) \in Nat
  BY FS_CardinalityType DEF SmallSubsets
<1>7. Good(S)
  BY <1>5, <1>6
<1>8. SumFunction(f) \in Int /\ SumFunction(g) = SumFunction(f) + (g[c] - f[c])
  BY <1>1, <1>2, <1>7 DEF Good
<1>9. f[c] \in Int /\ g[c] \in Int
  OBVIOUS
<1> QED
  BY <1>8, <1>9

(* Induction, for the subsets of a finite set. *)
LEMMA SubsetInduction ==
  ASSUME NEW S, IsFiniteSet(S), NEW P,
         \A s \in SUBSET S : (\A x \in s : s \ {x} \in P) => s \in P
  PROVE  \A s \in SUBSET S : s \in P
<1> DEFINE N == {n \in Nat : \A s \in SmallSubsets(S, n) : s \in P}
<1>1. ASSUME NEW s \in SmallSubsets(S, 0)  PROVE s \in P
  <2>1. s \in SUBSET S /\ IsFiniteSet(s) /\ Cardinality(s) <= 0
    BY FS_Subset DEF SmallSubsets
  <2>2. s = {}
    BY <2>1, FS_CardinalityType, FS_EmptySet
  <2> QED BY <2>1, <2>2
<1>2. ASSUME NEW n \in Nat, \A s \in SmallSubsets(S, n) : s \in P,
             NEW s \in SmallSubsets(S, n + 1)
      PROVE  s \in P
  <2>1. s \in SUBSET S /\ IsFiniteSet(s) /\ Cardinality(s) <= n + 1
    BY FS_Subset DEF SmallSubsets
  <2>2. ASSUME NEW x \in s  PROVE s \ {x} \in SmallSubsets(S, n)
    <3>1. Cardinality(s \ {x}) = Cardinality(s) - 1 /\ Cardinality(s) \in Nat
      BY <2>1, FS_RemoveElement, FS_CardinalityType
    <3> QED BY <2>1, <3>1 DEF SmallSubsets
  <2> QED BY <1>2, <2>1, <2>2
<1>3. N \in SUBSET Nat /\ 0 \in N /\ \A n \in N : n + 1 \in N
  BY <1>1, <1>2
<1>4. N = Nat
  <2> HIDE DEF N
  <2> QED BY <1>3, SetInduction
<1>5. \A s \in SUBSET S : s \in SmallSubsets(S, Cardinality(S))
  BY FS_CardinalityType, FS_Subset DEF SmallSubsets
<1>6. Cardinality(S) \in N
  <2> HIDE DEF N
  <2> QED BY <1>4, FS_CardinalityType
<1> QED
  BY <1>5, <1>6

LEMMA SumsAreInts ==
  ASSUME NEW S, IsFiniteSet(S), NEW f \in [S -> Int], NEW h, Sums(f, h, SUBSET S)
  PROVE  \A s \in SUBSET S : h[s] \in Int
<1> DEFINE P == {s \in SUBSET S : h[s] \in Int}
<1>1. ASSUME NEW s \in SUBSET S, \A x \in s : s \ {x} \in P
      PROVE  s \in P
  <2>1. CASE s = {}
    <3>1. h[s] = 0
      BY <2>1 DEF Sums
    <3> QED BY <3>1
  <2>2. CASE s # {}
    <3>1. Pick(s) \in s
      BY <2>2 DEF Pick
    <3>2. h[s] = f[Pick(s)] + h[s \ {Pick(s)}]
      BY <2>2 DEF Sums
    <3> QED BY <1>1, <3>1, <3>2
  <2> QED BY <2>1, <2>2
<1>2. \A s \in SUBSET S : s \in P
  <2> HIDE DEF P
  <2> QED BY <1>1, SubsetInduction
<1> QED
  BY <1>2

(* The order in which the terms are added does not matter. *)
AnyOrder(f, h, subsets) == \A s \in subsets : \A y \in s : h[s] = f[y] + h[s \ {y}]

LEMMA SumOrder ==
  ASSUME NEW S, IsFiniteSet(S), NEW f \in [S -> Int], NEW h, Sums(f, h, SUBSET S)
  PROVE  AnyOrder(f, h, SUBSET S)
<1> DEFINE P == {s \in SUBSET S : \A y \in s : h[s] = f[y] + h[s \ {y}]}
<1>1. ASSUME NEW s \in SUBSET S, \A x \in s : s \ {x} \in P
      PROVE  \A y \in s : h[s] = f[y] + h[s \ {y}]
  <2> DEFINE p == Pick(s)
  <2>1. CASE s = {}
    BY <2>1 DEF Sums
  <2>2. CASE s # {}
    <3>1. p \in s /\ h[s] = f[p] + h[s \ {p}]
      BY <2>2 DEF Sums, Pick
    <3> HIDE DEF p
    <3>2. \A x \in s : /\ f[x] \in Int /\ h[s \ {x}] \in Int
                       /\ \A y \in s \ {x} : h[s \ {x}] = f[y] + h[(s \ {x}) \ {y}]
      BY <1>1, SumsAreInts
    <3>3. ASSUME NEW y \in s, y # p  PROVE h[s] = f[y] + h[s \ {y}]
      <4> DEFINE r == h[(s \ {p}) \ {y}]
                 hp == h[s \ {p}]
                 hy == h[s \ {y}]
      <4>1. (s \ {y}) \ {p} = (s \ {p}) \ {y}
        OBVIOUS
      <4>2. hp = f[y] + r
        BY <3>1, <3>2, <3>3
      <4>3. hy = f[p] + r
        BY <3>1, <3>2, <3>3, <4>1
      <4>4. y \in s \ {p} /\ p \in s \ {y} /\ h[s] = f[p] + hp
        BY <3>1, <3>3
      <4>5. f[y] \in Int /\ f[p] \in Int /\ hp \in Int
        BY <3>1, <3>2
      <4>6. r \in Int
        BY SumsAreInts
      <4> HIDE DEF r, hp, hy
      <4>7. h[s] = f[y] + hy
        BY <4>2, <4>3, <4>4, <4>5, <4>6
      <4> QED BY <4>7 DEF hy
    <3> QED BY <3>1, <3>3
  <2> QED BY <2>1, <2>2
<1>2. \A s \in SUBSET S : (\A x \in s : s \ {x} \in P) => s \in P
  BY <1>1
<1>3. \A s \in SUBSET S : s \in P
  <2> HIDE DEF P
  <2> QED BY <1>2, SubsetInduction
<1> QED
  BY <1>3 DEF AnyOrder

(* A sum of integers is an integer. *)
LEMMA SumType ==
  ASSUME NEW S, IsFiniteSet(S), NEW f \in [S -> Int]
  PROVE  SumFunction(f) \in Int /\ (S = {} => SumFunction(f) = 0)
<1>1. PICK h : Sums(f, h, SUBSET S) /\ SumFunction(f) = h[S]
  BY SumsOf
<1>2. h[S] \in Int
  BY <1>1, SumsAreInts
<1>3. S = {} => h[S] = 0
  BY <1>1 DEF Sums
<1> QED
  BY <1>1, <1>2, <1>3

(* g has one term more than f, at x. *)
OneTermMore(f, g, S, x) ==
  /\ IsFiniteSet(S) /\ x \notin S
  /\ f \in [S -> Int] /\ g \in [S \cup {x} -> Int]
  /\ \A y \in S : g[y] = f[y]

LEMMA SumAdds ==
  ASSUME NEW S, NEW x, NEW f, NEW g, OneTermMore(f, g, S, x)
  PROVE  /\ SumFunction(f) \in Int
         /\ SumFunction(g) = SumFunction(f) + g[x]
<1> DEFINE T == S \cup {x}
<1>0. /\ IsFiniteSet(S) /\ x \notin S /\ f \in [S -> Int]
      /\ g \in [S \cup {x} -> Int] /\ \A y \in S : g[y] = f[y]
  BY DEF OneTermMore
<1> USE <1>0
<1>1. IsFiniteSet(T)
  BY FS_AddElement
<1>2. PICK hf : Sums(f, hf, SUBSET S) /\ SumFunction(f) = hf[S]
  BY SumsOf
<1>3. PICK hg : Sums(g, hg, SUBSET T) /\ SumFunction(g) = hg[T]
  BY <1>1, SumsOf
<1> DEFINE P == {s \in SUBSET S : hg[s] = hf[s]}
<1>4. ASSUME NEW s \in SUBSET S, \A y \in s : s \ {y} \in P
      PROVE  s \in P
  <2>1. s \in SUBSET T
    OBVIOUS
  <2>2. CASE s = {}
    BY <1>2, <1>3, <2>1, <2>2 DEF Sums
  <2>3. CASE s # {}
    <3>1. Pick(s) \in s
      BY <2>3 DEF Pick
    <3>2. hf[s] = f[Pick(s)] + hf[s \ {Pick(s)}] /\ hg[s] = g[Pick(s)] + hg[s \ {Pick(s)}]
      BY <1>2, <1>3, <2>1, <2>3 DEF Sums
    <3> QED BY <1>4, <3>1, <3>2
  <2> QED BY <2>2, <2>3
<1>5. \A s \in SUBSET S : s \in P
  <2> HIDE DEF P
  <2> QED BY <1>4, SubsetInduction
<1>6. hf[S] \in Int
  BY <1>2, SumsAreInts
<1>7. hg[T] = g[x] + hg[T \ {x}]
  <2>1. AnyOrder(g, hg, SUBSET T)
    <3>1. Sums(g, hg, SUBSET T) /\ g \in [T -> Int]
      BY <1>3
    <3> HIDE DEF T
    <3> QED BY <1>1, <3>1, SumOrder
  <2> QED BY <2>1 DEF AnyOrder
<1>8. hg[T \ {x}] = hg[S]
  <2>1. T \ {x} = S
    OBVIOUS
  <2> QED BY <2>1
<1>9. hg[S] = hf[S]
  BY <1>5
<1>10. g[x] \in Int
  OBVIOUS
<1> DEFINE sf == SumFunction(f)
           sg == SumFunction(g)
           r == hg[T \ {x}]
<1>11. sf = hf[S] /\ sg = hg[T] /\ r = hf[S] /\ hg[T] = g[x] + r
  BY <1>2, <1>3, <1>7, <1>8, <1>9
<1> HIDE DEF T, sf, sg, r
<1>12. sf \in Int /\ sg = sf + g[x]
  BY <1>6, <1>10, <1>11
<1> QED BY <1>12 DEF sf, sg

(* A sum of zeroes. *)
LEMMA ZeroSum ==
  ASSUME NEW S, IsFiniteSet(S), NEW f \in [S -> Int], \A x \in S : f[x] = 0
  PROVE  SumFunction(f) = 0
<1>1. PICK h : Sums(f, h, SUBSET S) /\ SumFunction(f) = h[S]
  BY SumsOf
<1> DEFINE P == {s \in SUBSET S : h[s] = 0}
<1>2. ASSUME NEW s \in SUBSET S, \A x \in s : s \ {x} \in P
      PROVE  s \in P
  <2>1. CASE s = {}
    BY <1>1, <2>1 DEF Sums
  <2>2. CASE s # {}
    <3>1. Pick(s) \in s
      BY <2>2 DEF Pick
    <3>2. h[s] = f[Pick(s)] + h[s \ {Pick(s)}]
      BY <1>1, <2>2 DEF Sums
    <3> QED BY <1>2, <3>1, <3>2
  <2> QED BY <2>1, <2>2
<1>3. \A s \in SUBSET S : s \in P
  <2> HIDE DEF P
  <2> QED BY <1>2, SubsetInduction
<1> QED
  BY <1>1, <1>3

(* Subtract from the terms of a sum what a set, spread over them, counts. *)
LEMMA SpreadSum ==
  ASSUME NEW S, IsFiniteSet(S), NEW f \in [S -> Int],
         NEW A, IsFiniteSet(A), NEW w \in [A -> S]
  PROVE  SumFunction([d \in S |-> f[d] - Cardinality({x \in A : w[x] = d})])
           = SumFunction(f) - Cardinality(A)
<1> DEFINE At(B, d) == {x \in B : w[x] = d}
           Left(B) == [d \in S |-> f[d] - Cardinality(At(B, d))]
           P == {B \in SUBSET A : SumFunction(Left(B)) = SumFunction(f) - Cardinality(B)}
<1>1. SumFunction(f) \in Int
  BY SumType
<1>2. ASSUME NEW B \in SUBSET A
      PROVE  /\ IsFiniteSet(B) /\ Cardinality(B) \in Nat /\ Left(B) \in [S -> Int]
             /\ \A d \in S : IsFiniteSet(At(B, d)) /\ Cardinality(At(B, d)) \in Nat
  <2>1. IsFiniteSet(B) /\ Cardinality(B) \in Nat
    BY FS_Subset, FS_CardinalityType
  <2>2. ASSUME NEW d \in S
        PROVE  IsFiniteSet(At(B, d)) /\ Cardinality(At(B, d)) \in Nat
    <3>1. At(B, d) \subseteq B
      OBVIOUS
    <3> HIDE DEF At
    <3> QED BY <2>1, <3>1, FS_Subset, FS_CardinalityType
  <2> HIDE DEF At
  <2>3. Left(B) \in [S -> Int]
    BY <2>2
  <2> HIDE DEF Left
  <2> QED BY <2>1, <2>2, <2>3
<1>3. ASSUME NEW B \in SUBSET A, \A x \in B : B \ {x} \in P
      PROVE  B \in P
  <2>1. CASE B = {}
    <3>1. Cardinality(B) = 0 /\ \A d \in S : Cardinality(At(B, d)) = 0
      <4>1. \A d \in S : At(B, d) = {}
        BY <2>1
      <4> HIDE DEF At
      <4> QED BY <2>1, <4>1, FS_EmptySet
    <3> HIDE DEF At
    <3>2. Left(B) = f
      BY <3>1
    <3> HIDE DEF Left
    <3> QED BY <1>1, <3>1, <3>2
  <2>2. CASE B # {}
    <3>1. PICK x \in B : TRUE
      BY <2>2
    <3> DEFINE C == B \ {x}
               g == Left(C)
               h == Left(B)
               c == w[x]
    <3>2. C \in SUBSET A /\ c \in S
      OBVIOUS
    <3>3. Cardinality(C) = Cardinality(B) - 1
      BY <1>2, FS_RemoveElement
    <3>4. SumFunction(g) = SumFunction(f) - Cardinality(C)
      BY <1>3
    <3>5. g \in [S -> Int] /\ h \in [S -> Int]
      <4> HIDE DEF Left
      <4> QED BY <1>2, <3>2
    <3>6. \A d \in S \ {c} : h[d] = g[d]
      <4>1. \A d \in S \ {c} : At(C, d) = At(B, d)
        OBVIOUS
      <4> HIDE DEF At, C, c
      <4> QED BY <4>1
    <3>7. h[c] = g[c] - 1
      <4>1. At(C, c) = At(B, c) \ {x} /\ x \in At(B, c)
        OBVIOUS
      <4> HIDE DEF At
      <4>a. IsFiniteSet(At(B, c)) /\ Cardinality(At(B, c)) \in Nat
        BY <1>2, <3>2
      <4>2. /\ Cardinality(At(C, c)) = Cardinality(At(B, c)) - 1
            /\ Cardinality(At(B, c)) \in Nat
        <5> DEFINE X == At(B, c)
                   Y == At(C, c)
        <5>1. IsFiniteSet(X) /\ Cardinality(X) \in Nat /\ x \in X /\ Y = X \ {x}
          BY <4>1, <4>a
        <5> HIDE DEF X, Y
        <5>2. Cardinality(X \ {x}) = Cardinality(X) - 1
          BY <5>1, FS_RemoveElement
        <5> QED BY <5>1, <5>2 DEF X, Y
      <4>3. /\ h[c] = f[c] - Cardinality(At(B, c))
            /\ g[c] = f[c] - Cardinality(At(C, c)) /\ f[c] \in Int
        BY <3>2
      <4> HIDE DEF g, h, C, c
      <4> QED BY <4>2, <4>3
    <3> HIDE DEF g, h, C, c
    <3>8. /\ SumFunction(g) \in Int
          /\ SumFunction(h) = SumFunction(g) + h[c] - g[c]
      BY <3>2, <3>5, <3>6, SumStep
    <3>9. g[c] \in Int /\ Cardinality(B) \in Nat
      BY <1>2, <3>2, <3>5
    <3>10. SumFunction(h) = SumFunction(f) - Cardinality(B)
      BY <1>1, <3>3, <3>4, <3>7, <3>8, <3>9
    <3> QED BY <3>10 DEF h
  <2> QED BY <2>1, <2>2
<1>4. A \in P
  <2> HIDE DEF P
  <2>1. \A s \in SUBSET A : s \in P
    BY <1>3, SubsetInduction
  <2> QED BY <2>1
<1> QED
  BY <1>4
=============================================================================
