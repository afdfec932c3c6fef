--------------------------- MODULE CollectionLemmas ---------------------------
(***************************************************************************)
(* What holds of numbers, finite sets and sorted lists, whatever they are  *)
(* of: the facts the proofs about the components cite by name.             *)
(***************************************************************************)
EXTENDS Collections, SequenceTheorems, FiniteSetTheorems, TLAPS

-----------------------------------------------------------------------------
(* Numbers.  A set of them has a least one, and has all up to m if it has  *)
(* 0 and with each of them the next.                                       *)
LEMMA LeastNumber ==
  ASSUME NEW S, S \subseteq Nat, S # {}
  PROVE  \E x \in S : \A y \in S : x <= y
<1>1. \A x, y \in Nat : <<y, x>> \in OpToRel(<, Nat) <=> y < x
  BY DEF OpToRel
<1>2. PICK x \in S : \A y \in S : ~(<<y, x>> \in OpToRel(<, Nat))
  BY NatLessThanWellFounded, WFMin
<1>3. ASSUME NEW y \in S PROVE x <= y
  <2>1. ~(y < x) /\ x \in Nat /\ y \in Nat
    BY <1>1, <1>2
  <2> QED
    BY <2>1
<1> QED
  BY <1>3

LEMMA UpTo ==
  ASSUME NEW m \in Nat, NEW S, 0 \in S, \A k \in 0..m : k \in S /\ k < m => k + 1 \in S
  PROVE  m \in S
<1> SUFFICES ASSUME m \notin S
             PROVE  FALSE
  OBVIOUS
<1> DEFINE T == (0..m) \ S
<1>1. PICK x \in T : \A y \in T : x <= y
  <2>1. m \in T /\ T \subseteq Nat
    OBVIOUS
  <2> HIDE DEF T
  <2> QED
    BY <2>1, LeastNumber
<1>2. x - 1 \in 0..m /\ x - 1 < m /\ ~(x <= x - 1) /\ (x - 1) + 1 = x
  OBVIOUS
<1>3. x - 1 \in S
  BY <1>1, <1>2
<1> QED
  BY <1>1, <1>2, <1>3

LEMMA LastNumber ==
  ASSUME NEW n \in Nat, NEW S, S \subseteq 1..n, S # {}
  PROVE  \E x \in S : \A y \in S : y <= x
<1> DEFINE T == {n - x : x \in S}
<1>1. T \subseteq Nat /\ T # {}
  <2>1. \A x \in S : n - x \in Nat
    OBVIOUS
  <2> QED
    BY <2>1
<1>2. PICK d \in T : \A e \in T : d <= e
  <2> HIDE DEF T
  <2> QED
    BY <1>1, LeastNumber
<1>3. PICK x \in S : d = n - x
  OBVIOUS
<1>4. \A y \in S : n - y \in T
  OBVIOUS
<1>5. \A y \in S : y \in 1..n
  OBVIOUS
<1> HIDE DEF T
<1>6. \A y \in S : y <= x
  BY <1>2, <1>3, <1>4, <1>5
<1> QED
  BY <1>6

LEMMA PartOfInterval ==
  ASSUME NEW n \in Nat, NEW S \in SUBSET (1..n)
  PROVE  IsFiniteSet(S) /\ Cardinality(S) \in Nat
<1>1. IsFiniteSet(1..n)
  BY FS_Interval
<1>2. IsFiniteSet(S)
  BY <1>1, FS_Subset
<1> QED
  BY <1>2, FS_CardinalityType

-----------------------------------------------------------------------------
(* Finite sets.  What holds of the empty set, and of a set if it holds     *)
(* without one of its elements, holds of S and of all its subsets.         *)
LEMMA OneFewer ==
  ASSUME NEW T, IsFiniteSet(T), NEW n \in Nat, Cardinality(T) = n + 1, NEW x \in T
  PROVE  IsFiniteSet(T \ {x}) /\ Cardinality(T \ {x}) = n
<1>1. Cardinality(T \ {x}) = Cardinality(T) - 1
  BY FS_RemoveElement
<1> QED
  BY <1>1, FS_RemoveElement

LEMMA ElementByElement ==
  ASSUME NEW S, IsFiniteSet(S), NEW Good, {} \in Good,
         \A T \in SUBSET S : T # {} => \E x \in T : T \ {x} \in Good => T \in Good
  PROVE  \A T \in SUBSET S : T \in Good
<1> DEFINE N == {n \in Nat : \A T \in SUBSET S : Cardinality(T) = n => T \in Good}
<1>1. \A T \in SUBSET S : IsFiniteSet(T) /\ Cardinality(T) \in Nat
  BY FS_Subset, FS_CardinalityType
<1>2. 0 \in N
  BY <1>1, FS_EmptySet
<1>3. ASSUME NEW n \in Nat, n \in N PROVE n + 1 \in N
  <2>1. ASSUME NEW T \in SUBSET S, Cardinality(T) = n + 1 PROVE T \in Good
    <3>1. T # {}
      BY <2>1, FS_EmptySet
    <3>2. PICK x \in T : T \ {x} \in Good => T \in Good
      BY <3>1
    <3>3. Cardinality(T \ {x}) = n /\ T \ {x} \in SUBSET S
      BY <1>1, <2>1, OneFewer
    <3> QED
      BY <1>3, <3>2, <3>3
  <2> QED
    BY <2>1
<1>4. ASSUME NEW T \in SUBSET S PROVE T \in Good
  <2>1. Cardinality(T) \in Nat
    BY <1>1
  <2>2. \A k \in 0..Cardinality(T) : k \in N /\ k < Cardinality(T) => k + 1 \in N
    BY <1>3, <2>1
  <2> HIDE DEF N
  <2>3. Cardinality(T) \in N
    BY <1>2, <2>1, <2>2, UpTo
  <2> QED
    BY <2>3 DEF N
<1> QED
  BY <1>4

(* What holds of a set if it holds of all its proper parts.                *)
LEMMA PartByPart ==
  ASSUME NEW S, IsFiniteSet(S), NEW Good, {} \in Good,
         \A T \in SUBSET S : T # {} /\ (\A U \in SUBSET T : U # T => U \in Good) => T \in Good
  PROVE  \A T \in SUBSET S : T \in Good
<1> DEFINE Whole == {T \in SUBSET S : \A U \in SUBSET T : U \in Good}
<1>1. {} \in Whole
  OBVIOUS
<1>2. ASSUME NEW T \in SUBSET S, T # {} PROVE \E x \in T : T \ {x} \in Whole => T \in Whole
  <2> SUFFICES ASSUME \A x \in T : T \ {x} \in Whole
               PROVE  T \in Whole
    BY <1>2
  <2>1. ASSUME NEW U \in SUBSET T, U # T PROVE U \in Good
    <3>1. PICK x \in T : x \notin U
      BY <2>1
    <3>2. U \in SUBSET (T \ {x})
      BY <3>1
    <3> QED
      BY <3>2
  <2>2. T \in Good
    BY <1>2, <2>1
  <2> QED
    BY <2>1, <2>2
<1>3. \A T \in SUBSET S : T \in Whole
  <2> HIDE DEF Whole
  <2> QED
    BY <1>1, <1>2, ElementByElement
<1> QED
  BY <1>3

LEMMA FiniteImage ==
  ASSUME NEW S, IsFiniteSet(S), NEW f
  PROVE  IsFiniteSet({f[x] : x \in S}) /\ Cardinality({f[x] : x \in S}) <= Cardinality(S)
<1> DEFINE T == {f[x] : x \in S}
           g == [x \in S |-> f[x]]
<1>1. g \in Surjection(S, T)
  BY DEF Surjection
<1> HIDE DEF T, g
<1>2. IsFiniteSet(T) /\ Cardinality(T) <= Cardinality(S)
  BY <1>1, FS_Surjection
<1> QED
  BY <1>2 DEF T

LEMMA SameSize ==
  ASSUME NEW S, IsFiniteSet(S), NEW T, NEW f, \A x \in S : f[x] \in T,
         \A y \in T : \E x \in S : y = f[x], \A x, y \in S : f[x] = f[y] => x = y
  PROVE  IsFiniteSet(T) /\ Cardinality(T) = Cardinality(S)
<1> DEFINE g == [x \in S |-> f[x]]
<1>1. g \in Bijection(S, T)
  BY DEF Bijection, Injection, Surjection, IsInjective
<1> HIDE DEF g
<1>2. ExistsBijection(S, T)
  BY <1>1 DEF ExistsBijection
<1> QED
  BY <1>2, FS_Bijection

LEMMA FiniteUnion ==
  ASSUME NEW S, IsFiniteSet(S), NEW f, \A x \in S : IsFiniteSet(f[x])
  PROVE  IsFiniteSet(UNION {f[x] : x \in S})
<1> DEFINE T == {f[x] : x \in S}
<1>1. \A U \in T : IsFiniteSet(U)
  OBVIOUS
<1>2. IsFiniteSet(T)
  BY FiniteImage
<1> HIDE DEF T
<1>3. IsFiniteSet(UNION T)
  BY <1>1, <1>2, FS_UNION
<1> QED
  BY <1>3 DEF T

-----------------------------------------------------------------------------
(* Keys.  They are in an order in which any two that differ have a place.  *)
HasKeys(key, S) == DOMAIN key = S /\ \A x \in S : key[x] \in Seq(Int)

LEMMA LowerIsTransitive ==
  ASSUME NEW a \in Seq(Int), NEW b \in Seq(Int), NEW c \in Seq(Int), Lower(a, b), Lower(b, c)
  PROVE  Lower(a, c)
<1>1. PICK i \in DOMAIN b : /\ \A j \in 1..(i - 1) : j \in DOMAIN a /\ a[j] = b[j]
                            /\ i \in DOMAIN a => a[i] < b[i]
  BY DEF Lower
<1>2. PICK k \in DOMAIN c : /\ \A j \in 1..(k - 1) : j \in DOMAIN b /\ b[j] = c[j]
                            /\ k \in DOMAIN b => b[k] < c[k]
  BY DEF Lower
<1>3. /\ DOMAIN a = 1..Len(a) /\ DOMAIN b = 1..Len(b) /\ DOMAIN c = 1..Len(c)
      /\ Len(a) \in Nat /\ Len(b) \in Nat /\ Len(c) \in Nat
      /\ \A j \in DOMAIN a : a[j] \in Int
      /\ \A j \in DOMAIN b : b[j] \in Int
      /\ \A j \in DOMAIN c : c[j] \in Int
  OBVIOUS
<1>4. CASE i < k
  <2>1. i \in 1..(k - 1) /\ i \in DOMAIN c
    BY <1>3, <1>4
  <2>2. \A j \in 1..(i - 1) : j \in 1..(k - 1)
    BY <1>3, <1>4
  <2>3. \A j \in 1..(i - 1) : j \in DOMAIN a /\ a[j] = c[j]
    BY <1>1, <1>2, <2>2
  <2>4. i \in DOMAIN a => a[i] < c[i]
    BY <1>1, <1>2, <2>1
  <2> QED
    BY <2>1, <2>3, <2>4 DEF Lower
<1>5. CASE k <= i
  <2>1. k \in DOMAIN b /\ \A j \in 1..(k - 1) : j \in 1..(i - 1)
    BY <1>3, <1>5
  <2>2. \A j \in 1..(k - 1) : j \in DOMAIN a /\ a[j] = c[j]
    BY <1>1, <1>2, <2>1
  <2>3. k < i => a[k] = b[k]
    <3>1. k < i => k \in 1..(i - 1)
      BY <1>3
    <3> QED
      BY <1>1, <3>1
  <2>4. k \in DOMAIN a => a[k] < c[k]
    <3>1. k < i \/ k = i
      BY <1>3, <1>5
    <3> QED
      BY <1>1, <1>2, <1>3, <2>1, <2>3, <3>1
  <2> QED
    BY <2>2, <2>4 DEF Lower
<1> QED
  BY <1>3, <1>4, <1>5

LEMMA LowerIsIrreflexive ==
  ASSUME NEW a \in Seq(Int)
  PROVE  ~Lower(a, a)
<1>1. \A i \in DOMAIN a : a[i] \in Int
  OBVIOUS
<1> QED
  BY <1>1 DEF Lower

LEMMA LowerIsTotal ==
  ASSUME NEW a \in Seq(Int), NEW b \in Seq(Int), a # b
  PROVE  Lower(a, b) \/ Lower(b, a)
<1> DEFINE Differs == {i \in 1..(Len(a) + Len(b) + 1) :
                         i \in DOMAIN a /\ i \in DOMAIN b => a[i] # b[i]}
<1>1. /\ DOMAIN a = 1..Len(a) /\ DOMAIN b = 1..Len(b) /\ Len(a) \in Nat /\ Len(b) \in Nat
      /\ \A i \in DOMAIN a : a[i] \in Int
      /\ \A i \in DOMAIN b : b[i] \in Int
  OBVIOUS
<1>2. Differs # {} /\ Differs \subseteq Nat
  <2>1. Len(a) + Len(b) + 1 \in Differs
    BY <1>1
  <2> QED
    BY <2>1
<1>3. PICK i \in Differs : \A k \in Differs : i <= k
  <2> HIDE DEF Differs
  <2> QED
    BY <1>2, LeastNumber
<1>4. ASSUME NEW j \in 1..(i - 1) PROVE j \in DOMAIN a /\ j \in DOMAIN b /\ a[j] = b[j]
  <2>1. j \in 1..(Len(a) + Len(b) + 1) /\ ~(i <= j)
    BY <1>1, <1>3
  <2> QED
    BY <1>3, <2>1
<1>5. i \in DOMAIN a \/ i \in DOMAIN b
  <2>1. ASSUME i \notin DOMAIN a, i \notin DOMAIN b PROVE FALSE
    <3>1. i > Len(a) /\ i > Len(b) /\ i \in Nat
      BY <1>1, <1>3, <2>1
    <3>2. \A j \in DOMAIN a \cup DOMAIN b : j \in 1..(i - 1)
      BY <1>1, <3>1
    <3>3. a = b
      <4>1. \A j \in 1..Len(a) : j \in 1..Len(b) /\ a[j] = b[j]
        BY <1>1, <1>4, <3>2
      <4>2. \A j \in 1..Len(b) : j \in 1..Len(a)
        BY <1>1, <1>4, <3>2
      <4>3. Len(a) <= Len(b)
        <5>1. Len(a) = 0 \/ Len(a) \in 1..Len(a)
          BY <1>1
        <5> QED
          BY <1>1, <4>1, <5>1
      <4>4. Len(b) <= Len(a)
        <5>1. Len(b) = 0 \/ Len(b) \in 1..Len(b)
          BY <1>1
        <5> QED
          BY <1>1, <4>2, <5>1
      <4>5. Len(a) = Len(b)
        <5>1. Len(a) \in Nat /\ Len(b) \in Nat
          BY <1>1
        <5> HIDE DEF Differs
        <5> QED
          BY <4>3, <4>4, <5>1
      <4> QED
        BY <4>1, <4>5, SeqEqual
    <3> QED
      BY <3>3
  <2> QED
    BY <2>1
<1>6. CASE i \in DOMAIN a /\ i \in DOMAIN b
  <2>1. a[i] < b[i] \/ b[i] < a[i]
    BY <1>1, <1>3, <1>6
  <2> QED
    BY <1>4, <1>6, <2>1 DEF Lower
<1>7. CASE i \notin DOMAIN a /\ i \in DOMAIN b
  BY <1>4, <1>7 DEF Lower
<1>8. CASE i \in DOMAIN a /\ i \notin DOMAIN b
  BY <1>4, <1>8 DEF Lower
<1> QED
  BY <1>5, <1>6, <1>7, <1>8

(* The first numbers of two keys decide unless they are equal.             *)
LEMMA LowerOne ==
  ASSUME NEW a \in Int, NEW b \in Int, ~Lower(<<b>>, <<a>>)
  PROVE  a <= b
<1>1. ASSUME b < a PROVE Lower(<<b>>, <<a>>)
  <2>1. 1 \in DOMAIN <<a>> /\ 1..(1 - 1) = {}
    OBVIOUS
  <2> QED
    BY <1>1, <2>1 DEF Lower
<1> QED
  BY <1>1

LEMMA LowerTwo ==
  ASSUME NEW a \in Int, NEW b \in Int, NEW c, NEW d, ~Lower(<<b, d>>, <<a, c>>)
  PROVE  a <= b
<1>1. ASSUME b < a PROVE Lower(<<b, d>>, <<a, c>>)
  <2>1. 1 \in DOMAIN <<a, c>> /\ 1..(1 - 1) = {}
    OBVIOUS
  <2> QED
    BY <1>1, <2>1 DEF Lower
<1> QED
  BY <1>1

-----------------------------------------------------------------------------
(* Sorted lists.  Elements with keys, some of them perhaps equal, have a   *)
(* last one and can be sorted.                                             *)
IsSortedList(list, S, key) == list \in Bijection(1..Cardinality(S), S) /\ InOrder(list, key)

LEMMA LastOne ==
  ASSUME NEW S, IsFiniteSet(S), S # {}, NEW key, HasKeys(key, S)
  PROVE  \E x \in S : \A y \in S : ~Lower(key[x], key[y])
<1> DEFINE HasLast(T) == \E x \in T : \A y \in T : ~Lower(key[x], key[y])
           Good == {T \in SUBSET S : T = {} \/ HasLast(T)}
<1>1. ASSUME NEW T \in SUBSET S, NEW z \in T, T \ {z} \in Good PROVE T \in Good
  <2>1. CASE T \ {z} = {}
    <3>1. (\A y \in T : y = z) /\ ~Lower(key[z], key[z])
      BY <2>1, LowerIsIrreflexive DEF HasKeys
    <3> QED
      BY <3>1
  <2>2. CASE HasLast(T \ {z})
    <3>1. PICK x \in T \ {z} : \A y \in T \ {z} : ~Lower(key[x], key[y])
      BY <2>2
    <3>2. CASE Lower(key[x], key[z])
      <4>1. ASSUME NEW y \in T, Lower(key[z], key[y]) PROVE FALSE
        <5>1. key[x] \in Seq(Int) /\ key[y] \in Seq(Int) /\ key[z] \in Seq(Int)
          BY DEF HasKeys
        <5>2. Lower(key[x], key[y])
          BY <3>2, <4>1, <5>1, LowerIsTransitive
        <5>3. y = z
          BY <3>1, <5>2
        <5> QED
          BY <4>1, <5>1, <5>3, LowerIsIrreflexive
      <4> QED
        BY <4>1
    <3>3. CASE ~Lower(key[x], key[z])
      <4>1. \A y \in T : ~Lower(key[x], key[y])
        BY <3>1, <3>3
      <4> QED
        BY <4>1
    <3> QED
      BY <3>2, <3>3
  <2> QED
    BY <1>1, <2>1, <2>2
<1>2. {} \in Good
  OBVIOUS
<1>3. ASSUME NEW T \in SUBSET S, T # {} PROVE \E x \in T : T \ {x} \in Good => T \in Good
  <2> HIDE DEF Good
  <2> QED
    BY <1>1, <1>3
<1>4. S \in Good
  <2> HIDE DEF Good
  <2>1. \A T \in SUBSET S : T \in Good
    BY <1>2, <1>3, ElementByElement
  <2> QED
    BY <2>1
<1> QED
  BY <1>4

(* A sorted list with one more at its end.                                 *)
LEMMA SortedPlusLast ==
  ASSUME NEW T, IsFiniteSet(T), NEW n \in Nat, Cardinality(T) = n + 1, NEW key,
         NEW x \in T, \A y \in T : ~Lower(key[x], key[y]),
         NEW list, IsSortedList(list, T \ {x}, key)
  PROVE  \E more : IsSortedList(more, T, key)
<1> DEFINE more == [i \in 1..(n + 1) |-> IF i <= n THEN list[i] ELSE x]
<1>1. Cardinality(T \ {x}) = n
  BY OneFewer
<1>2. /\ list \in [1..n -> T \ {x}]
      /\ \A i, j \in 1..n : list[i] = list[j] => i = j
      /\ \A y \in T \ {x} : \E i \in 1..n : list[i] = y
      /\ \A i, j \in 1..n : i < j => ~Lower(key[list[j]], key[list[i]])
  BY <1>1 DEF IsSortedList, InOrder, Bijection, Injection, Surjection, IsInjective
<1>3. \A i \in 1..(n + 1) : i \in 1..n \/ (i = n + 1 /\ ~(i <= n))
  OBVIOUS
<1>4. /\ \A i \in 1..n : i \in 1..(n + 1) /\ more[i] = list[i] /\ more[i] \in T \ {x}
      /\ n + 1 \in 1..(n + 1) /\ more[n + 1] = x
  BY <1>2
<1>5. more \in [1..(n + 1) -> T]
  BY <1>2, <1>3
<1>6. DOMAIN more = 1..(n + 1)
  OBVIOUS
<1> HIDE DEF more
<1>7. \A i, j \in 1..(n + 1) : more[i] = more[j] => i = j
  BY <1>2, <1>3, <1>4
<1>8. \A y \in T : \E i \in 1..(n + 1) : more[i] = y
  BY <1>2, <1>4
<1>9. ASSUME NEW i \in 1..(n + 1), NEW j \in 1..(n + 1), i < j
      PROVE  ~Lower(key[more[j]], key[more[i]])
  <2>1. i \in 1..n
    BY <1>9
  <2>2. more[i] \in T /\ more[j] \in T
    BY <1>5
  <2>3. CASE j = n + 1
    BY <1>4, <2>2, <2>3
  <2>4. CASE j \in 1..n
    BY <1>2, <1>4, <1>9, <2>1, <2>4
  <2> QED
    BY <1>3, <2>3, <2>4
<1>10. IsSortedList(more, T, key)
  BY <1>5, <1>6, <1>7, <1>8, <1>9
     DEF IsSortedList, InOrder, Bijection, Injection, Surjection, IsInjective
<1> QED
  BY <1>10

LEMMA SortedExists ==
  ASSUME NEW S, IsFiniteSet(S), NEW key, HasKeys(key, S)
  PROVE  IsSortedList(SortedBy(key), S, key)
<1> DEFINE Good == {T \in SUBSET S : \E list : IsSortedList(list, T, key)}
<1>1. {} \in Good
  <2>1. Cardinality({}) = 0 /\ 1..0 = {}
    BY FS_EmptySet
  <2>2. [i \in 1..0 |-> i] \in Bijection(1..0, {})
    BY <2>1 DEF Bijection, Injection, Surjection, IsInjective
  <2>3. IsSortedList([i \in 1..0 |-> i], {}, key)
    BY <2>1, <2>2 DEF IsSortedList, InOrder
  <2> QED
    BY <2>3
<1>2. ASSUME NEW T \in SUBSET S, T # {} PROVE \E x \in T : T \ {x} \in Good => T \in Good
  <2>1. IsFiniteSet(T) /\ \A x \in T : key[x] \in Seq(Int)
    BY FS_Subset DEF HasKeys
  <2>2. PICK x \in T : \A y \in T : ~Lower(key[x], key[y])
    <3> DEFINE part == [y \in T |-> key[y]]
    <3>1. HasKeys(part, T)
      BY <2>1 DEF HasKeys
    <3>2. PICK x \in T : \A y \in T : ~Lower(part[x], part[y])
      <4> HIDE DEF part
      <4> QED
        BY <1>2, <2>1, <3>1, LastOne
    <3> QED
      BY <3>2
  <2>3. Cardinality(T) \in Nat /\ Cardinality(T) # 0
    BY <1>2, <2>1, FS_CardinalityType, FS_EmptySet
  <2>4. PICK n \in Nat : Cardinality(T) = n + 1
    <3>1. Cardinality(T) - 1 \in Nat /\ Cardinality(T) = (Cardinality(T) - 1) + 1
      BY <2>3
    <3> QED
      BY <3>1
  <2> QED
    BY <2>1, <2>2, <2>4, SortedPlusLast
<1>3. S \in Good
  <2> HIDE DEF Good
  <2> QED
    BY <1>1, <1>2, ElementByElement
<1>4. \E list \in Bijection(1..Cardinality(S), S) : InOrder(list, key)
  BY <1>3 DEF IsSortedList
<1> QED
  BY <1>4 DEF IsSortedList, SortedBy, HasKeys

(* What is sorted is on the list, once, at places from 1 to its size.      *)
LEMMA SortedList ==
  ASSUME NEW S, IsFiniteSet(S), NEW key, HasKeys(key, S)
  PROVE  LET list == SortedBy(key) IN
         /\ Cardinality(S) \in Nat
         /\ list \in Seq(S) /\ Len(list) = Cardinality(S) /\ DOMAIN list = 1..Cardinality(S)
         /\ \A i \in DOMAIN list : list[i] \in S
         /\ \A x \in S : \E i \in DOMAIN list : list[i] = x
         /\ \A i, j \in DOMAIN list :
              /\ list[i] = list[j] => i = j
              /\ i < j => ~Lower(key[list[j]], key[list[i]])
<1> DEFINE list == SortedBy(key)
<1>1. IsSortedList(list, S, key)
  BY SortedExists
<1>2. Cardinality(S) \in Nat
  BY FS_CardinalityType
<1> HIDE DEF list
<1>3. list \in [1..Cardinality(S) -> S]
  BY <1>1 DEF IsSortedList, Bijection, Injection
<1>4. list \in Seq(S) /\ Len(list) = Cardinality(S)
  BY <1>2, <1>3
<1> QED
  BY <1>1, <1>2, <1>3, <1>4
     DEF list, IsSortedList, InOrder, Bijection, Injection, Surjection, IsInjective

(* Pages.  Two parts of a list in which nothing is twice, one after the    *)
(* other, share nothing, and are the list if one ends it.                  *)
PartFrom(list, first, last) == {list[i] : i \in (first + 1)..last}

LEMMA PartOfList ==
  ASSUME NEW S, NEW list \in Seq(S), NEW first \in Nat, NEW last \in Nat, first <= last,
         last <= Len(list), NEW part, part = SubSeq(list, first + 1, last)
  PROVE  /\ Len(part) = last - first
         /\ DOMAIN part = 1..(last - first)
         /\ Range(part) = PartFrom(list, first, last)
<1>1. \A i \in (first + 1)..last : i \in 1..Len(list) /\ list[i] \in S
  OBVIOUS
<1>2. /\ part \in Seq(S)
      /\ Len(part) = IF first + 1 <= last THEN last - (first + 1) + 1 ELSE 0
      /\ \A i \in 1..(last - (first + 1) + 1) : part[i] = list[first + 1 + i - 1]
  BY <1>1, SubSeqProperties
<1>3. Len(part) = last - first
  BY <1>2
<1>4. DOMAIN part = 1..(last - first)
  BY <1>2, <1>3
<1>5. \A i \in 1..(last - first) : part[i] = list[first + i] /\ first + i \in (first + 1)..last
  <2>1. \A i \in 1..(last - first) : /\ i \in 1..(last - (first + 1) + 1)
                                    /\ first + 1 + i - 1 = first + i
                                    /\ first + i \in (first + 1)..last
    OBVIOUS
  <2> QED
    BY <1>2, <2>1
<1>6. \A i \in (first + 1)..last : i - first \in 1..(last - first) /\ first + (i - first) = i
  OBVIOUS
<1>7. Range(part) = PartFrom(list, first, last)
  <2>1. \A i \in (first + 1)..last : part[i - first] = list[i]
    BY <1>5, <1>6
  <2>2. \A j \in DOMAIN part : \E i \in (first + 1)..last : part[j] = list[i]
    BY <1>4, <1>5
  <2>3. \A i \in (first + 1)..last : \E j \in DOMAIN part : part[j] = list[i]
    BY <1>4, <1>6, <2>1
  <2>4. \A x \in Range(part) : x \in PartFrom(list, first, last)
    BY <2>2 DEF Range, PartFrom
  <2>5. \A x \in PartFrom(list, first, last) : x \in Range(part)
    BY <2>3 DEF Range, PartFrom
  <2> QED
    BY <2>4, <2>5
<1> QED
  BY <1>3, <1>4, <1>7

(* slice(0, limit): the elements of the beginning, each where it was.      *)
LEMMA FirstOfList ==
  ASSUME NEW S, NEW list \in Seq(S), NEW limit \in Nat, NEW first, first = FirstOf(list, limit)
  PROVE  /\ first \in Seq(S)
         /\ Len(first) = IF limit < Len(list) THEN limit ELSE Len(list)
         /\ \A i \in DOMAIN first : i \in DOMAIN list /\ i \in 1..Len(first) /\ first[i] = list[i]
<1> DEFINE last == IF limit < Len(list) THEN limit ELSE Len(list)
<1>1. last \in Nat /\ last <= Len(list) /\ Len(list) \in Nat /\ DOMAIN list = 1..Len(list)
  OBVIOUS
<1>2. first = SubSeq(list, 1, last)
  BY DEF FirstOf
<1> HIDE DEF last
<1>3. \A i \in 1..last : i \in 1..Len(list) /\ list[i] \in S
  BY <1>1
<1>4. /\ first \in Seq(S)
      /\ Len(first) = IF 1 <= last THEN last - 1 + 1 ELSE 0
      /\ \A i \in 1..(last - 1 + 1) : first[i] = list[1 + i - 1]
  BY <1>1, <1>2, <1>3, SubSeqProperties
<1>5. Len(first) = last /\ DOMAIN first = 1..last
  BY <1>1, <1>4
<1>6. \A i \in 1..last : i \in 1..(last - 1 + 1) /\ 1 + i - 1 = i
  BY <1>1
<1> QED
  BY <1>1, <1>3, <1>4, <1>5, <1>6 DEF last

LEMMA FiniteRange ==
  ASSUME NEW S, NEW list \in Seq(S)
  PROVE  IsFiniteSet(Range(list)) /\ Range(list) \subseteq S
<1>1. DOMAIN list = 1..Len(list) /\ Len(list) \in Nat /\ \A i \in DOMAIN list : list[i] \in S
  OBVIOUS
<1>2. IsFiniteSet(DOMAIN list)
  BY <1>1, FS_Interval
<1> QED
  BY <1>1, <1>2, FiniteImage DEF Range

(* What the beginning of a list leaves out comes after all it takes.       *)
LEMMA BeginningFirst ==
  ASSUME NEW S, NEW list \in Seq(S), \A i, j \in DOMAIN list : list[i] = list[j] => i = j,
         NEW limit \in Nat, NEW first, first = FirstOf(list, limit),
         NEW k \in DOMAIN list, list[k] \notin Range(first)
  PROVE  /\ IsFiniteSet(Range(first)) /\ Cardinality(Range(first)) = limit
         /\ \A x \in Range(first) : \E i \in DOMAIN list : i < k /\ list[i] = x
<1>1. /\ first \in Seq(S)
      /\ Len(first) = IF limit < Len(list) THEN limit ELSE Len(list)
      /\ \A i \in DOMAIN first : i \in DOMAIN list /\ i \in 1..Len(first) /\ first[i] = list[i]
  BY FirstOfList
<1>2. /\ DOMAIN list = 1..Len(list) /\ Len(list) \in Nat
      /\ DOMAIN first = 1..Len(first) /\ Len(first) \in Nat
  BY <1>1
<1>3. k \notin DOMAIN first
  BY <1>1 DEF Range
<1>4. Len(first) = limit /\ \A i \in DOMAIN first : i < k
  <2> DEFINE p == Len(first)
             q == Len(list)
  <2>1. /\ p \in Nat /\ q \in Nat /\ k \in 1..q /\ k \notin 1..p
        /\ (p = limit \/ p = q) /\ DOMAIN first = 1..p
    BY <1>1, <1>2, <1>3
  <2> HIDE DEF p, q
  <2>2. k > p /\ p # q /\ \A i \in 1..p : i < k
    BY <2>1
  <2> QED
    BY <2>1, <2>2 DEF p
<1>5. IsFiniteSet(Range(first)) /\ Cardinality(Range(first)) = Cardinality(DOMAIN first)
  <2>1. IsFiniteSet(DOMAIN first)
    BY <1>2, FS_Interval
  <2>2. \A i, j \in DOMAIN first : first[i] = first[j] => i = j
    BY <1>1
  <2>3. /\ \A i \in DOMAIN first : first[i] \in Range(first)
        /\ \A x \in Range(first) : \E i \in DOMAIN first : x = first[i]
    BY DEF Range
  <2> QED
    BY <2>1, <2>2, <2>3, SameSize
<1>6. Cardinality(DOMAIN first) = limit
  BY <1>2, <1>4, FS_Interval
<1> QED
  BY <1>1, <1>4, <1>5, <1>6 DEF Range

-----------------------------------------------------------------------------
(* Sums.  They are defined element by element, and do not depend on which  *)
(* of them is added first.                                                 *)
Picked(S) == CHOOSE x \in S : TRUE
AddsUp(g, f, S) == g[S] = IF S = {} THEN 0 ELSE f[Picked(S)] + g[S \ {Picked(S)}]
AddsUpTo(g, f, n) ==
  /\ DOMAIN g = SUBSET DOMAIN f
  /\ g = [S \in DOMAIN g |-> g[S]]
  /\ \A S \in SUBSET DOMAIN f : Cardinality(S) <= n => AddsUp(g, f, S)

LEMMA AddOneMore ==
  ASSUME NEW f, IsFiniteSet(DOMAIN f), NEW n \in Nat, NEW g, AddsUpTo(g, f, n)
  PROVE  \E h : AddsUpTo(h, f, n + 1)
<1> DEFINE D == SUBSET DOMAIN f
           Next(S) == IF S = {} THEN 0 ELSE f[Picked(S)] + g[S \ {Picked(S)}]
           h == [S \in D |-> IF Cardinality(S) <= n THEN g[S] ELSE Next(S)]
<1>1. \A S \in D : IsFiniteSet(S) /\ Cardinality(S) \in Nat
  BY FS_Subset, FS_CardinalityType
<1>2. DOMAIN h = D /\ h = [S \in DOMAIN h |-> h[S]]
  OBVIOUS
<1>3. \A S \in D : h[S] = IF Cardinality(S) <= n THEN g[S] ELSE Next(S)
  OBVIOUS
<1>4. \A S \in D : Cardinality(S) <= n => g[S] = Next(S)
  BY DEF AddsUpTo, AddsUp
<1> HIDE DEF h
<1>5. ASSUME NEW S \in D, Cardinality(S) <= n + 1 PROVE AddsUp(h, f, S)
  <2>1. CASE S = {}
    <3>1. Cardinality(S) <= n
      BY <2>1, FS_EmptySet
    <3> QED
      BY <1>3, <1>4, <2>1, <3>1 DEF AddsUp
  <2>2. CASE S # {}
    <3> DEFINE x == Picked(S)
               T == S \ {x}
    <3>1. x \in S
      BY <2>2 DEF Picked
    <3>2. T \in D /\ Cardinality(T) = Cardinality(S) - 1
      BY <1>1, <3>1, FS_RemoveElement
    <3>3. Cardinality(T) <= n
      BY <1>1, <1>5, <3>2
    <3>4. h[T] = g[T]
      BY <1>3, <3>2, <3>3
    <3>5. h[S] = Next(S)
      BY <1>3, <1>4
    <3> QED
      BY <2>2, <3>4, <3>5 DEF AddsUp
  <2> QED
    BY <2>1, <2>2
<1>6. AddsUpTo(h, f, n + 1)
  BY <1>2, <1>5 DEF AddsUpTo
<1> QED
  BY <1>6

LEMMA SumsAddUp ==
  ASSUME NEW f, IsFiniteSet(DOMAIN f)
  PROVE  \A S \in SUBSET DOMAIN f : AddsUp(Sums(f), f, S)
<1> DEFINE D == SUBSET DOMAIN f
           N == {n \in Nat : \E g : AddsUpTo(g, f, n)}
<1>1. Cardinality(DOMAIN f) \in Nat
  BY FS_CardinalityType
<1>2. 0 \in N
  <2> DEFINE g == [S \in D |-> 0]
  <2>1. ASSUME NEW S \in D, Cardinality(S) <= 0 PROVE AddsUp(g, f, S)
    <3>1. S = {}
      BY <2>1, FS_Subset, FS_CardinalityType, FS_EmptySet
    <3> QED
      BY <3>1 DEF AddsUp
  <2>2. DOMAIN g = D /\ g = [S \in DOMAIN g |-> g[S]]
    OBVIOUS
  <2> HIDE DEF g
  <2>3. AddsUpTo(g, f, 0)
    BY <2>1, <2>2 DEF AddsUpTo
  <2> QED
    BY <2>3
<1>3. \A k \in 0..Cardinality(DOMAIN f) : k \in N /\ k < Cardinality(DOMAIN f) => k + 1 \in N
  BY <1>1, AddOneMore
<1>4. Cardinality(DOMAIN f) \in N
  <2> HIDE DEF N
  <2> QED
    BY <1>1, <1>2, <1>3, UpTo
<1>5. PICK g : AddsUpTo(g, f, Cardinality(DOMAIN f))
  BY <1>4
<1>6. \A S \in D : Cardinality(S) <= Cardinality(DOMAIN f)
  BY FS_Subset
<1>7. g = [S \in D |-> g[S]] /\ \A S \in D : g[S] = IF S = {} THEN 0 ELSE f[Picked(S)] + g[S \ {Picked(S)}]
  BY <1>5, <1>6 DEF AddsUpTo, AddsUp
<1>8. g = [S \in D |-> IF S = {} THEN 0 ELSE f[Picked(S)] + g[S \ {Picked(S)}]]
  BY <1>7
<1>9. Sums(f) = CHOOSE h : h = [S \in D |-> IF S = {} THEN 0 ELSE f[Picked(S)] + h[S \ {Picked(S)}]]
  BY DEF Sums, Picked
<1>10. Sums(f) = [S \in D |-> IF S = {} THEN 0
                              ELSE f[Picked(S)] + Sums(f)[S \ {Picked(S)}]]
  BY <1>8, <1>9
<1> QED
  BY <1>10 DEF AddsUp

LEMMA SumsAreNumbers ==
  ASSUME NEW f, IsFiniteSet(DOMAIN f), \A x \in DOMAIN f : f[x] \in Int
  PROVE  /\ Sums(f)[{}] = 0
         /\ \A S \in SUBSET DOMAIN f : Sums(f)[S] \in Int
<1> DEFINE Good == {S \in SUBSET DOMAIN f : Sums(f)[S] \in Int}
<1>1. Sums(f)[{}] = 0
  BY SumsAddUp DEF AddsUp
<1>2. {} \in Good
  BY <1>1
<1>3. ASSUME NEW S \in SUBSET DOMAIN f, S # {}
      PROVE  \E x \in S : S \ {x} \in Good => S \in Good
  <2>1. Picked(S) \in S
    BY <1>3 DEF Picked
  <2>2. Sums(f)[S] = f[Picked(S)] + Sums(f)[S \ {Picked(S)}]
    BY <1>3, SumsAddUp DEF AddsUp
  <2>3. ASSUME Sums(f)[S \ {Picked(S)}] \in Int PROVE Sums(f)[S] \in Int
    <3>1. f[Picked(S)] \in Int
      BY <2>1
    <3> QED
      BY <2>2, <2>3, <3>1
  <2>4. S \ {Picked(S)} \in Good => S \in Good
    BY <2>3
  <2> QED
    BY <2>1, <2>4
<1>4. \A S \in SUBSET DOMAIN f : S \in Good
  <2> HIDE DEF Good
  <2> QED
    BY <1>2, <1>3, ElementByElement
<1> QED
  BY <1>1, <1>4

(* Any element may be added last.                                          *)
LEMMA SumWithout ==
  ASSUME NEW f, IsFiniteSet(DOMAIN f), \A x \in DOMAIN f : f[x] \in Int
  PROVE  \A S \in SUBSET DOMAIN f : \A x \in S : Sums(f)[S] = f[x] + Sums(f)[S \ {x}]
<1> DEFINE Good == {S \in SUBSET DOMAIN f : \A x \in S : Sums(f)[S] = f[x] + Sums(f)[S \ {x}]}
<1>1. {} \in Good
  OBVIOUS
<1>2. ASSUME NEW S \in SUBSET DOMAIN f, S # {}, \A T \in SUBSET S : T # S => T \in Good
      PROVE  S \in Good
  <2> DEFINE c == Picked(S)
  <2>1. c \in S
    BY <1>2 DEF Picked
  <2>2. Sums(f)[S] = f[c] + Sums(f)[S \ {c}]
    BY <1>2, SumsAddUp DEF AddsUp
  <2> HIDE DEF c
  <2>3. ASSUME NEW x \in S, x # c PROVE Sums(f)[S] = f[x] + Sums(f)[S \ {x}]
    <3>1. S \ {c} \in Good /\ S \ {x} \in Good
      <4>1. S \ {c} \in SUBSET S /\ S \ {x} \in SUBSET S /\ S \ {c} # S /\ S \ {x} # S
        BY <2>1
      <4> HIDE DEF Good
      <4> QED
        BY <1>2, <4>1
    <3>2. Sums(f)[S \ {c}] = f[x] + Sums(f)[(S \ {c}) \ {x}]
      BY <2>3, <3>1
    <3>3. Sums(f)[S \ {x}] = f[c] + Sums(f)[(S \ {x}) \ {c}]
      BY <2>1, <2>3, <3>1
    <3>4. (S \ {c}) \ {x} = (S \ {x}) \ {c}
      OBVIOUS
    <3>5. PICK rest \in Int : rest = Sums(f)[(S \ {c}) \ {x}]
      BY SumsAreNumbers
    <3>6. f[c] \in Int /\ f[x] \in Int
      BY <2>1
    <3> DEFINE all == Sums(f)[S]
               withoutC == Sums(f)[S \ {c}]
               withoutX == Sums(f)[S \ {x}]
    <3>7. all = f[c] + withoutC /\ withoutC = f[x] + rest /\ withoutX = f[c] + rest
      BY <2>2, <3>2, <3>3, <3>4, <3>5
    <3> HIDE DEF all, withoutC, withoutX
    <3>8. all = f[x] + withoutX
      BY <3>5, <3>6, <3>7
    <3> QED
      BY <3>8 DEF all, withoutX
  <2> QED
    BY <2>1, <2>2, <2>3
<1>3. \A S \in SUBSET DOMAIN f : S \in Good
  <2> HIDE DEF Good
  <2> QED
    BY <1>1, <1>2, PartByPart
<1> QED
  BY <1>3

(* A sum of numbers of one sign has that sign.                             *)
LEMMA SumHasSign ==
  ASSUME NEW f, IsFiniteSet(DOMAIN f), \A x \in DOMAIN f : f[x] \in Int
  PROVE  /\ \A S \in SUBSET DOMAIN f : (\A x \in S : f[x] >= 0) => Sums(f)[S] >= 0
         /\ \A S \in SUBSET DOMAIN f : (\A x \in S : f[x] <= 0) => Sums(f)[S] <= 0
<1> DEFINE Good == {S \in SUBSET DOMAIN f : /\ (\A x \in S : f[x] >= 0) => Sums(f)[S] >= 0
                                            /\ (\A x \in S : f[x] <= 0) => Sums(f)[S] <= 0}
<1>1. {} \in Good
  <2>1. Sums(f)[{}] = 0
    BY SumsAreNumbers
  <2> QED
    BY <2>1
<1>2. ASSUME NEW S \in SUBSET DOMAIN f, S # {} PROVE \E x \in S : S \ {x} \in Good => S \in Good
  <2>1. PICK x \in S : TRUE
    BY <1>2
  <2> DEFINE rest == Sums(f)[S \ {x}]
             all == Sums(f)[S]
  <2>2. all = f[x] + rest /\ f[x] \in Int
    BY SumWithout
  <2>3. rest \in Int
    BY SumsAreNumbers
  <2>4. S \ {x} \in Good => /\ (\A y \in S : f[y] >= 0) => rest >= 0
                            /\ (\A y \in S : f[y] <= 0) => rest <= 0
    OBVIOUS
  <2>5. S \in Good <=> /\ (\A y \in S : f[y] >= 0) => all >= 0
                       /\ (\A y \in S : f[y] <= 0) => all <= 0
    OBVIOUS
  <2> HIDE DEF rest, all, Good
  <2>6. /\ f[x] >= 0 /\ rest >= 0 => all >= 0
        /\ f[x] <= 0 /\ rest <= 0 => all <= 0
    BY <2>2, <2>3
  <2> QED
    BY <2>1, <2>4, <2>5, <2>6
<1>3. \A S \in SUBSET DOMAIN f : S \in Good
  <2> HIDE DEF Good
  <2> QED
    BY <1>1, <1>2, ElementByElement
<1> QED
  BY <1>3

(* Sums of two parts.                                                      *)
LEMMA SumOfTwo ==
  ASSUME NEW f, IsFiniteSet(DOMAIN f), \A x \in DOMAIN f : f[x] \in Int,
         NEW A \in SUBSET DOMAIN f, NEW B \in SUBSET (DOMAIN f \ A)
  PROVE  Sums(f)[A \cup B] = Sums(f)[A] + Sums(f)[B]
<1> DEFINE Good == {S \in SUBSET B : Sums(f)[A \cup S] = Sums(f)[A] + Sums(f)[S]}
<1>1. {} \in Good
  <2>1. Sums(f)[{}] = 0 /\ Sums(f)[A] \in Int /\ A \cup {} = A
    BY SumsAreNumbers
  <2>2. Sums(f)[A \cup {}] = Sums(f)[A]
    BY <2>1
  <2> DEFINE a == Sums(f)[A]
  <2>3. Sums(f)[A \cup {}] = a /\ a \in Int /\ Sums(f)[{}] = 0
    BY <2>1, <2>2
  <2> HIDE DEF a
  <2>4. Sums(f)[A \cup {}] = a + Sums(f)[{}]
    BY <2>3
  <2> QED
    BY <2>4 DEF a
<1>2. ASSUME NEW S \in SUBSET B, S # {} PROVE \E x \in S : S \ {x} \in Good => S \in Good
  <2>1. PICK x \in S : TRUE
    BY <1>2
  <2>2. (A \cup S) \ {x} = A \cup (S \ {x}) /\ A \cup S \in SUBSET DOMAIN f /\ x \in A \cup S
    OBVIOUS
  <2> DEFINE a == Sums(f)[A]
             rest == Sums(f)[S \ {x}]
             both == Sums(f)[A \cup (S \ {x})]
  <2>3. Sums(f)[S] = f[x] + rest /\ Sums(f)[A \cup S] = f[x] + both
    BY <2>2, SumWithout
  <2>4. f[x] \in Int /\ a \in Int /\ rest \in Int /\ both \in Int
    BY SumsAreNumbers
  <2>5. S \ {x} \in Good <=> both = a + rest
    OBVIOUS
  <2>6. S \in Good <=> Sums(f)[A \cup S] = a + Sums(f)[S]
    OBVIOUS
  <2> HIDE DEF a, rest, both, Good
  <2>7. both = a + rest => f[x] + both = a + (f[x] + rest)
    BY <2>4
  <2> QED
    BY <2>1, <2>3, <2>5, <2>6, <2>7
<1>3. B \in Good
  <2>1. IsFiniteSet(B)
    BY FS_Subset
  <2> HIDE DEF Good
  <2>2. \A S \in SUBSET B : S \in Good
    BY <1>1, <1>2, <2>1, ElementByElement
  <2> QED
    BY <2>2
<1> QED
  BY <1>3

LEMMA SumOfPart ==
  ASSUME NEW f, IsFiniteSet(DOMAIN f), \A x \in DOMAIN f : f[x] \in Int,
         NEW A \in SUBSET DOMAIN f, \A x \in DOMAIN f \ A : f[x] >= 0
  PROVE  Sums(f)[A] <= SumOf(f)
<1>1. DOMAIN f \ A \in SUBSET (DOMAIN f \ A) /\ A \cup (DOMAIN f \ A) = DOMAIN f
  OBVIOUS
<1>2. Sums(f)[DOMAIN f] = Sums(f)[A] + Sums(f)[DOMAIN f \ A]
  BY <1>1, SumOfTwo
<1>3. Sums(f)[DOMAIN f \ A] >= 0
  BY SumHasSign
<1> DEFINE a == Sums(f)[A]
           b == Sums(f)[DOMAIN f \ A]
<1>4. a \in Int /\ b \in Int
  BY SumsAreNumbers
<1> HIDE DEF a, b
<1>5. a <= a + b
  BY <1>3, <1>4 DEF b
<1> QED
  BY <1>2, <1>5 DEF a, b, SumOf

(* Two sums are equal if their elements correspond, and compare if the     *)
(* elements do.                                                            *)
LEMMA SumOfMatch ==
  ASSUME NEW f, IsFiniteSet(DOMAIN f), \A x \in DOMAIN f : f[x] \in Int,
         NEW g, IsFiniteSet(DOMAIN g), \A y \in DOMAIN g : g[y] \in Int,
         NEW to, \A x \in DOMAIN f : to[x] \in DOMAIN g /\ f[x] = g[to[x]],
         \A x, y \in DOMAIN f : to[x] = to[y] => x = y,
         \A y \in DOMAIN g : \E x \in DOMAIN f : y = to[x]
  PROVE  SumOf(f) = SumOf(g)
<1> DEFINE image(S) == {to[x] : x \in S}
           Good == {S \in SUBSET DOMAIN f : Sums(f)[S] = Sums(g)[image(S)]}
<1>1. {} \in Good
  <2>1. image({}) = {}
    OBVIOUS
  <2> QED
    BY <2>1, SumsAreNumbers
<1>2. ASSUME NEW S \in SUBSET DOMAIN f, S # {} PROVE \E x \in S : S \ {x} \in Good => S \in Good
  <2>1. PICK x \in S : TRUE
    BY <1>2
  <2>2. Sums(f)[S] = f[x] + Sums(f)[S \ {x}]
    BY SumWithout
  <2>3. image(S) \ {to[x]} = image(S \ {x}) /\ to[x] \in image(S) /\ image(S) \in SUBSET DOMAIN g
    OBVIOUS
  <2>4. Sums(g)[image(S)] = g[to[x]] + Sums(g)[image(S \ {x})]
    <3> DEFINE I == image(S)
               J == image(S \ {x})
    <3>1. I \in SUBSET DOMAIN g /\ to[x] \in I /\ I \ {to[x]} = J
      BY <2>3
    <3> HIDE DEF I, J
    <3>2. Sums(g)[I] = g[to[x]] + Sums(g)[I \ {to[x]}]
      BY <3>1, SumWithout
    <3> QED
      BY <3>1, <3>2 DEF I, J
  <2>5. f[x] = g[to[x]]
    OBVIOUS
  <2> QED
    BY <2>1, <2>2, <2>4, <2>5
<1>3. \A S \in SUBSET DOMAIN f : S \in Good
  <2> HIDE DEF Good
  <2> QED
    BY <1>1, <1>2, ElementByElement
<1>4. image(DOMAIN f) = DOMAIN g
  OBVIOUS
<1> QED
  BY <1>3, <1>4 DEF SumOf

LEMMA SumIsAtMost ==
  ASSUME NEW f, IsFiniteSet(DOMAIN f), \A x \in DOMAIN f : f[x] \in Int,
         NEW g, IsFiniteSet(DOMAIN g), \A y \in DOMAIN g : g[y] \in Int /\ g[y] >= 0,
         NEW to, \A x \in DOMAIN f : to[x] \in DOMAIN g /\ f[x] <= g[to[x]],
         \A x, y \in DOMAIN f : to[x] = to[y] => x = y
  PROVE  SumOf(f) <= SumOf(g)
<1> DEFINE image(S) == {to[x] : x \in S}
           Good == {S \in SUBSET DOMAIN f : Sums(f)[S] <= Sums(g)[image(S)]}
<1>1. {} \in Good
  <2>1. image({}) = {}
    OBVIOUS
  <2>2. Sums(f)[{}] = 0 /\ Sums(g)[{}] = 0
    BY SumsAreNumbers
  <2> QED
    BY <2>1, <2>2
<1>2. ASSUME NEW S \in SUBSET DOMAIN f, S # {} PROVE \E x \in S : S \ {x} \in Good => S \in Good
  <2>1. PICK x \in S : TRUE
    BY <1>2
  <2>2. Sums(f)[S] = f[x] + Sums(f)[S \ {x}]
    BY SumWithout
  <2>3. image(S) \ {to[x]} = image(S \ {x}) /\ to[x] \in image(S) /\ image(S) \in SUBSET DOMAIN g
    OBVIOUS
  <2>4. Sums(g)[image(S)] = g[to[x]] + Sums(g)[image(S \ {x})]
    <3> DEFINE I == image(S)
               J == image(S \ {x})
    <3>1. I \in SUBSET DOMAIN g /\ to[x] \in I /\ I \ {to[x]} = J
      BY <2>3
    <3> HIDE DEF I, J
    <3>2. Sums(g)[I] = g[to[x]] + Sums(g)[I \ {to[x]}]
      BY <3>1, SumWithout
    <3> QED
      BY <3>1, <3>2 DEF I, J
  <2>5. f[x] \in Int /\ g[to[x]] \in Int /\ f[x] <= g[to[x]]
    OBVIOUS
  <2>6. Sums(f)[S \ {x}] \in Int /\ Sums(g)[image(S \ {x})] \in Int
    <3>1. image(S \ {x}) \in SUBSET DOMAIN g /\ S \ {x} \in SUBSET DOMAIN f
      OBVIOUS
    <3> HIDE DEF image
    <3> QED
      BY <3>1, SumsAreNumbers
  <2> DEFINE a == Sums(f)[S]
             b == Sums(f)[S \ {x}]
             c == Sums(g)[image(S)]
             d == Sums(g)[image(S \ {x})]
  <2>7. a = f[x] + b /\ c = g[to[x]] + d /\ b \in Int /\ d \in Int
    BY <2>2, <2>4, <2>6
  <2>8. S \ {x} \in Good <=> b <= d
    OBVIOUS
  <2>9. S \in Good <=> a <= c
    OBVIOUS
  <2> HIDE DEF a, b, c, d, Good
  <2>10. b <= d => a <= c
    BY <2>5, <2>7
  <2> QED
    BY <2>1, <2>8, <2>9, <2>10
<1>3. \A S \in SUBSET DOMAIN f : S \in Good
  <2> HIDE DEF Good
  <2> QED
    BY <1>1, <1>2, ElementByElement
<1>4. SumOf(f) <= Sums(g)[image(DOMAIN f)]
  BY <1>3 DEF SumOf
<1>5. image(DOMAIN f) \in SUBSET DOMAIN g
  OBVIOUS
<1> HIDE DEF image
<1>6. Sums(g)[image(DOMAIN f)] <= SumOf(g)
  BY <1>5, SumOfPart
<1>7. SumOf(f) \in Int /\ SumOf(g) \in Int /\ Sums(g)[image(DOMAIN f)] \in Int
  BY <1>5, SumsAreNumbers DEF SumOf
<1> QED
  BY <1>4, <1>6, <1>7

(* Parts that share nothing have together as many elements as their union. *)
LEMMA SumOfSizes ==
  ASSUME NEW part, IsFiniteSet(DOMAIN part), \A x \in DOMAIN part : IsFiniteSet(part[x]),
         \A x, y \in DOMAIN part : x # y => part[x] \cap part[y] = {}
  PROVE  SumOf([x \in DOMAIN part |-> Cardinality(part[x])])
           = Cardinality(UNION {part[x] : x \in DOMAIN part})
<1> DEFINE f == [x \in DOMAIN part |-> Cardinality(part[x])]
           all(S) == UNION {part[x] : x \in S}
           Good == {S \in SUBSET DOMAIN part : Sums(f)[S] = Cardinality(all(S))}
<1>1. DOMAIN f = DOMAIN part /\ \A x \in DOMAIN part : f[x] = Cardinality(part[x]) /\ f[x] \in Nat
  BY FS_CardinalityType
<1> HIDE DEF f
<1>2. {} \in Good
  <2>1. all({}) = {}
    OBVIOUS
  <2>2. Sums(f)[{}] = 0
    BY <1>1, SumsAreNumbers
  <2> QED
    BY <2>1, <2>2, FS_EmptySet
<1>3. ASSUME NEW S \in SUBSET DOMAIN part, S # {} PROVE \E x \in S : S \ {x} \in Good => S \in Good
  <2>1. PICK x \in S : TRUE
    BY <1>3
  <2>2. Sums(f)[S] = f[x] + Sums(f)[S \ {x}]
    BY <1>1, SumWithout
  <2>3. all(S) = part[x] \cup all(S \ {x})
    OBVIOUS
  <2>4. part[x] \cap all(S \ {x}) = {}
    BY <2>1
  <2>5. IsFiniteSet(all(S \ {x}))
    <3> DEFINE T == S \ {x}
    <3>1. IsFiniteSet(T) /\ \A y \in T : IsFiniteSet(part[y])
      BY FS_Subset
    <3> HIDE DEF T
    <3>2. IsFiniteSet(UNION {part[y] : y \in T})
      BY <3>1, FiniteUnion
    <3> QED
      BY <3>2 DEF T
  <2> DEFINE rest == all(S \ {x})
             both == all(S)
  <2>6. S \ {x} \in Good <=> Sums(f)[S \ {x}] = Cardinality(rest)
    OBVIOUS
  <2>7. S \in Good <=> Sums(f)[S] = Cardinality(both)
    OBVIOUS
  <2> HIDE DEF all, Good
  <2>8. Cardinality(both) = Cardinality(part[x]) + Cardinality(rest)
    <3>1. Cardinality(part[x]) \in Nat /\ Cardinality(rest) \in Nat
      BY <2>5, FS_CardinalityType
    <3>2. /\ Cardinality(part[x] \cup rest)
               = Cardinality(part[x]) + Cardinality(rest) - Cardinality(part[x] \cap rest)
          /\ Cardinality(part[x] \cap rest) = 0
      BY <2>4, <2>5, FS_Union, FS_EmptySet
    <3> QED
      BY <2>3, <3>1, <3>2
  <2> QED
    BY <1>1, <2>1, <2>2, <2>6, <2>7, <2>8
<1>4. \A S \in SUBSET DOMAIN part : S \in Good
  <2> HIDE DEF Good
  <2> QED
    BY <1>2, <1>3, ElementByElement
<1> QED
  BY <1>1, <1>4 DEF SumOf, f
=============================================================================
