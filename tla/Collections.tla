------------------------------ MODULE Collections ------------------------------
(***************************************************************************)
(* What the code does with lists, whatever is in them: sort() and slice(). *)
(***************************************************************************)
EXTENDS Integers, Sequences, FiniteSets, Functions

(* A comparator a || b || c: the first of the keys that differ decides, and *)
(* of two names the one that is the beginning of the other is first.        *)
Lower(a, b) ==
  \E i \in DOMAIN b : /\ \A j \in 1..(i - 1) : j \in DOMAIN a /\ a[j] = b[j]
                      /\ i \in DOMAIN a => a[i] < b[i]

(* sort() of the domain of key: of elements with equal keys either is first. *)
InOrder(list, key) == \A i, j \in DOMAIN list : i < j => ~Lower(key[list[j]], key[list[i]])
SortedBy(key) ==
  CHOOSE list \in Bijection(1..Cardinality(DOMAIN key), DOMAIN key) : InOrder(list, key)

(* list.slice(0, limit) *)
FirstOf(list, limit) == SubSeq(list, 1, IF limit < Len(list) THEN limit ELSE Len(list))

(* reduce((sum, x) => sum + f(x), 0), over a set.                          *)
Sums(f) ==
  LET sum[S \in SUBSET DOMAIN f] ==
        IF S = {} THEN 0 ELSE LET x == CHOOSE x \in S : TRUE IN f[x] + sum[S \ {x}]
  IN sum
SumOf(f) == Sums(f)[DOMAIN f]
=============================================================================
