---------------------------- MODULE SumTheorems ----------------------------
(***************************************************************************)
(* What SumOver computes when a key joins or leaves the set.  The set of   *)
(* units is carried along as finite, so that no induction is needed.       *)
(* And: a bounded set of numbers has a largest member.                     *)
(***************************************************************************)
EXTENDS Sums, FiniteSetTheorems, TLAPS

(* n is the sum of f over S, and the sum is a finite one. *)
IsSum(n, f, S) == IsFiniteSet(Units(f, S)) /\ n = SumOver(f, S)

(* The units of one key are as many as its value. *)
LEMMA OneKey ==
  ASSUME NEW k, NEW n \in Nat
  PROVE  IsFiniteSet({k} \X (1 .. n)) /\ Cardinality({k} \X (1 .. n)) = n
<1>1. IsFiniteSet({k}) /\ Cardinality({k}) = 1
  BY FS_Singleton
<1>2. IsFiniteSet(1 .. n) /\ Cardinality(1 .. n) = n
  BY FS_Interval
<1>3. IsFiniteSet({k} \X (1 .. n))
      /\ Cardinality({k} \X (1 .. n)) = Cardinality({k}) * Cardinality(1 .. n)
  BY <1>1, <1>2, FS_Product, Zenon
<1>4. QED
  BY <1>1, <1>2, <1>3

(* Nothing adds up to zero. *)
LEMMA SumEmpty == ASSUME NEW f PROVE IsSum(0, f, {})
<1>1. Units(f, {}) = {}
  BY DEF Units
<1>2. QED
  BY <1>1, FS_EmptySet DEF IsSum, SumOver

(* A sum is a natural number. *)
LEMMA SumIsNat == ASSUME NEW n, NEW f, NEW S, IsSum(n, f, S) PROVE n \in Nat
  BY FS_CardinalityType DEF IsSum, SumOver

(* Only the values of the keys in the set count. *)
LEMMA SumSame ==
  ASSUME NEW n, NEW f, NEW g, NEW S, IsSum(n, f, S), \A k \in S : g[k] = f[k]
  PROVE  IsSum(n, g, S)
<1>1. Units(g, S) = Units(f, S)
  BY DEF Units
<1>2. QED
  BY <1>1 DEF IsSum, SumOver

(* A key that joins the set adds its value. *)
LEMMA SumAdd ==
  ASSUME NEW n, NEW f, NEW S, NEW k, IsSum(n, f, S), k \notin S, f[k] \in Nat
  PROVE  IsSum(n + f[k], f, S \cup {k})
<1> DEFINE K == {k} \X (1 .. f[k])
<1>1. Units(f, S \cup {k}) = Units(f, S) \cup K
  BY DEF Units
<1>2. Units(f, S) \cap K = {}
  BY DEF Units
<1>3. IsFiniteSet(K) /\ Cardinality(K) = f[k]
  BY OneKey
<1>4. IsFiniteSet(Units(f, S)) /\ n = Cardinality(Units(f, S))
  BY DEF IsSum, SumOver
<1>5. Cardinality({}) = 0
  BY FS_EmptySet
<1>6. n \in Nat
  BY <1>4, FS_CardinalityType
<1> HIDE DEF K
<1>7. IsFiniteSet(Units(f, S) \cup K)
      /\ Cardinality(Units(f, S) \cup K)
           = Cardinality(Units(f, S)) + Cardinality(K) - Cardinality(Units(f, S) \cap K)
  BY <1>3, <1>4, FS_Union, Zenon
<1>8. IsFiniteSet(Units(f, S \cup {k})) /\ SumOver(f, S \cup {k}) = n + f[k] - 0
  BY <1>1, <1>2, <1>3, <1>4, <1>5, <1>7, Zenon DEF SumOver
<1>9. QED
  BY <1>6, <1>8 DEF IsSum

(* A key that leaves the set takes its value along. *)
LEMMA SumRemove ==
  ASSUME NEW n, NEW f, NEW S, NEW k \in S, IsSum(n, f, S), f[k] \in Nat
  PROVE  IsSum(n - f[k], f, S \ {k})
<1> DEFINE m == SumOver(f, S \ {k})
<1>1. Units(f, S \ {k}) \subseteq Units(f, S)
  BY DEF Units
<1>2. IsFiniteSet(Units(f, S \ {k}))
  BY <1>1, FS_Subset DEF IsSum
<1>3. IsSum(m, f, S \ {k})
  BY <1>2 DEF IsSum
<1>4. IsSum(m + f[k], f, (S \ {k}) \cup {k})
  BY <1>3, SumAdd
<1>5. (S \ {k}) \cup {k} = S
  OBVIOUS
<1>6. m + f[k] = n
  BY <1>4, <1>5 DEF IsSum
<1>7. m \in Nat
  BY <1>3, SumIsNat
<1>8. QED
  BY <1>3, <1>6, <1>7

(* The same with values that change elsewhere: a key joins ... *)
LEMMA SumJoin ==
  ASSUME NEW n, NEW f, NEW g, NEW S, NEW k, IsSum(n, f, S), k \notin S,
         \A j \in S : g[j] = f[j], g[k] \in Nat
  PROVE  IsSum(n + g[k], g, S \cup {k})
<1>1. IsSum(n, g, S)
  BY SumSame
<1>2. QED
  BY <1>1, SumAdd

(* ... and a key leaves. *)
LEMMA SumLeave ==
  ASSUME NEW n, NEW f, NEW g, NEW S, NEW k \in S, IsSum(n, f, S), f[k] \in Nat,
         \A j \in S \ {k} : g[j] = f[j]
  PROVE  IsSum(n - f[k], g, S \ {k})
<1>1. IsSum(n - f[k], f, S \ {k})
  BY SumRemove
<1>2. QED
  BY <1>1, SumSame

-----------------------------------------------------------------------------
(* The distances to the bound have a least one, as < is well-founded. *)
LEMMA LargestExists ==
  ASSUME NEW n \in Nat, NEW S, S \subseteq 1 .. n, S # {}
  PROVE  \E m \in S : \A y \in S : y <= m
<1>1. PICK R : R = OpToRel(<, Nat)
  OBVIOUS
<1>2. \A x, y \in Nat : x < y => <<x, y>> \in R
  BY <1>1 DEF OpToRel
<1>3. IsWellFoundedOn(R, Nat)
  BY <1>1, NatLessThanWellFounded
<1>4. PICK T : T = {n - x : x \in S}
  OBVIOUS
<1>5. T \subseteq Nat /\ T # {}
  <2>1. \A x \in S : n - x \in Nat
    OBVIOUS
  <2>2. QED
    BY <1>4, <2>1
<1>6. PICK t \in T : \A u \in T : <<u, t>> \notin R
  BY <1>3, <1>5, WFMin
<1>7. PICK m \in S : t = n - m
  BY <1>4
<1>8. ASSUME NEW y \in S PROVE y <= m
  <2>1. n - y \in T /\ n - y \in Nat /\ t \in Nat
    BY <1>4, <1>5
  <2>2. ~(n - y < t)
    BY <1>2, <1>6, <2>1
  <2>3. y \in Int /\ m \in Int
    OBVIOUS
  <2>4. QED
    BY <1>7, <2>2, <2>3
<1>9. QED
  BY <1>8
=============================================================================
