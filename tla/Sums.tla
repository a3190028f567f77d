-------------------------------- MODULE Sums --------------------------------
(***************************************************************************)
(* Sums of natural numbers over a set of keys, written without recursion   *)
(* so that the same definition can be evaluated by TLC and reasoned about  *)
(* by TLAPS: the sum of f over S is the number of units <<k, i>> with k in *)
(* S and i in 1 .. f[k].                                                   *)
(***************************************************************************)
EXTENDS Integers, FiniteSets

(* One pair per unit that a key of S contributes. *)
Units(f, S) == UNION {{k} \X (1 .. f[k]) : k \in S}

(* The sum of f[k] over the keys k of S. *)
SumOver(f, S) == Cardinality(Units(f, S))

(* The part of a that exceeds b, and nothing when it does not. *)
Excess(a, b) == IF a > b THEN a - b ELSE 0
=============================================================================
