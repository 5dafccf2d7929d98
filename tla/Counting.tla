------------------------------- MODULE Counting -------------------------------
(***************************************************************************)
(* The first of some positions, the last of them up to a given one, and    *)
(* how many there are up to it: what "the k-th argument of a name" and     *)
(* "how deep" are said with.                                               *)
(***************************************************************************)
EXTENDS Integers, FiniteSets

First(set) == CHOOSE n \in set : \A m \in set : n <= m

Latest(n, set) == CHOOSE m \in set : m <= n /\ \A k \in set : k <= n => k <= m

Place(n, set) == Cardinality({m \in set : m <= n})
=============================================================================
