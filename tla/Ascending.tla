----------------------------- MODULE Ascending -----------------------------
(***************************************************************************)
(* A finite set of numbers as a list.                                      *)
(***************************************************************************)
EXTENDS Naturals, FiniteSets

(* Its members in increasing order, as sort.Ints() leaves them.            *)
InOrder(indexes) ==
  [i \in 1..Cardinality(indexes) |->
     CHOOSE s \in indexes : Cardinality({t \in indexes : t < s}) = i - 1]

=============================================================================
