------------------------------- MODULE Maps --------------------------------
(***************************************************************************)
(* Functions with few keys, written as in module TLC: there the operators  *)
(* are the checker's own, here they have definitions to reason with.       *)
(***************************************************************************)

key :> value == [k \in {key} |-> value]

(* Both maps in one; the left one wins.                                    *)
f @@ g ==
  [k \in DOMAIN f \cup DOMAIN g |-> IF k \in DOMAIN f THEN f[k] ELSE g[k]]

=============================================================================
