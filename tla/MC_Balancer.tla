---------------------------- MODULE MC_Balancer ----------------------------
(* Three calls at once over three lists of pairs.                          *)
EXTENDS Balancer

CONSTANTS k1, k2, k3, w1, w2, w3, c1, c2, c3

MC_Key == {k1, k2, k3}
MC_URL == {w1, w2, w3}
MC_Caller == {c1, c2, c3}

Lists(keys, urls) == [keys |-> keys, urls |-> urls]

(* Lists that share no pair, one of every accepted shape, and lists that   *)
(* make no pairs.                                                          *)
MC_Request ==
  {Lists(<<k1, k2>>, <<w1, w2>>), Lists(<<k3>>, <<w1, w2>>),
   Lists(<<k1, k2>>, <<w3>>), Lists(<<k1, Blank>>, <<w1>>),
   Lists(<<k1, k2, k3>>, <<w1, w2>>)}
=============================================================================
