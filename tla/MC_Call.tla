------------------------------ MODULE MC_Call ------------------------------
(* Small calls of one leg under a budget, and of two legs: Ask, Stream, and *)
(* a request that is refused.                                               *)
EXTENDS Call, MC_Chain

MC_CallOptions ==
  {Opt(1, FALSE, FALSE, FALSE, TRUE, FALSE, FALSE, TRUE),
   Opt(1, FALSE, TRUE, FALSE, TRUE, FALSE, FALSE, TRUE),
   Opt(2, FALSE, FALSE, FALSE, FALSE, TRUE, FALSE, TRUE),
   Opt(2, FALSE, TRUE, FALSE, FALSE, FALSE, FALSE, TRUE),
   Opt(1, FALSE, TRUE, FALSE, FALSE, FALSE, FALSE, FALSE)}
=============================================================================
