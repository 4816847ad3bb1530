----------------------------- MODULE MC_Embed -----------------------------
(* Three models, three attempts each, three inputs.                       *)
EXTENDS Embed
=============================================================================
