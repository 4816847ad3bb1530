---------------------------- MODULE MC_ToolCalls ----------------------------
(* Three calls whose indexes are neither dense nor in the order they begin. *)
EXTENDS ToolCalls

MC_Position == (1 :> 2) @@ (2 :> 0) @@ (3 :> 4)
MC_Style == {"indexed", "bare"}
MC_Repeating == {"repeating"}
=============================================================================
