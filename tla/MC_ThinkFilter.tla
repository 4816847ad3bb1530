-------------------------- MODULE MC_ThinkFilter --------------------------
(* Every text of up to seven letters, in every fragmentation, with tags of *)
(* two and three letters.                                                  *)
EXTENDS ThinkFilter

MC_Letter == {"<", "/", ">", "a"}
MC_openTag == <<"<", ">">>
MC_closeTag == <<"<", "/", ">">>
=============================================================================
