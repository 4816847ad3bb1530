------------------------------ MODULE MC_Chain ------------------------------
(* Small calls: two legs of two attempts each, two chunks over the call.    *)
EXTENDS Chain

Opt(legs, random, commit, capped, budgeted, timed, minimum, valid) ==
  [legs |-> legs, random |-> random, commit |-> commit, capped |-> capped,
   budget |-> budgeted, timeout |-> timed, minimum |-> minimum,
   valid |-> valid]

C(text, reasoning, tool, fin) ==      \* items come with reasoning of one's own
  [text |-> text, reasoning |-> reasoning, items |-> reasoning = "own",
   tool |-> tool, finish |-> fin]

MC_Options ==
  {Opt(2, random, commit, FALSE, budgeted, TRUE, FALSE, TRUE) :
      random \in BOOLEAN, commit \in BOOLEAN, budgeted \in BOOLEAN}
    \cup {Opt(2, FALSE, commit, TRUE, FALSE, FALSE, TRUE, TRUE) : commit \in BOOLEAN}
    \cup {Opt(0, FALSE, TRUE, FALSE, FALSE, FALSE, FALSE, TRUE),
          Opt(1, FALSE, TRUE, FALSE, FALSE, FALSE, FALSE, FALSE)}

(* For a single question: one Ask of two legs under a leg budget.           *)
MC_BudgetOptions == {Opt(2, FALSE, FALSE, FALSE, TRUE, FALSE, FALSE, TRUE)}

MC_FewChunks == {C("words", "none", "none", "none"), C("partial", "none", "none", "none")}

MC_Chunk ==
  {C("words", "none", "none", "none"), C("blank", "none", "none", "none"),
   C("partial", "none", "none", "none"), C("none", "tagged", "none", "none"),
   C("words", "own", "none", "none"),
   C("none", "none", "start", "none"), C("none", "none", "args", "length"),
   C("none", "none", "none", "length"), C("none", "none", "none", "tool_calls")}
=============================================================================
