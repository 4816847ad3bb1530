---------------------------- MODULE MC_Settings ----------------------------
(* Options of every kind over a bare model, a local one, a hosted provider *)
(* and one that only configuration knows.                                  *)
EXTENDS Settings

CONSTANTS u1, u2, u3, k1, k2, k3, v0, v1

Option(kind, name, value) ==
  [kind |-> kind, name |-> name, value |-> value,
   base |-> <<>>, key |-> <<>>, map |-> FALSE]

WithMap(option) == [option EXCEPT !.map = TRUE]

With(option, baseURL, apiKey) ==
  [option EXCEPT !.base = baseURL, !.key = apiKey]

MC_Table ==
  ("bare" :> <<>>) @@ ("ollama" :> <<u1>>) @@ ("hosted" :> <<u2>>)
  @@ ("custom" :> <<>>)

MC_ProviderOf ==
  ("m" :> "bare") @@ ("ollama/m" :> "ollama") @@ ("hosted/m" :> "hosted")
  @@ ("custom/m" :> "custom") @@ ("/m" :> Malformed)

MC_Recipe ==
  {Option("model", None, <<"m", "hosted/m">>),
   Option("model", None, <<"ollama/m", Blank>>),
   Option("model", None, <<"ollama/m", "/m">>),
   Option("pool", None, <<"ollama/m", "custom/m">>),
   Option("effort", None, "minimal"),
   Option("legEffort", "ollama/m", "low"),
   Option("legEffort", "ollama/m", "minimal"),
   Option("seed", None, v1),
   WithMap(Option("extra", None, None)),
   WithMap(Option("providerExtra", "hosted", None)),
   WithMap(With(Option("provider", "hosted", None), <<>>, <<k1, k2>>)),
   With(Option("provider", "hosted", None), <<u1, u2>>, <<>>),
   With(Option("provider", "bare", None), <<u1>>, <<k1>>),
   With(Option("provider", "custom", None), <<u3>>, <<k3>>),
   WithMap(With(Option("default", None, None), <<u1, u2, u3>>, <<k1>>))}

MC_Contents ==
  {("set" :> v0) @@ ("own" :> v0) @@ ("stream" :> v1), "own" :> v1}

Variables(model, baseURL, apiKey) ==
  [model |-> model, base |-> [p \in DOMAIN MC_Table |-> baseURL],
   key |-> [p \in DOMAIN MC_Table |-> apiKey]]

MC_Environment ==
  {Variables(<<>>, <<>>, <<k3>>),
   Variables(<<"hosted/m", "ollama/m">>, <<u3>>, <<>>)}
=============================================================================
