------------------------------ MODULE Settings ------------------------------
(***************************************************************************)
(* From options to requests: options.go and extra_body.go build a client's *)
(* and a call's Options, transport.go and request.go make the request of   *)
(* one leg of them, and validation.go says in advance whether they can.    *)
(*                                                                         *)
(* Options is a struct of values and of Go maps.  Copies of the struct, in *)
(* clients, calls and option closures, share the maps; so maps live in a   *)
(* heap and structs hold their addresses.  The caller has a map of its own *)
(* that it passes to options and may write to at any moment.  The          *)
(* environment is read whenever a leg is prepared and may change as well.  *)
(*                                                                         *)
(* A map holds names: "set" is one the library sets too (the header        *)
(* Authorization, a sampling parameter), "own" one that it does not,       *)
(* "stream" a reserved body field.  Options that only assign a value (the  *)
(* temperature, the logger ...) all work like WithSeed here.  URL and key  *)
(* lists and model chains are sequences of trimmed entries, see Pairs.     *)
(***************************************************************************)
EXTENDS Naturals, Sequences, Functions, Maps, Pairs

CONSTANTS
  Recipe,        \* the options a caller may ask for
  ProviderOf,    \* the provider of each model spec ...
  Malformed,     \* ... or this if parseModelString() refuses the spec
  Table,         \* the base URL of each provider, <<>> if it has none
  Environment,   \* what the environment may hold
  Contents,      \* what the caller may write into its map
  Library,       \* a value the library sets
  None,          \* a nil pointer
  MaxBuilt,      \* bound: options built
  MaxCalls,      \* bound: calls
  MaxPassed,     \* bound: options passed to a call
  MaxChanges     \* bound: writes to the caller's map and the environment

Bare == "bare"           \* BareProvider, the provider of a bare spec
Ollama == "ollama"

ASSUME TableAssumption ==
  /\ {Bare, Ollama} \subseteq DOMAIN Table /\ Table[Bare] = <<>>
  /\ \A spec \in DOMAIN ProviderOf :
        ProviderOf[spec] \in DOMAIN Table \cup {Malformed}

(* A recipe names a function of options.go: by the field it assigns, or    *)
(* by the map it puts an entry under a provider's or a model's name in.    *)
Named == {"legEffort", "provider", "providerExtra"}

Kinds == Named \cup {"model", "pool", "effort", "seed", "default", "extra"}

ASSUME RecipeAssumption ==
  \A recipe \in Recipe :
    /\ DOMAIN recipe = {"kind", "name", "value", "base", "key", "map"}
    /\ recipe.kind \in Kinds /\ recipe.map \in BOOLEAN
    /\ recipe.kind \notin Named => recipe.name = None

ASSUME BoundsAssumption ==
  /\ MaxBuilt \in Nat /\ MaxCalls \in Nat
  /\ MaxPassed \in Nat /\ MaxChanges \in Nat

VARIABLES
  heap,          \* every map made so far; heap[1] is the caller's
  env,           \* the environment
  built,         \* option closures, and what their map held when made
  client,        \* the client's Options, None before New()
  base,          \* history: how many options the client was built with
  calls,         \* each call's Options, options passed and chain
  changes        \* writes so far, for MaxChanges

vars == <<heap, env, built, client, base, calls, changes>>

-----------------------------------------------------------------------------
(* Maps.  A nil map has address 0 and reads as an empty one.               *)
Nil == 0
Mine == 1

At(h, map) == IF map = Nil THEN <<>> ELSE h[map]

BrokenPut(s, field, key, value) ==      \* writes through to the shared map
  IF s.opts[field] = Nil
    THEN [heap |-> Append(s.heap, key :> value),
          opts |-> [s.opts EXCEPT ![field] = Len(s.heap) + 1]]
    ELSE [s EXCEPT !.heap[s.opts[field]] = (key :> value) @@ @]

(* Setting a key of one of the maps of an Options copies the map first.    *)
Put(s, field, key, value) ==
  [heap |-> Append(s.heap, (key :> value) @@ At(s.heap, s.opts[field])),
   opts |-> [s.opts EXCEPT ![field] = Len(s.heap) + 1]]

BrokenClone(h) == [heap |-> h, map |-> Mine]

(* The maps WithProvider(), WithDefaultProvider(), WithExtraBody() and     *)
(* WithProviderExtraBody() keep are clones of the caller's.                *)
clone(h) == [heap |-> Append(h, h[Mine]), map |-> Len(h) + 1]

reservedExtraBodyKeys == {"stream"}

ExtraBody == {"extra", "providerExtra"}

Panics(recipe) ==
  recipe.kind \in ExtraBody /\ reservedExtraBodyKeys \cap DOMAIN heap[Mine] # {}

-----------------------------------------------------------------------------
(* Options and the functions that set them.                                *)
defaultOptions ==
  [model |-> <<>>, pool |-> None, effort |-> None, seed |-> None,
   legEfforts |-> Nil, providers |-> Nil,
   default |-> [base |-> <<>>, key |-> <<>>, headers |-> Nil],
   extra |-> Nil, providerExtra |-> Nil]

Config(option) ==
  [base |-> option.recipe.base, key |-> option.recipe.key,
   headers |-> option.map]

(* Each function on [heap, opts] is what an option does when applied.      *)

Assign(s, option) == [s EXCEPT !.opts[option.recipe.kind] = option.recipe.value]

WithLegReasoningEffort(s, option) ==
  Put(s, "legEfforts", option.recipe.name, option.recipe.value)

WithProvider(s, option) ==
  Put(s, "providers", option.recipe.name, Config(option))

WithDefaultProvider(s, option) == [s EXCEPT !.opts.default = Config(option)]

WithExtraBody(s, option) == [s EXCEPT !.opts.extra = option.map]

WithProviderExtraBody(s, option) ==
  Put(s, "providerExtra", option.recipe.name, option.map)

apply(s, option) ==
  CASE option.recipe.kind = "legEffort" -> WithLegReasoningEffort(s, option)
    [] option.recipe.kind = "provider" -> WithProvider(s, option)
    [] option.recipe.kind = "default" -> WithDefaultProvider(s, option)
    [] option.recipe.kind = "extra" -> WithExtraBody(s, option)
    [] option.recipe.kind = "providerExtra" -> WithProviderExtraBody(s, option)
    [] OTHER -> Assign(s, option)

(* One option after the other.                                             *)
applyOptions(opts, options) ==
  LET Applied[i \in 0..Len(options)] ==
        IF i = 0 THEN [heap |-> heap, opts |-> opts]
                 ELSE apply(Applied[i - 1], options[i])
  IN  Applied[Len(options)]

-----------------------------------------------------------------------------
(* What one leg makes of the Options.                                      *)
Map(map) == At(heap, map)

(* providerBaseURL() and providerAPIKey(): the provider's own entry unless *)
(* it is empty, then the default.                                          *)
Explicit(o, p, field) ==
  LET own == Map(o.providers)
  IN IF p \in DOMAIN own /\ own[p][field] # <<>>
       THEN own[p][field] ELSE o.default[field]

providerHeaders(o, p) ==
  LET own == Map(o.providers)
  IN IF p \in DOMAIN own
       THEN Map(own[p].headers) @@ Map(o.default.headers)
       ELSE Map(o.default.headers)

(* An empty list stands for the error.  A bare model never looks at the    *)
(* environment; ollama needs no key.                                       *)
resolveBaseURL(o, p) ==
  CASE Explicit(o, p, "base") # <<>> -> Explicit(o, p, "base")
    [] Explicit(o, p, "base") = <<>> /\ p = Bare -> <<>>
    [] OTHER -> IF env.base[p] # <<>> THEN env.base[p] ELSE Table[p]

resolveAPIKey(o, p) ==
  CASE Explicit(o, p, "key") # <<>> -> Explicit(o, p, "key")
    [] Explicit(o, p, "key") = <<>> /\ p = Bare -> <<>>
    [] OTHER -> IF env.key[p] # <<>> THEN env.key[p]
                ELSE IF p = Ollama THEN <<Ollama>> ELSE <<>>

Resolved(o, p) == [keys |-> resolveAPIKey(o, p), urls |-> resolveBaseURL(o, p)]

reasoningEffortFor(o, spec) ==
  LET own == Map(o.legEfforts)
  IN IF spec \in DOMAIN own THEN own[spec] ELSE o.effort

(* normalizeReasoningEffort() refuses what is not on the provider's list.  *)
ollamaReasoningEfforts == {"none", "low", "medium", "high"}
openAIReasoningEfforts == ollamaReasoningEfforts \cup {"minimal", "xhigh"}

Allowed(p) ==
  IF p = Ollama THEN ollamaReasoningEfforts ELSE openAIReasoningEfforts

EffortAllowed(effort, p) == effort = None \/ effort \in Allowed(p)

extraBodyFor(o, p) ==
  LET own == Map(o.providerExtra)
  IN IF p \in DOMAIN own THEN Map(own[p]) @@ Map(o.extra) ELSE Map(o.extra)

(* The fields the library models, before mergeExtraBody().                 *)
payload(o) ==
  ("stream" :> Library) @@ IF o.seed = None THEN <<>> ELSE "set" :> o.seed

Refused == [error |-> TRUE]

(* prepareLLMCall(): the pairs the balancer chooses from, the headers that *)
(* go out and the body, or an error.                                       *)
prepareLLMCall(o, spec) ==
  LET p == ProviderOf[spec]
      effort == reasoningEffortFor(o, spec)
  IN IF \/ p = Malformed
        \/ ~ Buildable(Resolved(o, p))
        \/ ~ EffortAllowed(effort, p)
       THEN Refused
       ELSE [pairs |-> buildPairs(Resolved(o, p)),
             headers |-> providerHeaders(o, p) @@ ("set" :> Library),
             effort |-> effort,
             body |-> extraBodyFor(o, p) @@ payload(o)]

(* createSelector(): the models of a call in the order they were given; a  *)
(* chain that does not parse is an error.                                  *)
createSelector(o) ==
  IF o.pool # None THEN o.pool
  ELSE IF o.model # <<>> THEN o.model ELSE env.model

BrokenValidateModelConfig(o, spec) ==   \* looks at the chain-wide effort
  LET p == ProviderOf[spec]
  IN /\ p # Malformed
     /\ EffortAllowed(o.effort, p)
     /\ Buildable(Resolved(o, p))

-----------------------------------------------------------------------------
(* Validate(): the errors it would join, as "no error".                    *)
validateModelConfig(o, spec) ==
  LET p == ProviderOf[spec]
  IN /\ p # Malformed
     /\ EffortAllowed(reasoningEffortFor(o, spec), p)
     /\ Buildable(Resolved(o, p))

unmatchedLegEfforts(o) == DOMAIN Map(o.legEfforts) \ Range(createSelector(o))

Validate(o) ==
  /\ Parses(createSelector(o))
  /\ \A spec \in Range(createSelector(o)) : validateModelConfig(o, spec)
  /\ unmatchedLegEfforts(o) = {}

-----------------------------------------------------------------------------
Init ==
  /\ heap \in {<<c>> : c \in Contents}
  /\ env \in Environment
  /\ built = <<>> /\ client = None /\ base = 0 /\ calls = <<>> /\ changes = 0

(* WithX(...): an option.  Its map is cloned now, and it may be used in    *)
(* any number of clients and calls.                                        *)
Build(recipe) ==
  /\ Len(built) < MaxBuilt
  /\ ~ Panics(recipe)
  /\ LET cloned == IF recipe.map THEN clone(heap) ELSE [heap |-> heap, map |-> Nil]
     IN /\ heap' = cloned.heap
        /\ built' = Append(built, [recipe |-> recipe, map |-> cloned.map,
                                   meant |-> IF recipe.map THEN heap[Mine] ELSE <<>>])
  /\ UNCHANGED <<env, client, base, calls, changes>>

(* New(): the client's Options.                                            *)
New ==
  /\ client = None
  /\ LET made == applyOptions(defaultOptions, built)
     IN heap' = made.heap /\ client' = made.opts
  /\ base' = Len(built)
  /\ UNCHANGED <<env, built, calls, changes>>

(* callOptions() and createSelector() at the start of a call to which a    *)
(* list of the options is passed, in any order, one or the other repeated. *)
Picks(passed) == [i \in 1..Len(passed) |-> built[passed[i]]]

Call(passed) ==
  /\ client # None
  /\ Len(calls) < MaxCalls
  /\ LET made == applyOptions(client, Picks(passed))
     IN /\ heap' = made.heap
        /\ calls' = Append(calls, [opts |-> made.opts, passed |-> passed,
                                   chain |-> createSelector(made.opts)])
  /\ UNCHANGED <<env, built, client, base, changes>>

WriteMap(contents) ==
  /\ changes < MaxChanges
  /\ changes' = changes + 1
  /\ heap' = [heap EXCEPT ![Mine] = contents]
  /\ UNCHANGED <<env, built, client, base, calls>>

Setenv(environment) ==
  /\ changes < MaxChanges
  /\ changes' = changes + 1
  /\ env' = environment
  /\ UNCHANGED <<heap, built, client, base, calls>>

Next ==
  \/ \E recipe \in Recipe : Build(recipe)
  \/ New
  \/ \E n \in 0..MaxPassed : \E passed \in [1..n -> DOMAIN built] : Call(passed)
  \/ \E contents \in Contents : WriteMap(contents)
  \/ \E environment \in Environment : Setenv(environment)

Spec == Init /\ [][Next]_vars

-----------------------------------------------------------------------------
(* What the options of a call mean, read off the list of them without maps *)
(* or heap: the last option of a kind (and of that provider or model) is   *)
(* the one that counts, with its map as it was when the option was made.   *)
Passed(call) == SubSeq(built, 1, base) \o Picks(call.passed)

Absent == [recipe |-> [value |-> None, base |-> <<>>, key |-> <<>>],
           meant |-> <<>>]

Matches(option, kind, name) ==
  option.recipe.kind = kind /\ option.recipe.name = name

LastOf(options, kind, name) ==
  LET matching == {i \in 1..Len(options) : Matches(options[i], kind, name)}
  IN  IF matching = {} THEN Absent
      ELSE options[CHOOSE i \in matching : \A j \in matching : j <= i]

(* The first list that is not empty.                                       *)
FirstGiven(lists) ==
  LET given == {i \in 1..Len(lists) : lists[i] # <<>>}
  IN  IF given = {} THEN <<>>
      ELSE lists[CHOOSE i \in given : \A j \in given : i <= j]

Meant(call, spec) ==
  LET options == Passed(call)
      p == ProviderOf[spec]
      own == LastOf(options, "provider", p)
      default == LastOf(options, "default", None)
      found(list) == IF p = Bare THEN <<>> ELSE list
      lists == [urls |-> FirstGiven(<<own.recipe.base, default.recipe.base,
                                      found(env.base[p]), found(Table[p])>>),
                keys |-> FirstGiven(<<own.recipe.key, default.recipe.key,
                                      found(env.key[p]),
                                      IF p = Ollama THEN <<Ollama>> ELSE <<>>>>)]
      leg == LastOf(options, "legEffort", spec)
      chosen == IF leg # Absent THEN leg ELSE LastOf(options, "effort", None)
      effort == chosen.recipe.value
      seed == LastOf(options, "seed", None).recipe.value
  IN IF p = Malformed THEN Refused
     ELSE IF ~ Buildable(lists) \/ effort \notin Allowed(p) \cup {None} THEN Refused
     ELSE [pairs |-> buildPairs(lists),
           headers |-> own.meant @@ default.meant @@ ("set" :> Library),
           effort |-> effort,
           body |-> ("stream" :> Library)
                    @@ LastOf(options, "providerExtra", p).meant
                    @@ LastOf(options, "extra", None).meant
                    @@ IF seed = None THEN <<>> ELSE "set" :> seed]

(* Every leg of every call sends what its options meant, whatever other    *)
(* calls do with the same client and the same options, and whatever the    *)
(* caller does to its map after it has passed it: a later option beats an  *)
(* earlier one, a provider's beats the default, the caller's fields and    *)
(* headers beat the library's, reserved ones excepted (options.go:60,      *)
(* "Copy on write", client.go:22).                                         *)
LaterWins ==
  \A i \in DOMAIN calls : Parses(calls[i].chain) =>
    \A spec \in Range(calls[i].chain) :
      prepareLLMCall(calls[i].opts, spec) = Meant(calls[i], spec)

(* Validate() has no error for a call's options exactly if, in the same    *)
(* environment, a call gets a chain, can prepare every leg of it, and has  *)
(* no leg effort without a leg (validation.go:17).                         *)
ValidateAgrees ==
  \A i \in DOMAIN calls :
    LET o == calls[i].opts
        chain == createSelector(o)
    IN Validate(o) <=>
         /\ Parses(chain)
         /\ \A spec \in Range(chain) : prepareLLMCall(o, spec) # Refused
         /\ \A option \in Range(Passed(calls[i])) :
              option.recipe.kind = "legEffort"
                => option.recipe.name \in Range(chain)

(* No option, client or call ever writes to a map another one may hold:    *)
(* the only map that changes is the caller's own.  This is what makes a    *)
(* Client safe for concurrent use (client.go:5).                           *)
SharedMapsFrozen ==
  [][\A map \in DOMAIN heap \ {Mine} : heap'[map] = heap[map]]_vars

=============================================================================
