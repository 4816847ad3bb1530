# smolllm-go in TLA+

smolllm-go is a Go client for OpenAI-compatible chat and embedding endpoints.
Its core is a *fallback chain*: a call tries one model (a *leg*) after another,
retries transient failures, and streams what it receives to its caller. This
directory models that core, model-checks it with TLC on small instances, and
proves results about it with TLAPS for all instances.

Paths below are relative to `src/smolllm/`.

## 1. The system

| Component | State it keeps | Operations | Interacts with |
|---|---|---|---|
| Event stream (`eventstream.go`) | locked queue, `inputClosed`, one-slot `notify`, `result`, `done`, `abandon` | `push`, `finish`, the `pump` goroutine, `Events`, `Result`, `Close` | the chain pushes and finishes; the caller ranges, waits, closes; `Close` cancels the call's context |
| Fallback chain (`chain.go`) | `chainState`: accumulator, `emitted`; locals of `runChain`, `runLeg`, `attemptLeg` | one goroutine per call; retry, advance, abort | selector, attempt, reader, accumulator, event stream, hook |
| Failure classification (`errors.go`) | none | `Classify`, `httpError` | chain and embeddings |
| HTTP attempt (`transport.go`) | attempt context with its cause, leg-budget timer, open response bodies | `do`, `retryWithoutStreamUsage`, `armLegBudget`, `budgetCause` | provider; the timer runs on a goroutine of its own |
| Stream reader (`streaming.go`) | locals of `consumeLegStream` | one pass over the lines of a body | think filter, tool calls, `chainState` as sink |
| Turn accumulator (`message.go`) | text, tools, identity, attempts, usage | `resetLeg`, `snapshot` | chain |
| Selector (`selector.go`) | models not handed out | `NextModel`, `HasMore` | chain, embeddings |
| Tool calls (`toolcall.go`) | slots by index, `lastSlot` | `feed`, `result` | reader feeds; events through the chain |
| Think filter (`utils.go`) | `insideThink`, `buffer`, `disabled` | `Feed`, `Flush` | reader |
| Load balancer (`balancer.go`) | use counts under a mutex | `choosePair` | **shared by all calls of a client** |
| Embeddings (`embed.go`, `retry.go`) | locals of `Embed`, `withRetry` | the chain's policy once more, without a stream | selector, classification, balancer, hook |
| Options, client (`options.go`, `extra_body.go`, `client.go`) | structs of values and of Go maps that copies of a struct **share** | `New`, `callOptions`, the option functions | the caller's maps go in; every leg reads them |
| Request building, validation, providers (`transport.go`, `request.go`, `validation.go`, `providers.go`) | none; the environment | `prepareLLMCall`, `createSelector`, `Validate` | read options and environment when a leg is prepared |
| Usage, CLI (`usage.go`, `cmd/cli`) | none | arithmetic, printing | |

What is hard about it: four goroutines meet in an event stream without one lock
around them; a call can be cancelled, expire, or run out of a leg's budget
between any two steps of the chain, and the budget's timer fires and *runs* at
two different moments; a provider may fail after part of an answer has gone out;
fragments of text, tags and tool calls are cut anywhere; concurrent calls share
the balancer and the maps in their options. `PROJECT.json` lists these under "hazards", with the line where
each bites and the properties that guard it.

## 2. Modules

| Module | Models | Kind |
|---|---|---|
| `Channel` | what `Events()` promises: a lossless ordered channel | abstract specification |
| `Fallback` | what a call promises: which model is tried next, and when it fails | abstract specification |
| `EventStream` | `eventstream.go` | detailed; implements `Channel` |
| `Errors` | failures and `Classify` | operators, used by `Chain` and `Embed` |
| `Chain` | `chain.go`, with the attempt, reader, accumulator and selector | detailed; implements `Fallback` |
| `Embed` | `embed.go`, `withRetry` | detailed; implements `Fallback` |
| `Call` | `Chain` composed with `Channel` and with the caller | composition |
| `ToolCalls` | `toolcall.go` and its events | detailed, against what the provider said |
| `ThinkFilter` | `thinkTagFilter` | detailed, against a stateless reference |
| `Pairs` | `parseList`, `buildPairs` | operators, used by `Balancer` and `Settings` |
| `Balancer` | `choosePair` | detailed |
| `Settings` | `options.go`, `extra_body.go`, `client.go`, `validation.go` and what a leg makes of them | detailed, against what a list of options means |
| `Maps` | `:>` and `@@` of module `TLC` with definitions a prover can use | operators, used by `ToolCalls` and `Settings` |
| `Ascending` | a finite set of numbers in increasing order | operator, used by `ToolCalls` and `ThinkFilter` |
| `Foundations` | induction and recursion, stated of sets and functions; sequences, sets of numbers in order | lemmas |
| `EventStreamProofs`, `BalancerProofs`, `EmbedProofs`, `CallProofs`, `ToolCallsProofs`, `SettingsProofs`, `ThinkFilterProofs` | theorems of the module they are named after; those of `Chain` are in `CallProofs` | proofs |
| `MC_*` | constants of the TLC runs | |

Operators whose name begins with `Broken` are a definition with a plausible bug
in it; nothing in the specifications uses them. "mutants" in `PROJECT.json` says
which property notices which.

### EventStream

A section under `mu` is one action, and so is every step outside it. `push()`
is `Push` (the locked append) and then `Wake`, because the mutex is released in
between. `finish()` is `Latch`, `PushTerminal`, `Wake`, `CloseInput`, `Wake`,
`CloseDone`. The pump is `PumpTake`/`PumpIdle` (one look under the mutex)
followed by one of its two selects: `PumpNotified`, `PumpAbandoned`, `Deliver`.
`Close()` takes two steps, for the call's context and for `abandon`. The events
channel is unbuffered, so `Deliver` needs a reader; a reader may stop for good
at any moment (`ReaderStops`). `finish()` may be called any number of times, as
`runChain`'s deferred call does.

### Chain

The chain goroutine runs from one place where something else can interfere to
the next: `at` names the place. `trying -> sending -> answered -> streaming ->
guarding` is an attempt that works; `settling` computes the cause of one that
does not, because the budget's timer may run just before. The caller acts
through `Cancel` (its context, or `Close()`), the clock through `Expire`
(`WithTimeout`), `BudgetSpent` (the deadline of the leg passes), `TimerFires`
(`Stop()` will say so from now on) and `TimerRuns` (the goroutine of
`time.AfterFunc` cancels the attempt). `cause` is the first reason the attempt's
context was cancelled for, as in `context.Cause`. `open` holds the response
bodies an attempt has received and not closed: `do()` may receive two, as a 400
to a request with `stream_options` is read, closed and answered by a `second`
request, and the deferred close must find the right one.

Text is fragments tagged with the attempt that produced them, which is what the
splice and bleed properties tell apart; the think filter is here only what it
holds back, and a partial tag that turns out to be one is gone. Of reasoning
items the turn keeps the attempt they came from. `Fail` is the tail of `runLeg` with everything it does: record,
hook order, event, disposition, next place.

`IsFallback` maps the chain to `Fallback`: `remaining` to the untried models,
the recorded attempts against the current leg to `tries` and `verdict`, a spent
leg budget to `rushed` (it cuts retries short), a done context to
`interrupted`, the latched message to `outcome`. Everything else, the whole of
an attempt up to its recording, is a stutter.

### Call

`Call` extends `Chain` with the other end of the stream. The stream is
`Channel`, which `EventStream` implements, with what the chain has logged as
what was sent, and the latched message as its seal: the two detailed modules
meet at the abstract one, which keeps the composition small enough to check.
The caller ranges (`Forward`), may stop, may `Close()` in its two steps, and
returns with the result; `Ask()` ranges to the end and never closes.

### ToolCalls, ThinkFilter, Balancer, Embed, Settings

`ToolCalls` has the provider as an actor: it has calls to make and cuts each
into fragments in a style (indexed and interleaved, bare, or repeating its id).
`told` is what it has said of each call; the turn must say the same. Unknown
keys of a call are a Go map written in place, so calls hold addresses into a
`heap`, and the consumer keeps one snapshot (`kept`), any one, to see whether it
changes.

`ThinkFilter` feeds every text in every fragmentation. The tags are constants,
so that short ones with the structure of `<think>` and `</think>` (first letter
found nowhere else, neither a prefix of the other) can be checked exhaustively.
The reference (`Thinking`, `InTag`) looks at the whole text and has no state.

`Balancer` takes the critical section of `choosePair()` in three steps (`Lock`,
`Scan`, `Choose`), so the mutex is what keeps callers apart, not the grain of
the model.

`Embed` is a second implementation of the policy: no budget, no stream, errors
returned. `withRetry`'s select, its `lastErr` and what `Embed()` reads out of it
are kept apart. It implements `Fallback` too, with one difference in the
mapping, which is finding 4: a done context only cuts the retries of a model
short (`rushed`), it does not end the call (`interrupted <- FALSE`).

`Settings` puts Go maps into a `heap` that structs refer to. `Build` makes an
option (and clones the caller's map), `New` a client, `Call` a call from a
client and a list of the options, in any order and with repetitions; the caller
may write to its map and to the environment at any time. `prepareLLMCall` is what a leg makes of all that.
`Meant` says the same without heap or maps: from the list of options, the last
one of a kind wins. All options that assign one value work alike, so `WithSeed`
stands for them; a map holds a name the library sets too, one it does not, and a
reserved one.

## 3. Runs

| Run | Shows | Bounds and why they are enough |
|---|---|---|
| `EventStream` | types, order, one terminal event at the end, no lost wakeup, settled result, refinement of `Channel`; the producer never stalls, ranging ends, `Close()` frees the pump | two updates, two terminal messages, three events. The pump holds one event, so three give it one delivered, one held, one queued; the theorems cover the rest |
| `Chain_safety` | no splice, no bleed, truncated calls, budget only before the response, bodies closed, refinement of `Fallback` | two legs of two attempts, two chunks over the call, every kind of failure, both selectors, `Ask` and `Stream`, with and without budget, cap and minimum. A splice needs two attempts, a policy error two legs and one retry; the theorems cover the rest |
| `Call` | what was forwarded is the answer; cancel, deadline, budget and `Close()` end what they should, read or unread | one or two legs of two attempts, two chunks, one of them held back by the filter, `Ask`, `Stream` and a refused request |
| `Balancer` | fresh scan, even rotation, pairs, service | three callers, four calls, one list of each accepted shape and two that are refused |
| `ToolCalls` | reassembly, frozen snapshots, events tell the same story | three calls with indexes 2, 0, 4, four fragments: enough to interleave, to return to a call after a snapshot and to skip indexes |
| `ThinkFilter` | fragmentation is irrelevant, nothing lost | all texts of at most seven letters over four: two tags and text on all sides of them; the theorems cover the rest |
| `Embed` | errors per leg, refinement of `Fallback`, alignment, termination | three legs of three attempts, three inputs in all orders |
| `Settings` | later and stronger settings win, `Validate()` agrees with preparing, shared maps are never written | two options of fifteen recipes, two calls with up to two options each, one write to the caller's map or the environment: two calls of one client are enough to disturb each other, two options to override, one write to leak. Four providers: bare, local, hosted, and one only configuration knows |
| `Chain_budget_race`, `Chain_net_timeout`, `ToolCalls_repeated_id`, `Embed_cancel` | the findings below | |

`CHECK_DEADLOCK FALSE` stands where the system stops by itself: a call that has
answered (`Chain`, `Call`, `Embed`), a stream that was read to its end
(`ToolCalls`, `ThinkFilter`), callers that have made their last call
(`Balancer`, where `EveryCallServed` would notice a mutex that is never
released; `Settings`). `EventStream`
never stops, as `Result()` can always be called.

### Fairness

- *Event stream.* The chain goroutine is scheduled and does finish its stream
  (`runChain` defers `finishFailed`): weak fairness of `Finish` and `FinishStep`.
  `ProducerNeverStalls` uses nothing else. The other two also assume the pump, a
  reader that has not stopped, and a `Close()` under way to be scheduled
  (`ConsumerFairness`). No fairness makes a reader read or a caller close.
- *Call.* The chain goroutine is scheduled; `client.Do` and a body read return once
  the attempt's context is done (`ReportsDone`, the contract of `net/http`);
  time passes. **The provider owes nothing**: it may never answer and may send
  its chunks without end, up to the bound. The pump is scheduled, a `Close()`
  under way goes on, and so does `Ask()`. Nothing makes a caller of `Stream`
  read, close or return.
- *Balancer.* `sync.Mutex` hands over to a goroutine that has waited (its
  starvation mode): strong fairness of `Lock`.
- *Embed.* Like the chain, in the goroutine of its caller.

## 4. Proofs

`EventStreamProofs` proves, for every set of updates and messages and every
`MaxPush`, from `MessageAssumption` and `MaxPushAssumption` alone:
`TypeCorrect`, `EventsInOrder`, `TerminalIsLast`, `WakeupNeverLost`,
`ClosesBehindTerminal`, `ResultIsSettled`, `LatchIsForGood` and `Refinement`
(`Spec => IsChannel`).

The properties are not inductive. `IInv` adds: which of `finishOnce`, `done`,
`inputClosed` and the tail of `pushed` belong to each place of the producer
(without it a step of `finish()` could run twice); what an exited pump leaves
behind (an empty queue behind a closed input, or a closed stream); and that a
result is returned only after `done`. One lemma per conjunct shows that every
step preserves it (`TypeStep`, `PhaseStep`, `WakeupStep`, `DrainStep`,
`ReturnedStep`, `OrderStep`, `TerminalStep`); `IInvStep` puts them together.
Order needs two lemmas about sequences, `AppendAt` and `TailAt`. The refinement
maps `PumpStep`s and `Wake` to stuttering, `enqueue` to `Send`, `CloseInput` to
`Seal`, `Deliver` to `Receive` (`DeliverReceives` uses the order invariant) and
the pump's exits to `End` (`ExitEnds` uses the drain invariant).

`CallProofs` proves of the chain, for any options, chunks, `MaxRetries` and `MaxChunk`, from
the assumptions named in `Chain`: `TypeCorrect`, `EveryBodyClosed`,
`BudgetEndsWaitOnly`, `NothingSpliced`, `TurnIsLastAttempts`,
`TruncatedNeverRuns` and `FollowsPolicy` (`Spec => IsFallback`). `IInv` adds to
the types and the properties
- `Bodies`: only the body of the current response may be open, and none at the
  places between attempts, which is what the deferred close relies on;
- `Budget`: the timer lives from request to response, and nothing of a response
  is seen while it does;
- `Committed`: while a leg of a `Stream` can still be tried its log has no answer
  events at all; while an attempt reads, those in the log are its own, and there
  are none unless the turn says `emitted`. Without it `NoSplice` does not survive
  the next delta;
- `Turns`: the turn holds pieces of the attempt under way, or of the last one
  once that is recorded;
- `Legs`: how the recorded attempts, `leg`, `retry` and `remaining` hang
  together, which is what the refinement maps.

`FailureSteps` brings the actions in which an attempt fails to one form
(`FailsWith`), so each later lemma treats them once. `LineEffect` does the same
for a line of the stream. One lemma per conjunct (`TypeStep`, `BodiesStep`,
`BudgetStep`, `CommittedStep`, `TurnsStep`, `CallsStep`, `LegsStep`) goes through
the actions; `InvariantStep` puts them together; `PolicyStep` maps each action to
`Pick`, `Attempt`, `Fail` or a stutter.

`EmbedProofs` proves, for any number of models, inputs and retries:
`TypeCorrect`, `ErrorsNameLegs`, `FollowsPolicy` and `VectorsInOrder`. `IInv`
adds `Collected` (every model behind the current one has left its error, only
the last can be an abort) and `Retries` (a model is tried again only after a
failure worth it, and left after such a failure only with its tries used up or
the context done). `VectorsInOrder` rests on `AscendingIsIdentity`: numbers 1 to
n in ascending order stand at their own places, by the least counterexample.

`BalancerProofs` proves, for any callers, keys, URLs and lists and from
`RequestAssumption` alone: `TypeCorrect`, `ScanIsFresh`, `RotationIsEven` and
`PairsAreTheCallers`. `IInv` adds to the properties `Holding` (being between
`Lock` and `Unlock` is being in `mu`) and `Asked` (a caller inside `choosePair()`
has lists that make pairs). With them two callers that may read or write the
counts are the same caller (`Alone`), so a scan is still valid when its choice is
counted (`FreshStep`), and counting one of the least used keeps every list even
(`EvenStep`). `PairsMade` says that `buildPairs()` makes pairs, at least one;
`SomeLeastUsed` that a nonempty set of pairs has a least used one, by the
well-foundedness of `<` on the naturals; `PairOrigin` where each pair comes from,
with which `PairedStep` follows it through the steps of a call.
`RotationIsEven` has the premise `Separate`: if a client uses overlapping lists,
the shared counts make no promise about each list, and the code makes none
either.

`CallProofs` proves of the composition, from the assumptions of `Chain` alone: `CallRunsChain`
(`CallSpec => Spec`: whatever the caller does, the chain of a call takes steps of
`Chain`, so all theorems about the chain hold of a call), `CallInvariance` and
`ForwardingIsFaithful`. `CallInv` is the chain's `IInv` with `Told` and
`Relayed`. `Told` says of every place of the chain goroutine what the log tells:
the start event is first and only there (`Opened`); the terminal event is last
and there exactly when a message is latched (`Latched`); the text deltas of the
*owner* of the turn, the attempt under way or else the last, joined, are the
turn's text, later attempts have sent none, and in `Stream` nobody else has
(`Spelled`). Without the owner it would not survive a retry, which empties the
turn but not the log. `Relayed` says that the caller has a prefix of the log.
`DeltasOf` folds over a log of any length; `DeltasJoin` gives its step, and
`DeltasAppend` what one event more does to it.

`ToolCallsProofs` proves, for any number of calls and fragments, any indexes, and
a consumer that keeps a snapshot at any moment: `SnapshotsStayFrozen`,
`EventsTellCalls` and `CallsComeTogether`. `IInv` has three parts. `MapsOwned`: no
map is referred to from two slots or from a slot and a kept snapshot, which is why
writing the keys of a fragment in place harms nobody. `EventsMatch`: each slot was
announced once, in the order of the start events, and its deltas so far spell its
arguments. `TypeOK` carries the types. For `CallsComeTogether`, `SlotsOfCalls` is
added: each slot belongs to one call, holds what the provider has told of it, and
`lastSlot` is the slot of the call whose fragment came last. A call's place in the
turn is the number of slots below its own, so the lemmas about `Below` show that
sorting by index takes the calls in order without gaps (`EveryPlaceTaken`, by
induction over the size of a set). The theorem has the premise
`"repeating" \notin Style`: for a provider that repeats an id without an index
the property is false, which is finding 3. The other two theorems hold of that
style too.

`SettingsProofs` proves, for any recipes, providers, table, environments and
contents of the caller's map, from the three assumptions of `Settings`:
`CopyOnWrite`, `LegsSendWhatWasMeant` and `ValidationIsExact`. They rest on
`OptionsAreWhatWasAsked`, the invariant `Inv`, whose core is `Rep(h, o, options)`:
in the heap `h`, the struct `o` stands for the list `options`. Each value, and
each entry of each map, is what the last option of its kind and name says; the
maps have entries for these names and no others; and no map it refers to is the
caller's own. `Rep` survives every *later* heap, one that has more maps and
differs in the caller's only (`RepLater`), and applying one option turns a
representation of a list into one of the list and that option (`ApplyRep`, with
a lemma for each kind of option). `applyOptionsRep` is the induction over the
list. Every step, of whatever call or client, leads to a later heap (`StepInv`),
which is `CopyOnWrite` and keeps all other clients and calls what they were.
`LegRead` then works out each part of a request from the list and finds `Meant`;
`ValidateRead` does the same for `Validate()`.

`ThinkFilterProofs` proves, for any alphabet, any two tags and any length of
stream, from `TagAssumption` and `MaxTextAssumption` alone: `TypeCorrect`,
`SplitMakesNoDifference` (`SplitIrrelevant`) and `NoLetterLost` (`NothingLost`).
`SplitIrrelevant` is not inductive: it says what came out so far, not that the
next fragment cannot change the meaning of it. `IInv` adds
- `ReadAsMeant(n)`, of a filter that is on: the first `n` letters have come out
  as the text *fed so far* means them, the buffer is the rest, `insideThink` is
  what the text means for the next letter;
- `Settled(fed, n)`: no tag that would change that, whole or as much of it as has
  arrived, lies across the end of those `n` letters. So a letter that came out
  keeps its meaning whatever follows (`SettledLater`, `ThinkingEarlier`,
  `InTagEarlier`);
- `Accounted`, on or off: what came out and what is held are never more letters
  than were fed, and fewer only by letters of tags. It outlives `PassThrough`,
  which ends the agreement with the reference.

That tags cannot overlap follows from their first letters (`NoOverlap`). `Feed`
is a recursive function whose text gets shorter (`FeedUnfolds`); `LastTurn` and
`MiddleTurn` say that a turn of its loop reads on as meant, without and with a
tag found, and `FeedReads` is the induction over the text left. One lemma per
action (`FeedStep`, `PassStep`, `FlushStep`) preserves `IInv`.

The library's induction theorems take an operator as a parameter, which the
provers cannot instantiate. `Foundations` states them of sets: a set of numbers
that holds 0 and each member's successor holds every number; a function on
`0..n` is defined by its first value and a step (`Recursion`), one on a set by
its values on what is smaller (`RecursionBySize`). The folds and recursive
functions of `Call`, `Embed`, `ToolCalls`, `Settings` and `ThinkFilter` are
reasoned about with these.

Only model-checked: all liveness (temporal proofs with fairness are out of the
prover's reach), that is `ProducerNeverStalls`, `RangeTerminates`,
`CloseReleasesPump`, `CallEnds`, `CloseFrees`, `BudgetUnpins`,
`EveryCallServed` and `DoneReturns`; and the documented claims of section 5 that
the code does not keep, which a counterexample refutes.

## 5. Findings

1. `Chain_budget_race` (`chain.go:332`): a leg budget that expires as the
   response arrives can abort the call instead of advancing.
2. `Chain_net_timeout` (`errors.go:168`): a timeout of the HTTP client or dialer
   counts as the call's own deadline and aborts.
3. `ToolCalls_repeated_id` (`toolcall.go:186`): any id, not only a fresh one,
   opens a call when the provider sends no index.
4. `Embed_cancel` (`retry.go:44`): an embedding cancelled in its backoff goes on
   to the next model.

Met on the way, and modelled as the code does it:

- native reasoning in mid-tag displaces held-back letters to the end of the
  answer (`utils.go:125`);
- embedding indexes that are missing are sorted unstably (`embed.go:238`);
- the last retry of a leg is recorded with disposition `retry` though the chain
  advances (`chain.go:249`);
- the terminal message names no leg when the last one failed to be prepared
  (`TurnOfLastAttempt` allows identity 0 for that);
- a client built with a model set keeps it even against a model passed to a
  single call: `createSelector` looks at the selector first, though `client.go:24`
  has a per-call option always win. In `Settings` the two are options of
  different kinds, so `LaterWins` makes no claim about them;
- the tries of one leg share one budget but its backoff waits are not cut by it
  (`chain.go:265`); `BudgetSpent` in a backoff takes effect when the wait is over;
- a pair is counted as used before the request is known to be well-formed;
- the environment is read when a leg is prepared, not when the call is made.

And outside the models: a name given to `WithProvider` is not trimmed, one given
to `WithProviderExtraBody` is; header names are merged case-sensitively; clones
of extra bodies are shallow; `ensureRole` completes a message through the
caller's pointer (`types.go:213`); of several types of a tool call the last wins
where a comment says the first (`toolcall.go:216`).

## 6. Not modelled

Token usage and the CLI: arithmetic and printing. Within modelled parts: JSON,
URL rules and how a model string is split, token counts, wording, logging,
timestamps, reasoning tokens, selectors a caller supplies.
`WithRemoveBackticks` rewrites a finished answer after the chain has accepted it,
so with that option deltas and final text differ by design, and
`ForwardedIsAnswer` speaks of calls without it. The value of `retryDelay`
overflows after 33 retries, beyond the checker's 32-bit integers; delays are
timers that elapse. The messages of a request, and with them the race in
`ensureRole`, have no model, as all writers write the same value.

## 7. Plan

1. `Settings` with `ensureRole` and the messages of a request as shared memory.
2. `Usage`: token normalisation against its documented totals.
