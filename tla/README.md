# Specification of nautilus_zerodte

`nautilus_zerodte` trades options on the day they expire. It is a thin policy
layer on the Nautilus Trader engine: strategies turn market data into *trade
intents*, a pipeline of gates and an optional selector decide which of them
become orders, and the engine carries the orders to a venue. This directory
specifies the part that decides (the state machine of a strategy with its orders,
the selector with its batches, the gates and the session clock they depend on),
the journal that is the only trace of it, and the way from a command and a profile
to the parts that run.

    tlc -config ZeroDteStrategy.cfg MCZeroDteStrategy     one model-checking run
    tlapm ZeroDteStrategyProofs.tla                       the proofs

Source paths below are relative to `src/nautilus_zerodte/`.

## 1. Inventory

### The parts

| Part | Code | State it keeps | Operations |
| --- | --- | --- | --- |
| Strategy | `strategies/base.py`, `reference.py` | FSM state, last session phase, last regime tag, times of the last quote and chain, pending and active intent, entry price, two latches (`_exit_submitted`, `_hedge_submitted`) | handlers of chains, quotes, greeks, session and regime messages, selector answers, order events; `flatten_positions`, `submit_entry`, `submit_exit` |
| SelectorActor | `actors/selector.py` | a buffer of intents, one alert of the clock | `collect`, `finalize`, `on_stop` |
| Diversification policy | `models/diversification.py` | none | `select_intents` |
| Approval | `approval/` | none (journal only) | two handlers, both of which approve |
| SessionActor | `actors/session.py` | none that matters: the phase is computed from the clock | `on_quote_tick` publishes phase, `allows_entry`, `flatten_signal` |
| RegimeActor | `actors/regime.py` | opening price, window of 20 prices, last tag | `on_quote_tick` publishes a tag that changed |
| Gates | `gates/`, `models/risk.py` | none | `evaluate_pre_greek`, `RiskPolicy.check` |
| Gated skeleton | `strategies/gated_skeleton.py` | three "received" flags, `_evaluated` | one evaluation, no orders |
| Journal | `journal/service.py` | entries in memory, lines in a file | `record`, `load` (the command `flatten` records, the reports load) |
| Learning | `learning/module.py` | entry mid and greeks per intent | `register_entry`, `on_order_filled` |
| Structure selectors, costs | `strategies/selectors/`, `costs/` | none | strike choice, edge after costs |
| Ingestion planner | `actors/ingestion.py` | none | one plan, published when it starts |
| Configuration | `config/` | none | merge of YAML layers and environment, validation, resolution per strategy |
| Node assembly | `node/` | none | builds clients, data, fee model, actors and strategies, or raises |
| Command line | `cli/main.py` | none | `backtest`, `paper`, `flatten`, reports |
| Offline research | `research/`, scripts | none | input and output |

The trading engine (bus, clock, cache, order factory, risk engine, venues) is
not in the repository; it is modelled as the code uses it.

### How they interact

    underlying quotes ──> SessionActor ──SessionPhaseSnapshot──┐
                     ├──> RegimeActor  ──RegimeTagSnapshot─────┤
                     └─────────────────────────────────────────┴─> Strategy ──orders──> venue
    option chain, greeks, spread and perpetual quotes ──────────────^  │ ^   <─order events─┘
                                              TradeIntentSnapshot ─────┘ │
                                                     v                   │
                                              SelectorActor ──approved / rejected

    command, profile, environment ─> load_config ─> node builder ─> actors, then strategies
    every handler ─record─> journal file <─record─ the command `flatten`
                                └─load─> reports

All handlers run on one thread, one after the other, and the message bus calls
its subscribers synchronously: inside `publish`, every subscriber has run before
`publish` returns. A handler is therefore one atomic step, *including* the
handlers of the messages it publishes: `SelectorActor.finalize` runs the order
submission of every strategy it approves. What is concurrent is the rest of the
world: the venue, the market, the clock, and the order in which they speak.

### What is hard

* **Orders live longer than trades.** Order events carry an order, and the state
  machine asks only for its own state: `on_order_filled` takes any fill while
  PENDING_ENTRY for the entry and any fill while EXITING for the end of the
  trade. Orders of an earlier trade may still be at the venue.
* **A position is left by paths that do not know of each other**: the bracket at the
  venue and the strategy's own price checks, on the same levels.
* **The blackout should end a position and does not**: `flatten_positions` raises at
  its first call (section 7), in the handler of a message another part published.
* **Some paths return without a transition** (no instrument, no price, a latch
  that is set).
* **The selector moves its alert** with each intent, answers a batch by running
  other parts' handlers, and is stopped before the strategies.
* **Nothing but a quote tells time.** The session phase is as old as the last
  underlying quote, and the freshness gate measures the age of *any* quote.
* **Writes fail, processes die.** `record` raises from the middle of a handler
  when the disk is full, after the state machine has moved; a piece of a line may be
  all that reached the file, and the next entry is appended behind it without a look.
  The orders at the venue and the file survive the process, its state does not.
* **Layers that pick layers.** The profile names the overlays and wins over them,
  so it is merged twice; the dry run has three sources; a missing file is a layer
  that sets nothing; a strategy's own block replaces the shared one whole.
* **The same question asked twice.** Whether there is a selector, and which block
  is the primary strategy's, is computed in several places that must agree.
* **Boundaries**: caps that round to zero, truncated minutes, `>` against `>=`.

`PROJECT.json` lists the hazards at their lines, each with the properties that
would catch it.

### What makes each part correct

* Strategy: works on one intent at a time and never resumes one; always knows
  the intent and the price of the trade it is in; never sends an order twice;
  enters only through the gates; is never short by more than one exit.
* Selector: every intent gets exactly one answer, in bounded time, also when the
  node stops; only what was approved is traded, by its owner, within the policy.
* Diversification: the greedy choice by rank, independent of arrival order.
* Gates and session: an entry is never later into the blackout than the age of
  a quote that still counts as fresh.
* Journal: what a returned `record` wrote is never changed, and is lost to no more
  than the failures there were; no order without an entry that announces it; a
  handler that ran to its end leaves the strategy in a state it can leave.
* Configuration and node: each value comes from the layer with the say over it; a dry
  run asked for is a dry run; who queues intents is listened to; backtests charge the
  fees the gates assume; what is not fit to run does not start.
* Structure selection: the nearest strikes, and an edge the costs cannot inflate.

## 2. Modules

| Module | What it is |
| --- | --- |
| `TradeLifecycle` | abstract: the life of an intent, one at a time, forward only |
| `ZeroDteStrategy` | one strategy with all its orders at the venue |
| `ZeroDteStrategyProofs` | the theorems about it, and what it inherits from `TradeLifecycle` |
| `StateDiagram` | what `docs/design/state-diagram.puml` says of it and it does not do |
| `MCZeroDteStrategy` | profiles and tags for TLC |
| `Diversification` | `select_intents` as operators |
| `SelectIntents`, `SelectIntentsProofs` | its declarative reference, and the theorems for every batch |
| `SelectorSystem`, `MCSelectorSystem` | several strategies and the SelectorActor, with node stop |
| `Gates` | the gate pipeline and the greek limits as operators |
| `SessionGate`, `SessionGateProofs` | clock, SessionActor and the evaluation of a strategy with stale inputs; the theorems |
| `Structures`, `SelectStructure`, `SelectStructureProofs` | both structure selectors and the costs as operators, and the theorems for every chain |
| `MCSelections` | every small batch and every small chain for TLC |
| `RegimeTags` | the tag of a price as an operator |
| `GatedSkeleton`, `MCGatedSkeleton`, `GatedSkeletonProofs` | RegimeActor, SessionActor and the strategy that evaluates once; the theorems |
| `SelectorSystemProofs` | theorems about the selector and its strategies |
| `AuditLog` | abstract: an append-only log |
| `Journal` | the journal file, appending to it and loading it, as operators |
| `AuditTrail`, `MCAuditTrail`, `AuditTrailProofs` | a process, its strategy and the file, with failures, in four profiles; the theorems about them |
| `Configuration` | the layers of `load_config` and what is read off the result, as operators |
| `Node`, `MCNode`, `NodeProofs` | a command from its profile to the subscriptions of an open position; the files of `configs/` and 352 profiles; the theorems |

`ZeroDteStrategy` and `SelectorSystem` are two views of a strategy. The first has
all of its orders and treats the selector as an environment that answers an
awaited intent in either way; the second has several strategies and the real
selector, and reduces what orders do to the moves they cause (`OrderMoves`). Both
implement `TradeLifecycle` under their own refinement mapping, so the abstract
specification is what they agree on. `SelectorSystem` also discharges the fairness
that `ZeroDteStrategy` assumes of the selector. `AuditTrail` is a third view of the
strategy: its handlers are not atomic there, because an exception may leave them
anywhere.

### ZeroDteStrategy

Each handler of `base.py` / `reference.py` is an action of the same name, in the
order of the code, with the helpers it calls inside: `BeginEvaluation` is
`_begin_evaluation` with `_run_gate_pipeline` and, at its end, either the queueing
for the selector or `_submit_approved_intent`.

* EVALUATING is entered and left within one handler, so it is never a value of
  `state` between steps; an evaluation that some gate stops changes nothing that
  is modelled and is a stuttering step.
* `context` holds what the actors said. Only the session and regime gates read
  state of the model; the edge, liquidity, freshness and greek gates read the
  market and may go either way (they are in `Gates` and `SessionGate`).
* `built` numbers the intents. `pendingIntent` and `activeIntent` are ids;
  `_active_intent` and `_active_intent_id` are assigned together everywhere.
* `priced` is `_entry_price is not None`: the checks ask for nothing else.
* `orders` is the venue's book: for every intent one order per role (`entry`,
  `tp`, `sl`, `exit`, `hedge`) with a status and the lots still open. `held` is a
  bracket leg that waits for its entry. `position` is the net of all fills
  except hedges.
* An instrument lookup in the cache may fail at any time (`InstrumentFound`),
  which is how `ORDER_ERROR` and the silent returns of `submit_exit` happen.
* `FlattenPositions` changes nothing: `cancel_all_orders()` is called without the
  instrument the engine's method requires and raises before the transition to EXITING.
  What is left of the path is its guard in `ManagePosition`: while the signal stands, the
  take-profit and stop-loss checks are not reached either.
* `Attributed` is the intent a fill is booked to in the journal and by the learning
  module: the active one, whichever order was filled.
* The venue: `OnOrderFilled` (any part of an order, bracket legs never beyond
  the position), `OnOrderRefused` (rejected or denied, before it traded),
  `VenueCancels` (the rest of an immediate-or-cancel order, or an order whose
  instrument expires; no handler of the strategy runs).

### SelectorSystem

`Collect` is the handler of a `TradeIntentSnapshot`: append, and set the one
alert again (`override=True`). `Finalize` is one step because everything in it is
synchronous: clear the buffer, publish the rejections, then the approvals, and
with each the handler of the strategy that waits for it. `Takes` is the guard of
these handlers (own strategy id, PENDING_APPROVAL, own pending id). `Tick` is the
clock; an alert that is due fires before time goes on. `StopActors` and
`StopStrategies` are the two halves of a node stop; `on_stop` of the actor flushes
the buffer. The gates are free to pass at any time, so no session phase is kept here. `owner`, `verdict` and `waited` are history variables.

### Diversification, SelectIntents

`Taken` is the loop of `select_intents`: it walks the ranked intents and admits one
if it fits the places, the cap of its instrument and the share of its strategy; `Greedy`
is what the whole walk took.
`SelectIntents` states the result without a walk, and the share of a strategy without a
rounding (`PlaceLeft`): the first place is its own, each further one must fit.

### Gates, SessionGate

A gate is the set of rules it finds breached; `PreGreek` takes the first gate with
a breach, as the early return of `evaluate_pre_greek` does. `SessionGate` runs it
on contexts that age: time moves in units of thirty seconds, quotes and chains
arrive with any delay or never, and the outcome of the evaluation of a step is
kept for the properties.

### RegimeTags, GatedSkeleton

`ComputeRegimeTag` has the four cases of the code with their divisions turned into
products. In `GatedSkeleton` one quote reaches three subscribers, one step each and in
any order; the message an actor publishes runs the strategy's handler inside that
step, as the bus does. `heard` and `firstAllowed` are history variables from which the
properties compute what should be known and reported. The strike rule has an effect
that is easy to miss: half a strike is within the default proximity of 0.001 from a
price of 500 on, where every quote that is no trend and no chop is PIN_RISK, a tag
that is blocked by default (`HighPricesArePinned`).

### Structures, SelectStructure

`select_from_chain` of both venues as operators: `Legs`, `Debit`, `Liquidity` and
`EdgeAfterCost`, and `Selected`, which is empty where the code returns None. Premiums
are whole ticks and edges whole basis points rounded down, so a chain is a record of
strikes and quotes. The two selectors share all but the currency of the premium, the
commission and the last check; `venue` tells them apart.

### Journal, AuditLog, AuditTrail

The file is the sequence of pieces that reached it: a `line`, a `text` without its
newline, a `part` of a text. A piece behind one that lacks its newline stands on the
same line. `Finished` are the lines that are complete and hold one entry, `Loads` is
whether `Journal.load` gets through, `Loaded` what it returns.

In `AuditTrail` a handler is the sequence of its effects in the order of the code
(`EnterEffects`, `ExitEffects`, ...): it moves the state machine and records the
transition (`To`), records an event (`Rec`), publishes the intent (`Publish`), sends an
order (`Send`), builds the node (`Build`). `RecordSucceeds`, `RecordFails`,
`PublishIntent`, `SendOrder` and `BuildNode` run one effect; `Evaluate`, `OnAnswer`,
`OnOptionGreeks`, `CheckExitTriggers`, `FlattenPositions`, `OnOrderFilled`,
`OnOrderRefused` and `Stop` begin a handler; `Start` and `Die` are the process.
`_transition` assigns the state before it records, so a failed record leaves the state
moved and the rest undone.

An evaluation that passes its gates goes the way of its profile (`Passed`): it ends in
DRY_RUN_INTENT and FLAT (`DryEffects`), it is queued for the selector (`QueueEffects`), or
it is submitted (`EnterEffects`, and `UnknownEffects` where the instrument is not found). A
queued intent is answered by `OnAnswer`, which is `finalize` with the handler of the
strategy: `ApproveEffects`, `ApproveUnknownEffects`, `TurnDownEffects`. An exit whose
instrument is not found stays in EXITING with nothing sent for a spread
(`ExitLostEffects`), and records ORDER_ERROR and goes FLAT in plumbing
(`ExitUnknownEffects`). `FlattenPositions` raises, as in `ZeroDteStrategy`; here the
exception may stop the node or end the process.

What the exception does after that is up to the engine: it goes on, stops the node, or
takes the process with it. `CliFlatten` is the command `flatten`, which only appends
an entry from another process. `acknowledged` (the entries whose `record` returned),
`faults`, `aborted`, `unfound`, `lives`, `requests` and `sent` are history variables.

### Configuration, Node

A document is a function from leaves (`"session.market_close_utc"`) to values that need
not set every leaf; a list is a leaf. `Load` is `load_config` up to validation: profile,
fee overlay, caps, streaming, session overlay, profile again, environment. `Winning`
says the same from the top, one leaf at a time, and decides every overlay by what the
profile states; `LayerPrecedence` compares the two.

`Node` is one run of a command: `LoadConfig`, `RecordStart` (the flags and the entry
NODE_START), `BuildBacktestNode` or `BuildTradingNode`, `DryRunStop` or `Run`, then
`StartActor` and `StartStrategy` for each part in the order of the engine, `OnEntryFilled`,
by which a strategy in a position subscribes to the quotes of its spread and the greeks of
its legs, and `Stop`.
A step that raises ends in `failed`. `node` is what was built, `heard` the topics
somebody listens to, `feeds` the market data of each strategy, `plan` what the planner
published.

## 3. Runs

| Run | Question | Bounds |
| --- | --- | --- |
| `strategy` | state, orders and life cycle of one strategy | 2 intents, 4 profiles, 2 regime tags, orders of 2 lots |
| `selections` | is the loop of `select_intents` the greedy choice it is meant to be; which legs are picked and what edge they get | all batches of at most 3 intents, 2 strategies, 2 instruments, 2 edges, 5 policies; all chains of at most 3 strikes, 6 quotes, 3 moneys, 2 venues, 8 configurations |
| `selector` | answers, batches, stop; is every intent answered | 3 strategies, 3 intents, 2 instruments, 2 places, an interval of 2 ticks |
| `session_gate` | how late into the blackout can an entry be | more than one day of 24 half-minute units, ages up to 3 |
| `skeleton` | which tag is known, what the one evaluation reports | 4 quotes of 6 prices, a window of 3, any order of delivery |
| `audit` | what the journal still says after failures | 4 profiles, 1 intent, 1 failed write, 2 lives, 1 flatten request |
| `node` | what every part is told, in which order they listen, what refuses to run | 352 profiles, 4 environments, 4 commands, 2 catalogs |
| `flatten`, `cancelled_entry`, `flat_position`, `unarmed_triggers`, `stale_underlying` | statements of the docs the code does not meet (section 7) | the smallest that show them |

Why the bounds are enough. A strategy forgets a trade but for its two latches and
the orders it left behind, so two consecutive trades reach everything that
depends on an earlier trade; the theorems of section 6 remove the bound for the
safety properties. Two lots let every order fill in part. Three
strategies for two places make one of them lose in a batch, and three ids let the
selector see intents of the same strategy in different batches. The four profiles
of `MCProfiles` are one per code path: direct with hedges, behind the selector,
plumbing (market orders on the underlying), dry run. The day of `SessionGate` is
scaled down: what matters is that its close, its blackout and midnight lie farther
apart than the ages the gate allows. In `AuditTrail` the four profiles are plumbing, a
direct one with a hedge, one behind the selector and a dry run; one failure may hit any record
of any handler, and the second life appends behind what the first one left; more
intents only repeat the handlers, and the proofs are for any number of everything. The profiles of `MCNode` are the full product of what
the loader reads and, apart from it, of what the factory reads: the two sets share
only the adapter.

Deadlock is not checked: all specifications stop when their bound on
intents or time is used up, the node has stopped or the command has ended, as a
program without input does.

Every property of a passing run has a mutant in `PROJECT.json`: a definition of
the model with a plausible bug, under which the run reports the property violated.

## 4. Properties worth knowing

* `PositionManageable`, `AwaitingExactlyPending`, `OrdersFollowEntry`,
  `SentInTurn`: what the handlers rely on about each other,
  whatever order the venue's events come in. They survive the loose attribution
  of fills.
* `NoOrderSentTwice`: no step, at any later time, sends an order again.
* `FillsBookedForward`: a fill may be booked to a later trade than its own (a bracket
  leg that survived does that, with the later trade's entry mid and edge), never to
  an earlier one.
* `DirectEntryGated`: without a selector an entry leaves only while the last
  messages allow it. *With* a selector this is false: `_on_intent_approved` does
  not look at the gates again, so an entry may leave in a blackout that began
  while the batch was open. `BoundedWait` says how long that can be.
* `ShortByOneExitAtMost`: the legs of the bracket and the strategy's own exit may both
  trade, and an exit asks for the whole quantity even of an entry that filled in part. The
  shorts do not add up over the trades for one reason only: the latch that is never reset
  lets one exit out in a run. Whoever repairs that latch (run `unarmed_triggers`) must end
  the bracket as well.
* `GreedyByRank`, `NoRoomWasted`: what the loop returns depends on rank alone, and it
  leaves out nothing that still had a place under all three caps. The share of a strategy
  is stated without a division, so the rounding of the code is part of what is checked.
* `BoundedWait`: although each intent moves the alert, none waits longer than
  one interval per strategy, because a waiting strategy publishes nothing.
* `BufferIsWhatIsAwaited`: the buffer and the waiting strategies are two views of
  the same set.
* `VerdictIsFinal`, `TradedWasApproved`, `NoneWaitingAfterStop`: one answer for each
  intent, taken by its owner only, also by the flush of a stopping actor.
* `BlackoutLagBounded`: the age gate is what keeps the phase of a strategy from
  being old, so a missed blackout is bounded by the age it allows, as long as
  the underlying is the only feed of the strategy. The blackout is stated in units of
  time (`OutsideBlackout`), not in the minutes the code truncates to.
* `ImplementsLifecycle`: refinement of `TradeLifecycle`.
* `KnownTagIsCurrent`, `FirstQuoteIsJudged`: publishing only changes loses none, and
  the skeleton's report does not depend on the order of its messages.
* `WorseAskNoBetter`: the commission weighs less on a larger debit, and yet a higher
  ask never raises the edge of a structure that is worth at least its commission. (On IB a
  structure worth less dilutes its fixed loss over a larger debit, which a profile with
  a negative `min_edge_after_cost_bps` lets through. That the edge is not negative is not
  enough: a strongly crossed quote makes it positive. An attempt to prove the property
  under that condition showed this.)
* `LossBounded`: a torn line swallows at most the one entry that is appended behind it,
  so a failed write costs one acknowledged entry at most. `load`, however, raises on the
  whole file from then on.
* `OrdersAnnounced`: the journal is written ahead of the orders, so whatever fails, an
  order at the venue has its ORDER_SUBMIT, its transition to EXITING or its DELTA_HEDGE
  in the file. (The bracket legs are not announced one by one.)
* `StrandedOnlyByFailure`: a strategy at rest waits for something that is on its way. It is
  not between two states, the selector owes it the answer, the order its state awaits was
  sent. There are two excuses: a write that failed in this life, and the exit of a spread
  whose instrument is not found, which moves to EXITING and sends nothing.
* `OutcomesAddUp`: what the reports count. Every evaluation ends at its gate, in a dry run,
  at the selector or in an order, or still waits for the selector; one without outcome is
  one failed write or one life, and an outcome without evaluation does not exist.
* `LayerPrecedence`: no overlay has a say over the choice of another, and the profile has
  the last word but for the environment, although it is merged before and after them.
* `DryRunHonoured`: the flag `--dry-run` holds over profile and environment. (Without the
  flag, `DRY_RUN=0` switches off the dry run of a profile.)
* `SelectorHearsIntents`: no strategy queues intents that nobody collects. It relates the
  condition under which the factory wires the selector to the one it tells the strategy,
  and the order of start to both.
* `PlanCoversStart`: with the default budget of three, the plan names all that the primary
  strategy subscribes to as it starts. A hedge that is also the underlying counts twice,
  which a smaller budget does not forgive. What a strategy adds in a position
  (`PositionFeeds`) is in no plan (section 7).
* `FeesCharged`: a backtest charges by the model the edge gate deducts, for profiles that
  leave the fees to the overlay of their venue. Others may charge nothing (section 7).
* `FailsClosed`: a path that names no file loads the defaults without a word; it is the
  missing expiry that stops such a node from trading.
* `EdgeWithinWidth` holds for quotes that are not crossed; a crossed quote has a
  negative spread, which the edge formula adds to the gain.

## 5. Fairness

* `ZeroDteStrategy`: the passing run needs none, its properties are safety properties.
  `FairSpec` is for the promises of documents that the code does not keep (`flatten` and
  `cancelled_entry`), so that none is refuted by a world that stands still: weak fairness
  of `ManagePosition` *while the flatten signal is set* (quotes of the underlying keep
  coming; each runs the handler), of the selector's answers (shown by
  `EveryIntentAnswered` in `SelectorSystem`), and of the venue for each order that is
  immediate-or-cancel. Nothing is assumed of bracket legs, prices, actor messages or signals.
* `SelectorSystem`: time passes and a due alert fires, which is one fairness condition on
  `Tick \/ OnFinalizeAlert` (time does not pass over an alert that is due). Nothing is
  assumed of strategies or orders.
* `SessionGate`, `GatedSkeleton`, `AuditTrail` and `Node` need none either; they have safety
  properties only. `AuditTrail` could not have any: a process may die at any time.

## 6. Proofs

Everything below holds for every value of the constants.

`ZeroDteStrategyProofs`, for every set of profiles, tags, number of intents
and order quantity:

| Theorem | Statement |
| --- | --- |
| `InductiveInvariant` | `Spec => []IInv` |
| `TypeCorrect`, `PositionsAreManageable`, `AwaitsWhatIsPending`, `OrdersFollowTheirEntry`, `OneHedge`, `OrdersAreSentInTurn` | its parts |
| `EveryOrderSentOnce` | `Spec => NoOrderSentTwice` |
| `BookedForward` | `Spec => []FillsBookedForward` |
| `DirectEntriesAreGated` | `Spec => DirectEntryGated` |
| `ShortIsBounded` | `Spec => []ShortByOneExitAtMost` |
| `Refinement` | `Spec => Lifecycle!Spec` |
| `OneAtATime` | `Spec => []Lifecycle!OneLiveIntent` |
| `OverStaysOver` | `Spec => Lifecycle!OverIsFinal` |

Assumptions are the three named ones of `ZeroDteStrategy` (the profiles are
profiles and there is one, UNKNOWN is a tag and blocked tags are tags, the bounds
are numbers and an order has a lot).

`IInv` is checked by TLC as part of the run `strategy` (its conjuncts are
invariants of that run, but for `AtMostOneHedge`, which follows from `SentInTurn`).
Why the conjuncts need each other:

* `OrdersFollowEntry` is not inductive alone: `SubmitExit` and the hedge send an
  order for `activeIntent` and must know that its entry was sent. That is the
  second part of `SentInTurn`; it in turn needs `PositionManageable` for
  `activeIntent` to be an intent at all.
* `NoOrderSentTwice` needs that an order that is about to be sent was never sent:
  entries because ids beyond `built`, and the pending id, have no orders; exits
  because a strategy in PENDING_ENTRY or IN_POSITION has not sent its exit;
  the hedge because its latch is not set. These are the parts of
  `SentInTurn`.
* `AwaitingExactlyPending` keeps the pending intent apart from the active one,
  without which a late fill could move the wrong intent.

`BookedForward` uses the small invariant `SentBefore`: no order was sent for an intent
younger than the active one. `DirectEntriesAreGated` uses another, `SignalsAgree`: a set
flatten signal means that entries are not allowed, since the strategy stores both
from one message. `ShortIsBounded` rests on `ShortInv`: no exit is sent before the latch is
set and there is one at most in a life; without one the position is not short, and with
one it would still be within the bound if the rest of the exit filled at once.
`Refinement` goes by action: each action is mapped to one
step of one intent's stage, or leaves every stage unchanged (order events that
only touch the book, messages of the actors). The last two are what the abstract
specification is good for: at most one intent is in work, and one that is over never comes
back. They are proved of `TradeLifecycle` and carried over by `Refinement`.

`SelectorSystemProofs`, for any number of strategies, ids, instruments and edges, any
policy and any interval:

| Theorem | Statement |
| --- | --- |
| `InductiveInvariant` | `Spec => []IInv` |
| `TypeCorrect`, `BufferIsAwaited`, `OnlyApprovedIsTraded`, `StopAnswersAll`, `WaitIsBounded` | `TypeOK`, `BufferIsWhatIsAwaited`, `TradedWasApproved`, `NoneWaitingAfterStop`, `BoundedWait` |
| `VerdictsAreFinal` | `Spec => VerdictIsFinal` |
| `Refinement` | `Spec => ImplementsLifecycle` |

The argument rests on one lemma about the policy, `AnswersPartition`: every intent of
the buffer is approved or rejected and none is both. Nothing else about the
greedy choice matters. `IInv` is `TypeOK` and

* `AskedInv`: a strategy has a pending intent exactly while it waits; the intent is its
  own and was asked for. It makes the ids of the buffer distinct, so that an answer finds
  one taker;
* `OwnedInv`: an intent has an owner from the moment it is asked for, so a new one takes
  the id of no other;
* `BufferIsWhatIsAwaited` and `TradedWasApproved` themselves;
* `WaitInv`: `waited` and the time left to the alert are together at most one interval
  per intent *in the buffer*. `BoundedWait` is too weak to be kept by `Collect`; this is
  kept, because the intent that moves the alert also lengthens the buffer, and the
  buffer is no longer than there are strategies;
* `StoppedInv`: after the actors have stopped, the buffer is empty.

Assumptions: `SelectorAssumption` (finitely many strategies, ids are numbers, a positive
interval) and `NoneAssumption` (None is none of the other values).

`AuditTrailProofs`, for any number of intents, failures, lives and requests:

| Theorem | Statement |
| --- | --- |
| `TypeCorrect` | `Spec => []TypeOK` |
| `LossIsBounded` | `Spec => []LossBounded` |
| `Refinement` | `Spec => ImplementsAuditLog` |
| `WriteAhead` | `Spec => []OrdersAnnounced` |
| `OnlyFailures` | `Spec => []StrandedOnlyByFailure` |
| `EvaluationsAddUp` | `Spec => []OutcomesAddUp` |

`TypeOK` is inductive with three facts (`Typed`): a state or a handler that trades has an
intent, so that the entry about to be written carries one of the intents there are; a
handler about to send an entry has made the last built intent the active one; and while the selector owes an
answer the strategy is in PENDING_APPROVAL, in no trade (`AskedWaits`). `LossAccounted` strengthens `LossBounded` by the entry to come: a torn end of the
file is a failure whose one lost entry may still be outstanding. `AnnouncedFirst` says of a
handler that stands before the sending of an order that its announcement is already
acknowledged. `Owed` says the same of the other direction: a strategy that rests or runs
without an exception in this life has sent, or is about to send, the order its state
awaits, has published or is about to publish the intent it waits with, or did not find
the instrument of its exit; it goes by handler and position, which is why it has one case
per effect. The
refinement is the observation that `Finished` of a file and of the same file with one
more piece differ by that piece at most.

`EvaluationsAddUp` needs `Balanced`, which holds at every moment and not only when the node is
at rest: with `Owing` for the evaluation whose outcome the running handler has yet to record,
or the selector to bring about,

    outcomes + Owing <= evaluations <= outcomes + faults + Owing + earlier starts.

Each of the three excuses pays for a different step. A record moves an evaluation into
`Owing` or out of it; a failed write charges what was owing to `faults`, whether or not a
torn piece of it is counted; a death, which takes the handler with it, charges it to the
lives (`Ago`). `Adds` gives the five numbers by which a step changes the five counts, and
`BalanceKept` says which such steps are in balance; what is left for each action is to
name its numbers. `OutcomePlaces` says where in the handlers the two records stand, and
`CountAfterAppend` that one more piece adds one to a count or nothing. Assumptions:
`AuditAssumption` (bounds are numbers) and `ProfileAssumption` (profiles are profiles).

`NodeProofs`, for every set of files, profiles, environments, commands and catalogs:

| Theorem | Statement |
| --- | --- |
| `Precedence` | `Load` and `Winning` agree on every leaf |
| `LayersInOrder` | `Spec => []LayerPrecedence` |
| `DryRunHolds` | `Spec => []DryRunHonoured` |
| `SelectorFirst` | `Spec => []SelectorHearsIntents` |
| `FailsClosedHolds` | `Spec => []FailsClosed` |
| `PlanCovers` | `Spec => []PlanCoversStart` |
| `FeesAgree` | `Spec => []FeesCharged` |

`Precedence` is a fact about the operators: it shows layer by layer that the leaves which
pick an overlay are not changed by the ones before it. `NodeInv` carries what a phase
implies: the configuration is the loaded one with the flags in it (`ConfigInv`), the node is
what the builder made of it and did not refuse (`BuiltInv`), what runs could be constructed,
and the selector, third of the parts, listens from its start on (`StartInv`); the plan is
that of the configuration, and a strategy that has started has the feeds of its start and
at most those of a position besides (`FeedInv`).

`PlanCovers` compares two computations from one configuration: the plan of the factory and
the subscriptions at the start of the strategy's class (`FeedsOf`). It rests on `PlanIsWhole`, that a
budget of three drops nothing, and on `UnderlyingHasSymbol`. `FeesAgree` goes from the
profile to the schedule: `ScheduleOfVenue` shows that a profile with no word on fees gets
the schedule of its adapter, through all later layers, and that this schedule is of the kind
for which the factory builds a fee model.

Assumptions, each a fact about the files in `configs/` or about what a YAML document may
hold: `FilesAssumption` (overlays set no leaf by which overlays are picked; strategies and
expiries come from profiles only; the budget is a number), `FeeFilesAssumption`
(`configs/fees/` has a schedule of the kind of each venue, and no other file has a say over
the fees), `CommandsAssumption`, `ProfilesAssumption` (the list of strategies is a list, the
budget a number), `SymbolAssumption` (`underlying_symbol_from_id` gives every underlying a
name) and `EnvironsAssumption` (the environment has a say over three leaves). TLC evaluates
all of them in the run `node`, where `MCNode` has the contents of the files.

`SelectIntentsProofs`, for batches of any length, any strategies, instruments and edges, and
any policy, caps of zero and below included:

| Theorem | Statement |
| --- | --- |
| `RankDecides` | `Spec => []GreedyByRank` |
| `RoomIsUsed` | `Spec => []NoRoomWasted` |
| `BatchAnswered` | `Spec => []AnsweredOnce`: each intent of the batch is in one of the lists |
| `CapsKept` | `Spec => []ApprovedWithinCaps`: places, instruments and strategies |

The invariant only says that the result is that of the operators; the work is about these.
`RankedSorts`: the sorted batch has each intent once, and one precedes another exactly when
it ranks better. `TakenExists` and `TakenSteps` turn the recursive function into a chain that
takes or skips one intent a step, and `TakenGrows` describes what was taken after k steps by
what was taken before. Induction over the walk is done without an induction theorem: a set of
numbers that has 0 and is closed under the next one has them all (`Induction`), because its
complement would have a least element. `ApprovedByRank` is then the declarative meaning
and the other three follow from it or from `RoomKeepsCaps`.

`SelectStructureProofs`, for chains of any strikes and quotes, crossed ones included, and
every configuration and schedule of fees:

| Theorem | Statement |
| --- | --- |
| `LegsAreNearest` | `Spec => []NearestStrikes` |
| `EdgeIsPayable` | `Spec => []EdgeWithinWidth` |
| `DearerIsNotBetter` | `Spec => []WorseAskNoBetter` |

The invariant again is that what was selected is what the operators select
(`SelectedMeans`). The arithmetic is in lemmas of its own, since the provers do not find
inequalities between products and quotients: `DivBounds` and `DivOrder` for the rounding,
`TimesKeepsOrder` for the products; `NetGainWithin` and `WorseDebitNoBetter` say what
the formula of the edge makes of a debit.

`SessionGateProofs`, for a day of any length, any close, blackout and limits of age:

| Theorem | Statement |
| --- | --- |
| `TypeCorrect` | `Spec => []TypeOK` |
| `LagIsBounded` | `Spec => []BlackoutLagBounded` |
| `FreshWhileAlone` | `Spec => [](~ otherFeeds => UnderlyingFresh)` |

`FreshWhileAlone` is the other half of the run `stale_underlying`: what the document says
is true of a strategy whose only feed is its underlying, and the run shows that other
feeds are all it takes to break it. `IInv` has two conjuncts next to `TypeOK`:
`PassedOnWhatIsHeld` (what passed in a step passed on the ages and the phase the strategy
still holds) and `PhaseIsAsOldAsQuote` (while the underlying is the only feed, the phase is
that of an instant no further back than the age of the last quote). The first depends on
the gates through `PassedWasGated`: what passes `evaluate_pre_greek` breaches no gate,
whichever comes first.

`GatedSkeletonProofs`, for any prices, thresholds, window and number of quotes:

| Theorem | Statement |
| --- | --- |
| `TagIsCurrent` | `Spec => []KnownTagIsCurrent` |
| `FirstQuoteDecides` | `Spec => []FirstQuoteIsJudged` |
| `HighPricesTagged` | `Spec => []HighPricesArePinned` |

None of the three properties says anything of the moments between the calls of one quote,
so none is inductive. `RegimeFollows` says what the actor knows there (the run of
quotes without the last one until it is called), `FirstQuote` that during the first quote
the flags of the strategy tell who has been called, and `JudgedOnFirst` that the evaluation
is done as soon as all three have spoken. `PushMovesWindow` shows that the bounded deque is
the last `WindowSize` prices of the run.

Only model-checked: the liveness property `EveryIntentAnswered`, since fairness is out of
the prover's reach. The five runs that expect
a violation have their counterexamples. Every invariant and every other action property of
a passing run is proved.

## 7. Where docs and code differ

| Run | The doc says | The code does |
| --- | --- | --- |
| `flatten` | `state-diagram.puml:34`: InPosition goes to Flat on the flatten signal; `cli/main.py:196` says so to the operator | `cancel_all_orders()` (`base.py:235`) lacks the instrument the engine requires and raises: nothing is cancelled and no exit is sent, at the phase message and at each quote |
| `cancelled_entry` | `state-diagram.puml:25`: PendingEntry goes to Flat when rejected or cancelled | there is no handler for a cancelled or expired order: the strategy stays in PENDING_ENTRY for good |
| `flat_position` | `state-diagram.puml:7`: Flat holds no open position | any fill while EXITING ends the trade: a bracket leg that races the exit, or the first part of the exit |
| `unarmed_triggers` | `state-diagram.puml:33`: InPosition leaves by take-profit or stop-loss | `_exit_submitted` is never reset: only the first such exit of a run is ever sent |
| `stale_underlying` | `gate-boundary.md:40`: the underlying quote must be fresh | a quote of the hedge perpetual, or of a spread, resets the same timestamp |

Seen while reading, and not runs.

Trading:

* `max_daily_loss` and `max_concentration_per_strike` are read by nothing.
* Deribit's commission is taken as `taker_fee` of the *debit* (`costs/deribit.py:19`), where
  `configs/fees/` calls it a percentage of the *underlying* notional.
* The take-profit and stop-loss checks (`reference.py:263`) take the bid of any instrument
  that ticks for the price of the position.
* What `flatten_positions` raises leaves the handler of the phase message and the `publish`
  of the SessionActor: subscribers behind that strategy do not hear that phase.
* A refused or cancelled exit leaves the strategy in EXITING.
* The flush of the selector's `on_stop` may make a strategy send an entry while the node
  stops.
* `int(strike)` in the names of Deribit spreads may give two structures one name.

Configuration and node:

* A `reference` block of a strategy replaces the shared one, it is not merged with it.
* Backtest data and fee model look at `config.reference.backtest_plumbing`, not at the block of
  the strategy, and feed only the primary's data.
* "single source for edge gate and BacktestVenueConfig FeeModel" (`schema.py:48`) fails
  when a shared plumbing flag is set, or when `fees.model` is not of the kind of the
  venue: the fee model is then None and the strategies deduct all the same.
* An unknown `strategy_class` becomes the gated skeleton, which is never told of the selector;
  an unknown `structure_selector` becomes none, and the strategy subscribes to no chain.
* An adapter in lower case picks the overlays of its venue, and then validation refuses it.
* A profile that is not there loads the defaults; a `session_overlay` that names a missing
  file sets nothing; the default overlay of the caps also sets the approval threshold.
* The actors watch the underlying of the primary strategy only, and `_deribit_load_ids` reads
  `config.strategy`, also when `strategies` is set.
* The plan is published before any strategy has subscribed, nothing subscribes to it, and
  its interval is clamped where the strategies' is not (`ingestion-tiers.md:97`).
* The planner lists no feed of an open position, although `ingestion-tiers.md:23` has a tier
  for its greeks; `on_order_filled` subscribes without regard to any budget.
* NODE_START is recorded before the build and outside the `try`: a build that raises leaves
  no NODE_STOP.
* A live IB node without `IB_HOST` runs without clients; a Deribit node in dry run has its
  execution client.
* `.cursor/plans/0dte_implementation_plan` (line 271) gives the layers in another order.

Journal and learning:

* `record` appends to memory before the file, so a failed write is in the one and not in
  the other.
* Nothing passes `hold_hours`, `underlying_move` or `iv_move` and nothing sets
  `projected_greeks`: theta, gamma and vega of a learning record are always zero
  (`learning-attribution.md:48-50`); the slippage of an exit is measured against the mid of
  the entry.
* A rejection by the selector is journaled twice as SELECTOR_REJECTED, by the actor and by
  the strategy (`selector.py:99`, `base.py:276`).
* `journal_summary` leaves out events the report counts.

## 8. Assumptions, and what is not modelled

* The engine delivers events one at a time and runs the bus synchronously;
  actors subscribe before strategies, in the order the node adds them.
* `Strategy.cancel_all_orders` of the engine requires an instrument, so a call without one
  raises; the engine logs what a handler raises and goes on, or stops (`AuditTrail`).
* Bracket legs are reduce-only, wait for the entry, and cancel each other when
  one is filled.
* The selected spread has a quote when the bracket is priced, and both spread
  profiles act alike once a structure is chosen.
* Prices, scores and greeks are integers, UUIDs numbers: they are only compared.
* `AuditTrail`: an order is filled at once or refused, without bracket legs and
  cancellations; there is one strategy, alone behind the selector, whose policy may go either
  way; what a write got to the file stays there (no loss
  in the caches of the operating system); the engine may swallow the exception of a handler
  or pass it on; the orders of an earlier life give no events to a later one.
* `Node`: the engine starts actors before strategies, in the order of the node; the engine of
  a backtest constructs its strategies when it runs, that of a live node when it is built.

Not modelled: streaming to a catalog and its conversion, offline research and the scripts that
build fixtures (input and output only); the numbers of a learning record (to which intent
it belongs, and when there is none, is); conversions between payloads and intents, which
carry every field unchanged; names of instruments; thresholds and limits of the
configuration, which only the gates compare. `strategies/skeleton.py` has no state beyond its
journal entries.

## 9. Plan

Done: the strategy core, the selector system, diversification, the gates with the session
clock, regime tags with the gated skeleton, structure selection with its costs, the journal
with its failures and the way from the configuration to the running node, each with its
proofs.

Left, in this order:

1. That the intents of one batch which the strategies behind the selector come to trade
   keep the caps among them: a theorem about the steps of `SelectorSystem`, from the lemmas
   about `Taken` that are now in `SelectIntentsProofs`.
2. Which instrument ticks: the price levels of `_check_exit_triggers` against quotes
   of the underlying, the perpetual and the spread.
3. Portfolio limits: strategies of one batch that pass the greek gate against the
   same portfolio.
4. Several days: the opening price of the RegimeActor in a run that goes on over night.
