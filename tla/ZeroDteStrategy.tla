-------------------------- MODULE ZeroDteStrategy --------------------------
(***************************************************************************)
(* One BaseZeroDteStrategy / ReferenceZeroDteStrategy: the finite state    *)
(* machine that turns a market signal into a trade intent, the intent into *)
(* an entry order, the position into an exit order, and every event of its *)
(* orders back into a state.                                               *)
(*                                                                         *)
(* The event loop of the trading engine is single-threaded and the message *)
(* bus calls its subscribers synchronously, so one handler runs to its end *)
(* before the next starts: every handler is one action.  EVALUATING is     *)
(* left within the handler that enters it and is never seen from outside.  *)
(* What is asynchronous is the venue: the orders of a strategy fill, are   *)
(* refused or vanish at any time, in any order, and their events drive the *)
(* same handlers whichever order they are about.                           *)
(***************************************************************************)
EXTENDS Integers

CONSTANTS
    Profiles,        \* the configurations a strategy may be started with
    RegimeTags,      \* the tags a RegimeTagSnapshot may carry
    BlockedRegimes,  \* config.blocked_regimes
    MaxIntents,      \* bound: intents that pass every gate in one life
    OrderQty         \* config.order_qty, in lots

Profile == [selector : BOOLEAN,  \* selector_enabled
            plumbing : BOOLEAN,  \* backtest_plumbing: market orders on the underlying
            hedging  : BOOLEAN,  \* a hedge_perp_instrument is configured
            dryRun   : BOOLEAN]

ASSUME ProfilesAssumption == Profiles \subseteq Profile /\ Profiles # {}
ASSUME RegimesAssumption  == "UNKNOWN" \in RegimeTags /\ BlockedRegimes \subseteq RegimeTags
ASSUME BoundsAssumption   == MaxIntents \in Nat /\ OrderQty \in Nat \ {0}

NoIntent == 0
Intents  == 1 .. MaxIntents

VARIABLES
    profile,          \* self.config, fixed when the strategy is built
    state,            \* self._state
    sessionAllows,    \* self._session_allows_entry
    sessionReceived,  \* self._session_received
    flattenSignal,    \* self._flatten_signal
    regimeTag,        \* self._regime_tag
    regimeReceived,   \* self._regime_received
    built,            \* how many intents have passed the gates: the ids in use
    pendingIntent,    \* self._pending_intent
    activeIntent,     \* self._active_intent and self._active_intent_id
    priced,           \* self._entry_price is not None
    exitSubmitted,    \* self._exit_submitted
    hedgeSubmitted,   \* self._hedge_submitted
    orders,           \* every order the strategy may ever send, at the venue
    position          \* the net lots the venue holds for it, hedges left out

context == <<sessionAllows, sessionReceived, flattenSignal, regimeTag, regimeReceived>>
latches == <<exitSubmitted, hedgeSubmitted>>
vars    == <<profile, state, context, built, pendingIntent, activeIntent, priced,
             latches, orders, position>>

-----------------------------------------------------------------------------
(***************************************************************************)
(* The orders.  An intent has at most one order of each role: the bracket  *)
(* (an entry that holds back a take-profit and a stop-loss until it        *)
(* fills), the exit and the delta hedge.                                   *)
(***************************************************************************)
Roles   == {"entry", "tp", "sl", "exit", "hedge"}
Bracket == {"tp", "sl"}
Orders  == Intents \X Roles
Statuses == {"none", "held", "working", "closed"}

Order(status, open) == [status |-> status, open |-> open]   \* open: lots not traded yet
Closed == Order("closed", 0)

Role(o)   == o[2]
Parent(o) == <<o[1], "entry">>
AtVenue(o) == orders[o].status = "working"

\* The strategy only ever sells what it holds with "tp", "sl" and "exit".
Side(role) == IF role = "entry" THEN 1 ELSE IF role = "hedge" THEN 0 ELSE -1

\* The order book after order <<i, role>> has been sent.
Sent(book, i, role) == [book EXCEPT ![<<i, role>>] = Order("working", OrderQty)]

\* submit_entry: a market order on the underlying, or the whole bracket.
EntrySent(book, i) ==
    IF profile.plumbing
    THEN Sent(book, i, "entry")
    ELSE [o \in Orders |->
            IF o[1] = i /\ Role(o) = "entry"      THEN Order("working", OrderQty)
            ELSE IF o[1] = i /\ Role(o) \in Bracket THEN Order("held", OrderQty)
            ELSE book[o]]

-----------------------------------------------------------------------------
Init ==
    /\ profile \in Profiles
    /\ state = "Flat"
    /\ sessionAllows = FALSE /\ sessionReceived = FALSE /\ flattenSignal = FALSE
    /\ regimeTag = "UNKNOWN" /\ regimeReceived = FALSE
    /\ built = 0
    /\ pendingIntent = NoIntent /\ activeIntent = NoIntent
    /\ priced = FALSE
    /\ exitSubmitted = FALSE /\ hedgeSubmitted = FALSE
    /\ orders = [o \in Orders |-> Order("none", 0)]
    /\ position = 0

\* An instrument the cache does not know stops an order before it is sent.
\* The cache is the engine's: either answer is possible at any lookup.
InstrumentFound == {TRUE, FALSE}

-----------------------------------------------------------------------------
(* From a signal to an entry order.                                         *)

ActorsReady == sessionReceived /\ regimeReceived

\* Mutant of ContextGatesPass: the session gate is left out.
RegimeGateOnly == regimeTag \notin BlockedRegimes

\* The gates that read the messages of the actors; the edge, liquidity,
\* freshness and greek gates read the market and may go either way.
ContextGatesPass == sessionAllows /\ regimeTag \notin BlockedRegimes

\* Mutant of SubmitApprovedIntent: the return before the order leaves EVALUATING.
SubmitStuckEvaluating(i) ==
    /\ activeIntent' = i
    /\ \E found \in InstrumentFound :
          /\ state'  = IF found THEN "PendingEntry" ELSE "Evaluating"
          /\ orders' = IF found THEN EntrySent(orders, i) ELSE orders

\* Mutant of SubmitApprovedIntent: an ORDER_ERROR does not fall back to FLAT.
SubmitWithoutFallback(i) ==
    /\ activeIntent' = i
    /\ \E found \in InstrumentFound :
          /\ state'  = "PendingEntry"
          /\ orders' = IF found THEN EntrySent(orders, i) ELSE orders

SubmitApprovedIntent(i) ==
    /\ activeIntent' = i
    /\ \E found \in InstrumentFound :
          /\ state'  = IF found THEN "PendingEntry" ELSE "Flat"
          /\ orders' = IF found THEN EntrySent(orders, i) ELSE orders

QueueForSelector(i) ==
    /\ pendingIntent' = i
    /\ state' = "PendingApproval"
    /\ UNCHANGED <<activeIntent, orders>>

\* An evaluation that some gate stops, and every one of a dry run, ends in
\* FLAT as it began; the steps below are those of an intent that goes on.
BeginEvaluation ==
    /\ state = "Flat"
    /\ ActorsReady
    /\ ContextGatesPass
    /\ ~ profile.dryRun
    /\ built < MaxIntents
    /\ built' = built + 1
    /\ IF profile.selector
       THEN QueueForSelector(built + 1)
       ELSE SubmitApprovedIntent(built + 1) /\ UNCHANGED pendingIntent
    /\ UNCHANGED <<profile, context, priced, latches, position>>

\* Only a strategy that selects a structure subscribes to the option chain.
OnOptionChain == ~ profile.plumbing /\ BeginEvaluation

\* Mutant of OnIntentApproved: the pending intent is not cleared.
ApprovedKeepsPending(i) ==
    /\ state = "PendingApproval" /\ pendingIntent = i
    /\ SubmitApprovedIntent(i)
    /\ UNCHANGED <<profile, context, built, pendingIntent, priced, latches, position>>

\* Mutant of OnIntentApproved: a repeated approval is taken again.
ApprovedAgain(i) ==
    /\ i <= built
    /\ pendingIntent' = NoIntent
    /\ SubmitApprovedIntent(i)
    /\ UNCHANGED <<profile, context, built, priced, latches, position>>

OnIntentApproved(i) ==
    /\ state = "PendingApproval"
    /\ pendingIntent = i
    /\ pendingIntent' = NoIntent
    /\ SubmitApprovedIntent(i)
    /\ UNCHANGED <<profile, context, built, priced, latches, position>>

OnIntentRejected(i) ==
    /\ state = "PendingApproval"
    /\ pendingIntent = i
    /\ pendingIntent' = NoIntent
    /\ state' = "Flat"
    /\ UNCHANGED <<profile, context, built, activeIntent, priced, latches, orders, position>>

-----------------------------------------------------------------------------
(* Managing and leaving a position.                                         *)

\* Mutant of SubmitExit: no transition to EXITING.
SubmitExitInPlace ==
    /\ orders' = Sent(orders, activeIntent, "exit")
    /\ UNCHANGED state

\* EXITING, then submit_exit.  When the instrument is not found, the plumbing
\* journals an ORDER_ERROR and falls back to FLAT; otherwise submit_exit
\* returns without a word.
SubmitExit ==
    \E found \in InstrumentFound :
        /\ orders' = IF found THEN Sent(orders, activeIntent, "exit") ELSE orders
        /\ state'  = IF profile.plumbing /\ ~ found THEN "Flat" ELSE "Exiting"

\* In a position or an entry, flatten_positions calls cancel_all_orders() without the
\* instrument id that the engine's method requires: the call raises before any
\* order is cancelled, and before the transition and the exit that follow it.
\* What the engine makes of the exception, to log it and go on or to end the
\* process, is no step of this model: a behaviour may also end here.
FlattenPositions == UNCHANGED <<state, orders>>

\* Mutant of CheckExitTriggers: the latch does not hold.
CheckExitTriggersUnlatched ==
    /\ priced
    /\ activeIntent # NoIntent
    /\ exitSubmitted' = TRUE
    /\ SubmitExit

\* The bid of the tick is beyond the take-profit or the stop-loss level.
CheckExitTriggers ==
    /\ ~ exitSubmitted
    /\ priced
    /\ activeIntent # NoIntent
    /\ exitSubmitted' = TRUE
    /\ SubmitExit

\* While the flatten signal stands, a tick gets no further than flatten_positions.
ManagePosition ==
    /\ state = "InPosition"
    /\ IF flattenSignal
       THEN FlattenPositions /\ UNCHANGED exitSubmitted
       ELSE CheckExitTriggers
    /\ UNCHANGED <<profile, context, built, pendingIntent, activeIntent, priced,
                   hedgeSubmitted, position>>

OnQuoteTick ==
    \/ ManagePosition
    \/ profile.plumbing /\ BeginEvaluation

\* Mutant of OnOptionGreeks: the latch is not set.
OnOptionGreeksUnlatched ==
    /\ state = "InPosition" /\ ~ profile.plumbing /\ profile.hedging /\ ~ hedgeSubmitted
    /\ orders' = Sent(orders, activeIntent, "hedge")
    /\ UNCHANGED <<profile, state, context, built, pendingIntent, activeIntent, priced,
                   latches, position>>

\* A portfolio delta beyond the band, seen on a greeks update of a leg.
OnOptionGreeks ==
    /\ state = "InPosition"
    /\ ~ profile.plumbing /\ profile.hedging
    /\ ~ hedgeSubmitted
    /\ hedgeSubmitted' = TRUE
    /\ \E found \in InstrumentFound :
          orders' = IF found THEN Sent(orders, activeIntent, "hedge") ELSE orders
    /\ UNCHANGED <<profile, state, context, built, pendingIntent, activeIntent, priced,
                   exitSubmitted, position>>

-----------------------------------------------------------------------------
(* Messages of the actors.                                                  *)

\* SessionActor publishes flatten_signal as the negation of allows_entry.
OnSessionPhase(allows) ==
    /\ sessionAllows' = allows
    /\ sessionReceived' = TRUE
    /\ flattenSignal' = ~ allows
    /\ IF ~ allows /\ state \in {"InPosition", "PendingEntry"}
       THEN FlattenPositions
       ELSE UNCHANGED <<state, orders>>
    /\ UNCHANGED <<profile, regimeTag, regimeReceived, built, pendingIntent, activeIntent,
                   priced, latches, position>>

OnRegimeTag(tag) ==
    /\ regimeTag' = tag
    /\ regimeReceived' = TRUE
    /\ UNCHANGED <<profile, state, sessionAllows, sessionReceived, flattenSignal, built,
                   pendingIntent, activeIntent, priced, latches, orders, position>>

-----------------------------------------------------------------------------
(* Events of the orders: what the venue does, and the handler it calls.     *)

\* The entry releases its bracket when it fills, and takes it along when it
\* ends without a fill; a filled leg of the bracket closes the other leg.
Filled(o, n) ==
    LET left == orders[o].open - n
    IN  [q \in Orders |->
            IF q = o THEN (IF left = 0 THEN Closed ELSE Order("working", left))
            ELSE IF /\ Role(o) = "entry" /\ Parent(q) = o
                    /\ orders[q].status = "held"
                 THEN Order("working", orders[q].open)
            ELSE IF /\ Role(o) \in Bracket /\ Role(q) \in Bracket /\ Parent(q) = Parent(o)
                    /\ left = 0 /\ orders[q].status # "none"
                 THEN Closed
            ELSE orders[q]]

Ended(o) ==
    [q \in Orders |->
        IF q = o \/ (Role(o) = "entry" /\ Parent(q) = o /\ orders[q].status = "held")
        THEN Closed
        ELSE orders[q]]

\* Bracket legs reduce a position and never open one.
Fillable(o) ==
    LET cap == IF Role(o) \in Bracket THEN position ELSE OrderQty
    IN  {n \in 1 .. orders[o].open : n <= cap}

\* on_order_filled asks for the state only: any fill of any order of this
\* strategy is an entry fill in PENDING_ENTRY and an exit fill in EXITING.
OnOrderFilled(o) ==
    /\ AtVenue(o)
    /\ \E n \in Fillable(o) :
          /\ orders' = Filled(o, n)
          /\ position' = position + Side(Role(o)) * n
    /\ \/ /\ state = "PendingEntry"
          /\ state' = "InPosition"
          /\ priced' = TRUE
          /\ UNCHANGED activeIntent
       \/ /\ state = "Exiting"
          /\ state' = "Flat"
          /\ activeIntent' = NoIntent
          /\ priced' = FALSE
       \/ /\ state \notin {"PendingEntry", "Exiting"}
          /\ UNCHANGED <<state, activeIntent, priced>>
    /\ UNCHANGED <<profile, context, built, pendingIntent, latches>>

\* Mutant of OnOrderRefused: the intent is forgotten in every state.
RefusedForgetsIntent(o) ==
    /\ AtVenue(o) /\ orders[o].open = OrderQty
    /\ orders' = Ended(o)
    /\ activeIntent' = NoIntent
    /\ state' = IF state = "PendingEntry" THEN "Flat" ELSE state
    /\ UNCHANGED <<profile, context, built, pendingIntent, priced, latches, position>>

\* on_order_rejected and on_order_denied: the venue, or the risk engine in
\* front of it, refuses an order that has not traded.
OnOrderRefused(o) ==
    /\ AtVenue(o) /\ orders[o].open = OrderQty
    /\ orders' = Ended(o)
    /\ IF state = "PendingEntry"
       THEN state' = "Flat" /\ activeIntent' = NoIntent
       ELSE UNCHANGED <<state, activeIntent>>
    /\ UNCHANGED <<profile, context, built, pendingIntent, priced, latches, position>>

\* An order ends at the venue without a refusal: the rest of an immediate-or-cancel
\* order, or whatever still works when its instrument expires.  The strategy
\* asks for no cancel and has no handler for one.
VenueCancels(o) ==
    /\ AtVenue(o)
    /\ orders' = Ended(o)
    /\ UNCHANGED <<profile, state, context, built, pendingIntent, activeIntent, priced,
                   latches, position>>

-----------------------------------------------------------------------------
SelectorAnswers == \E i \in Intents : OnIntentApproved(i) \/ OnIntentRejected(i)

Next ==
    \/ OnOptionChain
    \/ OnQuoteTick
    \/ OnOptionGreeks
    \/ SelectorAnswers
    \/ \E allows \in BOOLEAN : OnSessionPhase(allows)
    \/ \E tag \in RegimeTags : OnRegimeTag(tag)
    \/ \E o \in Orders : OnOrderFilled(o) \/ OnOrderRefused(o) \/ VenueCancels(o)

Spec == Init /\ [][Next]_vars

\* Quotes keep coming while a position is to be flattened; SelectorSystem shows that every queued
\* intent is answered; a venue is done with an immediate-or-cancel order at some
\* time.  Only StateDiagram needs it, for promises the code does not keep.
VenueResolves(o) ==
    /\ Role(o) \notin Bracket
    /\ OnOrderFilled(o) \/ OnOrderRefused(o) \/ VenueCancels(o)

Fairness ==
    /\ WF_vars(flattenSignal /\ ManagePosition)
    /\ WF_vars(SelectorAnswers)
    /\ \A o \in Orders : WF_vars(VenueResolves(o))

FairSpec == Spec /\ Fairness

-----------------------------------------------------------------------------
(* Properties.                                                              *)

States == {"Flat", "PendingApproval", "PendingEntry", "InPosition", "Exiting"}

InTrade == state \in {"PendingEntry", "InPosition", "Exiting"}

\* Every variable holds a value of its kind, and ids in use are ids built.
TypeOK ==
    /\ profile \in Profiles
    /\ state \in States
    /\ sessionAllows \in BOOLEAN /\ sessionReceived \in BOOLEAN /\ flattenSignal \in BOOLEAN
    /\ regimeTag \in RegimeTags /\ regimeReceived \in BOOLEAN
    /\ built \in 0 .. MaxIntents
    /\ pendingIntent \in 0 .. built /\ activeIntent \in 0 .. built
    /\ priced \in BOOLEAN
    /\ exitSubmitted \in BOOLEAN /\ hedgeSubmitted \in BOOLEAN
    /\ orders \in [Orders -> [status : Statuses, open : 0 .. OrderQty]]
    /\ position \in Int

\* While a trade is in progress the strategy knows its intent, and in a position
\* its entry price too: otherwise the take-profit and stop-loss checks would
\* return without acting (reference.py _check_exit_triggers).
PositionManageable ==
    /\ InTrade => activeIntent # NoIntent
    /\ state = "InPosition" => priced

\* An intent is kept for an answer exactly while the strategy awaits one, and it is
\* never the one being traded: an answer that finds no pending intent, or the
\* wrong state, is dropped, and the strategy would wait for ever.
AwaitingExactlyPending ==
    /\ pendingIntent # NoIntent <=> state = "PendingApproval"
    /\ pendingIntent # NoIntent => pendingIntent # activeIntent /\ pendingIntent = built

\* No protective, exit or hedge order exists for an intent whose own entry was never
\* sent, whichever order's events drove the state machine there.
OrdersFollowEntry ==
    \A o \in Orders : orders[o].status # "none" => orders[Parent(o)].status # "none"

\* Over its whole life, across all trades, a strategy sends one delta hedge at most
\* (reference.py _hedge_submitted), however often the greeks breach the band.
AtMostOneHedge ==
    \A i, j \in Intents :
        orders[<<i, "hedge">>].status # "none" /\ orders[<<j, "hedge">>].status # "none" => i = j

Unsent(i, role) == orders[<<i, role>>].status = "none"

\* Every order is sent in its turn, and its turn comes once: none before its intent is
\* built and answered, the entry before the trade, the exit only to leave it, the
\* hedge only with its latch set.
SentInTurn ==
    /\ \A i \in Intents, role \in Roles :
          i > built \/ i = pendingIntent => Unsent(i, role)
    /\ InTrade => ~ Unsent(activeIntent, "entry")
    /\ state \in {"PendingEntry", "InPosition"} => Unsent(activeIntent, "exit")
    /\ ~ hedgeSubmitted => \A i \in Intents : Unsent(i, "hedge")

\* The intent a fill of this order is booked to, in the journal and by the learning
\* module: the active one, whichever order it is of; NoIntent is for "no record".
Attributed(order) == activeIntent

\* A fill is never booked to a trade that began before its order's own.  (It may well be
\* booked to a later one: a leg of the bracket that fills in the next trade is, and
\* counts there with that trade's entry mid and edge.)
FillsBookedForward ==
    \A o \in Orders : AtVenue(o) => Attributed(o) = NoIntent \/ Attributed(o) >= o[1]

\* However the exit races the take-profit and stop-loss legs, and however little of an
\* entry has traded, the venue never holds the strategy short by more than one exit
\* order: over all its trades it sends one (reference.py _exit_submitted), and the legs
\* only reduce.  It rests on the latch that StateDiagram finds fault with: to reset it
\* after a trade, without ending the bracket, would let the shorts add up.
ShortByOneExitAtMost == position >= 0 - OrderQty

\* The inductive invariant.
IInv ==
    /\ TypeOK
    /\ PositionManageable
    /\ AwaitingExactlyPending
    /\ OrdersFollowEntry
    /\ AtMostOneHedge
    /\ SentInTurn

\* An order goes to the venue once: no handler, at any later time, sends the same
\* entry, exit or hedge of an intent again.
NoOrderSentTwice ==
    [][\A o \in Orders : orders[o].status \notin {"none", "held"}
                            => orders'[o].status # "held" /\ orders'[o].open <= orders[o].open]_vars

EntrySentNow == \E i \in Intents : /\ orders[<<i, "entry">>].status = "none"
                                   /\ orders'[<<i, "entry">>].status # "none"

\* Without a selector, an entry leaves only when the last message of the SessionActor
\* allowed entries and the last tag of the RegimeActor is not a blocked one.
DirectEntryGated ==
    [][EntrySentNow /\ ~ profile.selector
           => sessionAllows /\ ~ flattenSignal /\ regimeTag \notin BlockedRegimes]_vars

(* The strategy implements TradeLifecycle: how far each intent has come.    *)
StageOfState == [PendingEntry |-> "entering", InPosition |-> "open", Exiting |-> "closing"]

Stage(i) ==
    IF i > built THEN "unbuilt"
    ELSE IF i = pendingIntent THEN "proposed"
    ELSE IF i = activeIntent /\ state \in DOMAIN StageOfState THEN StageOfState[state]
    ELSE "over"

Lifecycle == INSTANCE TradeLifecycle WITH stage <- [i \in Intents |-> Stage(i)]

\* The strategy works on one intent at a time and never returns to one that is over.
ImplementsLifecycle == Lifecycle!Spec
=============================================================================
