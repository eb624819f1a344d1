--------------------------- MODULE GatedSkeleton ---------------------------
(***************************************************************************)
(* strategies/gated_skeleton.py with the RegimeActor and the SessionActor: *)
(* a strategy that sends no orders and evaluates the gates once, as soon   *)
(* as it has a session phase, a regime tag and a quote.                    *)
(*                                                                         *)
(* One quote of the underlying goes to three subscribers.  Each handler is *)
(* a step; the two actors publish from theirs, and the handler of the      *)
(* strategy for that message is part of the step.  The order in which the  *)
(* bus calls the three is left open.                                       *)
(***************************************************************************)
EXTENDS RegimeTags, Gates

CONSTANTS
    Mids,         \* the prices a quote may have
    WindowSize,   \* how many prices the RegimeActor keeps
    MaxQuotes     \* bound: quotes in a run

ASSUME GatedSkeletonAssumption ==
    /\ Mids \subseteq Nat \ {0}
    /\ WindowSize \in Nat \ {0} /\ MaxQuotes \in Nat

Subscribers == {"SessionActor", "RegimeActor", "GatedSkeletonStrategy"}
None == "none"

VARIABLES
    requireChain,     \* config.require_chain_snapshot
    toCall,           \* the subscribers that the last quote has not reached yet
    allowed,          \* what the clock says of entries when that quote comes
    prices,           \* RegimeActor._prices
    openPrice,        \* RegimeActor._open_price, 0 for None
    lastTag,          \* RegimeActor._last_tag
    sessionAllows, sessionReceived, regimeTag, regimeReceived,
    pendingTick,      \* self._pending_tick is not None
    evaluated,
    report,           \* what the evaluation wrote to the journal
    heard,            \* history: the prices of all quotes
    firstAllowed      \* history: allowed, at the first quote

regimeActor == <<prices, openPrice, lastTag>>
context     == <<sessionAllows, sessionReceived, regimeTag, regimeReceived, pendingTick>>
verdict     == <<evaluated, report>>
history     == <<heard, firstAllowed>>
vars        == <<requireChain, toCall, allowed, regimeActor, context, verdict, history>>

Init ==
    /\ requireChain \in BOOLEAN
    /\ toCall = {} /\ allowed = FALSE
    /\ prices = <<>> /\ openPrice = 0 /\ lastTag = None
    /\ sessionAllows = FALSE /\ sessionReceived = FALSE
    /\ regimeTag = "UNKNOWN" /\ regimeReceived = FALSE
    /\ pendingTick = FALSE
    /\ evaluated = FALSE /\ report = None
    /\ heard = <<>> /\ firstAllowed = FALSE

-----------------------------------------------------------------------------
\* The edge and the liquidity of the intent are never below the limits.
Intent(tag) == [edge |-> 10, liquidity |-> 8, regime |-> tag]

GateContext(allows, tag) ==
    [regime        |-> tag,
     blocked       |-> {"PIN_RISK"},
     sessionAllows |-> allows,
     minEdge       |-> 5,
     minLiquidity  |-> 5,
     tradingActive |-> TRUE,
     quoteFresh    |-> TRUE,
     chainFresh    |-> ~ requireChain,
     requireChain  |-> requireChain,
     lossBreached  |-> FALSE,
     feedHealthy   |-> TRUE]

Report(allows, tag) ==
    LET result == PreGreek(Intent(tag), GateContext(allows, tag))
    IN  IF result.passed THEN "GATES_PASSED" ELSE result.stage

\* Mutant of EvaluateGates: it does not wait for the RegimeActor.
EvaluateEarly ==
    IF evaluated \/ ~ sessionReceived' \/ ~ pendingTick'
    THEN UNCHANGED verdict
    ELSE evaluated' = TRUE /\ report' = Report(sessionAllows', regimeTag')

\* _maybe_evaluate_gates, on the state its caller has just changed.
EvaluateGates ==
    IF evaluated \/ ~ sessionReceived' \/ ~ regimeReceived' \/ ~ pendingTick'
    THEN UNCHANGED verdict
    ELSE evaluated' = TRUE /\ report' = Report(sessionAllows', regimeTag')

-----------------------------------------------------------------------------
QuoteArrives ==
    /\ toCall = {}
    /\ Len(heard) < MaxQuotes
    /\ toCall' = Subscribers
    /\ \E mid \in Mids : heard' = Append(heard, mid)
    /\ allowed' \in BOOLEAN
    /\ firstAllowed' = IF heard = <<>> THEN allowed' ELSE firstAllowed
    /\ UNCHANGED <<requireChain, regimeActor, context, verdict>>

OnSessionPhase(allows) ==
    /\ sessionAllows' = allows
    /\ sessionReceived' = TRUE
    /\ UNCHANGED <<regimeTag, regimeReceived, pendingTick>>
    /\ EvaluateGates

OnRegimeTag(tag) ==
    /\ regimeTag' = tag
    /\ regimeReceived' = TRUE
    /\ UNCHANGED <<sessionAllows, sessionReceived, pendingTick>>
    /\ EvaluateGates

Called(subscriber) == subscriber \in toCall /\ toCall' = toCall \ {subscriber}

SessionActorOnQuoteTick ==
    /\ Called("SessionActor")
    /\ OnSessionPhase(allowed)
    /\ UNCHANGED <<requireChain, allowed, regimeActor, history>>

\* Mutant of Pushed: the window never loses a price.
PushedForever(window, mid) == Append(window, mid)

\* deque(maxlen): the oldest price makes room.
Pushed(window, mid) ==
    LET all == Append(window, mid)
    IN  IF Len(all) > WindowSize THEN Tail(all) ELSE all

\* Only a tag that is not the one before is published.
Publishes(tag) == tag # lastTag

RegimeActorOnQuoteTick ==
    LET mid  == Last(heard)
        open == IF openPrice = 0 THEN mid ELSE openPrice
        tag  == ComputeRegimeTag(mid, open, Pushed(prices, mid))
    IN  /\ Called("RegimeActor")
        /\ openPrice' = open
        /\ prices' = Pushed(prices, mid)
        /\ lastTag' = tag
        /\ IF Publishes(tag) THEN OnRegimeTag(tag) ELSE UNCHANGED <<context, verdict>>
        /\ UNCHANGED <<requireChain, allowed, history>>

StrategyOnQuoteTick ==
    /\ Called("GatedSkeletonStrategy")
    /\ pendingTick' = TRUE
    /\ UNCHANGED <<requireChain, allowed, regimeActor, sessionAllows, sessionReceived,
                   regimeTag, regimeReceived, history>>
    /\ EvaluateGates

Next ==
    \/ QuoteArrives
    \/ SessionActorOnQuoteTick
    \/ RegimeActorOnQuoteTick
    \/ StrategyOnQuoteTick

Spec == Init /\ [][Next]_vars

-----------------------------------------------------------------------------
(* Properties.                                                              *)

\* Between two quotes everybody has been called.
Quiet == toCall = {} /\ heard # <<>>

\* The last WindowSize prices.
Window(all) == SubSeq(all, IF Len(all) > WindowSize THEN Len(all) - WindowSize + 1 ELSE 1, Len(all))

\* The tag of a run of prices, from its whole length.
TagOf(all) == ComputeRegimeTag(Last(all), Head(all), Window(all))

\* A strategy hears only of tags that change and yet knows the tag of the last quote,
\* that of the last WindowSize prices against the first price of the run: no change is
\* lost, whichever way the tags go (regime.py on_quote_tick).
KnownTagIsCurrent == Quiet => regimeReceived /\ regimeTag = TagOf(heard)

\* The skeleton evaluates the first quote, with the phase and the tag of that quote, in
\* whichever order the bus calls the three subscribers, and nothing that comes later
\* changes its report.
FirstQuoteIsJudged ==
    Quiet => evaluated /\ report = Report(firstAllowed, TagOf(<<Head(heard)>>))

\* The distance to a strike is measured against the price: from the price where half a
\* strike is within the proximity, every quote that is no trend and no chop
\* is PIN_RISK, which is blocked by default.
HighPricesArePinned ==
    Quiet /\ 2 * PinProximity * Last(heard) >= 1000 * StrikeStep => regimeTag # "UNKNOWN"
=============================================================================
