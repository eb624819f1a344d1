---------------------------- MODULE SessionGate ----------------------------
(***************************************************************************)
(* Time, the SessionActor and the freshness of what a strategy evaluates.  *)
(*                                                                         *)
(* The SessionActor has no timer: it publishes the phase when a quote of   *)
(* the underlying comes in, and at no other time.  A strategy evaluates an *)
(* option chain, or in the plumbing profile a quote, against the phase it  *)
(* heard last; what keeps that phase from being old is the gate on the age *)
(* of the last quote.  _last_quote_ts is set by every quote the strategy   *)
(* is subscribed to: the underlying, a hedge perpetual, and after its      *)
(* first fill the spread.                                                  *)
(*                                                                         *)
(* An underlying quote reaches the SessionActor before the strategies: the *)
(* actors start, and subscribe, first.  One unit of time is thirty seconds.*)
(***************************************************************************)
EXTENDS Gates

CONSTANTS
    Minute,        \* units of time in a minute
    Day,           \* units of time in a day
    Close,         \* market_close_utc, in units since midnight
    Blackout,      \* blackout_minutes_before_close
    MaxQuoteAge,   \* max_underlying_quote_age_secs
    MaxChainAge,   \* max_chain_snapshot_age_secs plus the snapshot interval
    AgeCap,        \* bound: ages are not told apart beyond it; the age of what never came
    Horizon        \* bound: the last instant that is looked at

ASSUME SessionGateAssumption ==
    /\ Minute \in Nat \ {0} /\ Day \in Nat \ {0} /\ Close \in 0 .. (Day - 1)
    /\ Blackout \in Nat /\ Horizon \in Nat
    /\ MaxQuoteAge \in Nat /\ MaxChainAge \in Nat
    /\ AgeCap \in Nat /\ AgeCap > MaxQuoteAge /\ AgeCap > MaxChainAge

VARIABLES
    plumbing,         \* config.backtest_plumbing
    otherFeeds,       \* the strategy is subscribed to quotes of other instruments
    now,              \* units since the midnight the run starts after
    sessionAllows,    \* self._session_allows_entry
    sessionReceived,  \* self._session_received
    quoteAge,         \* age of self._last_quote_ts
    chainAge,         \* age of self._last_chain_ts
    underlyingAge,    \* history: age of the last quote of the underlying
    outcome           \* the gate that stopped this step's evaluation, or "PASSED";
                      \* "none" after a step that evaluates nothing

config == <<plumbing, otherFeeds>>
vars   == <<config, now, sessionAllows, sessionReceived, quoteAge, chainAge,
            underlyingAge, outcome>>

-----------------------------------------------------------------------------
(* SessionActor.                                                            *)

\* Whole minutes, rounded down; zero from the close to midnight.
MinutesToClose(t) ==
    LET clock == t % Day
    IN  IF clock >= Close THEN 0 ELSE (Close - clock) \div Minute

\* Mutant of AllowsEntry: the first minute of the blackout counts as outside it.
AllowsEntryAtBlackout(t) == MinutesToClose(t) >= Blackout

AllowsEntry(t) == MinutesToClose(t) > Blackout

-----------------------------------------------------------------------------
(* The evaluation of a strategy, _begin_evaluation and _run_gate_pipeline.  *)

MinEdge == 5
MinLiquidity == 5
DeltaPolicy == [delta |-> 1, gamma |-> 1, vega |-> 1]

Fresh(age, limit) == age <= limit

\* _build_gate_context leaves trading state, loss and feed health at their defaults.
GateContext(allows, qAge, cAge, regime) ==
    [regime        |-> regime,
     blocked       |-> {"PIN_RISK"},
     sessionAllows |-> allows,
     minEdge       |-> MinEdge,
     minLiquidity  |-> MinLiquidity,
     tradingActive |-> TRUE,
     quoteFresh    |-> Fresh(qAge, MaxQuoteAge),
     chainFresh    |-> plumbing \/ Fresh(cAge, MaxChainAge),
     requireChain  |-> TRUE,
     lossBreached  |-> FALSE,
     feedHealthy   |-> TRUE]

\* The market may be on either side of each of its gates; an intent carries the tag
\* the strategy knows.
Markets == [edge : {MinEdge - 1, MinEdge}, liquidity : {MinLiquidity - 1, MinLiquidity},
            regime : {"CHOP", "PIN_RISK"}]
Portfolios == {[delta |-> d, gamma |-> 0, vega |-> 0] : d \in {-2, 0, 1}}

Outcome(allows, qAge, cAge, market, portfolio) ==
    LET pre == PreGreek(market, GateContext(allows, qAge, cAge, market.regime))
    IN  IF ~ pre.passed THEN pre.stage
        ELSE IF GreekBreaches(DeltaPolicy, portfolio) # {} THEN "GREEK"
        ELSE "PASSED"

\* Mutant of Evaluates: the return before the actors are ready comes after EVALUATING.
EvaluatesTooEarly(received, allows, qAge, cAge) ==
    IF received
    THEN \E market \in Markets, portfolio \in Portfolios :
            outcome' = Outcome(allows, qAge, cAge, market, portfolio)
    ELSE outcome' = "EVALUATING"

Evaluates(received, allows, qAge, cAge) ==
    IF received
    THEN \E market \in Markets, portfolio \in Portfolios :
            outcome' = Outcome(allows, qAge, cAge, market, portfolio)
    ELSE outcome' = "none"

-----------------------------------------------------------------------------
(* What arrives: delay is the time from ts_event to the handler.            *)

Init ==
    /\ plumbing \in BOOLEAN /\ otherFeeds \in BOOLEAN
    /\ now = 0
    /\ sessionAllows = FALSE /\ sessionReceived = FALSE
    /\ quoteAge = AgeCap /\ chainAge = AgeCap /\ underlyingAge = AgeCap
    /\ outcome = "none"

\* SessionActor.on_quote_tick publishes, then the strategy gets the same quote.
UnderlyingQuote(delay) ==
    /\ sessionAllows' = AllowsEntry(now)
    /\ sessionReceived' = TRUE
    /\ quoteAge' = delay
    /\ underlyingAge' = delay
    /\ IF plumbing
       THEN Evaluates(TRUE, AllowsEntry(now), delay, chainAge)
       ELSE outcome' = "none"
    /\ UNCHANGED <<config, now, chainAge>>

OtherQuote(delay) ==
    /\ otherFeeds
    /\ quoteAge' = delay
    /\ IF plumbing
       THEN Evaluates(sessionReceived, sessionAllows, delay, chainAge)
       ELSE outcome' = "none"
    /\ UNCHANGED <<config, now, sessionAllows, sessionReceived, chainAge, underlyingAge>>

OptionChain(delay) ==
    /\ ~ plumbing
    /\ chainAge' = delay
    /\ Evaluates(sessionReceived, sessionAllows, quoteAge, delay)
    /\ UNCHANGED <<config, now, sessionAllows, sessionReceived, quoteAge, underlyingAge>>

Older(age) == IF age < AgeCap THEN age + 1 ELSE AgeCap

TimePasses ==
    /\ now < Horizon
    /\ now' = now + 1
    /\ quoteAge' = Older(quoteAge)
    /\ chainAge' = Older(chainAge)
    /\ underlyingAge' = Older(underlyingAge)
    /\ outcome' = "none"
    /\ UNCHANGED <<config, sessionAllows, sessionReceived>>

Next ==
    \/ TimePasses
    \/ \E delay \in 0 .. AgeCap :
          UnderlyingQuote(delay) \/ OtherQuote(delay) \/ OptionChain(delay)

Spec == Init /\ [][Next]_vars

-----------------------------------------------------------------------------
(* Properties.                                                              *)

\* Every variable holds a value of its kind.
TypeOK ==
    /\ plumbing \in BOOLEAN /\ otherFeeds \in BOOLEAN
    /\ now \in 0 .. Horizon
    /\ sessionAllows \in BOOLEAN /\ sessionReceived \in BOOLEAN
    /\ quoteAge \in 0 .. AgeCap /\ chainAge \in 0 .. AgeCap /\ underlyingAge \in 0 .. AgeCap
    /\ outcome \in {"none", "PASSED", "GREEK", "EDGE", "LIQUIDITY", "REGIME", "SESSION",
                    "OPERATIONAL"}

\* More than the minutes of the blackout are left of the session, to the unit of time.
OutsideBlackout(t) == Close - (t % Day) > Blackout * Minute

\* What is known of the underlying when an evaluation passes is recent, and so is the
\* phase the entry relies on: the blackout, which is a matter of units of time and not of
\* whole minutes, may be missed by the quote age the gate allows and no more, although
\* nothing but a quote of the underlying tells a strategy that time has passed.  It
\* holds while the underlying is the only feed.
BlackoutLagBounded ==
    outcome = "PASSED" /\ ~ otherFeeds =>
        \E t \in 0 .. now : t >= now - MaxQuoteAge /\ OutsideBlackout(t)

\* "Underlying quote freshness | underlying_quote_fresh | Must be True (< 30s configurable)"
\* (docs/implementation/gate-boundary.md:40): an evaluation that passes had a quote of the
\* underlying that was fresh.  A quote of the hedge perpetual, or of a spread traded
\* before, resets the same timestamp (base.py on_quote_tick).
UnderlyingFresh == outcome = "PASSED" => underlyingAge <= MaxQuoteAge
=============================================================================
