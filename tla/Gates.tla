------------------------------- MODULE Gates -------------------------------
(***************************************************************************)
(* gates/evaluator.py and models/risk.py: the pure gates an intent passes  *)
(* one after the other.  A gate is the set of the rules it finds breached; *)
(* the first gate with a breach decides, and its rules are reported.       *)
(* Scores, edges and greeks are integers compared as the code compares     *)
(* floats.                                                                 *)
(***************************************************************************)
EXTENDS Integers, Sequences

Stages == <<"EDGE", "LIQUIDITY", "REGIME", "SESSION", "OPERATIONAL">>

Rule(breached, name) == IF breached THEN {name} ELSE {}

\* The tag of the market is looked at first, and only one tag is reported.
RegimeBreaches(intent, ctx) ==
    IF ctx.regime \in ctx.blocked
    THEN {"blocked_regime"}
    ELSE Rule(intent.regime \in ctx.blocked, "intent_regime")

\* The operational gate is the only one that reports all that is wrong.
OperationalBreaches(ctx) ==
    Rule(~ ctx.tradingActive, "trading_state_inactive")
        \cup Rule(~ ctx.quoteFresh, "underlying_quote_stale")
        \cup Rule(ctx.requireChain /\ ~ ctx.chainFresh, "chain_snapshot_stale")
        \cup Rule(ctx.lossBreached, "daily_loss_budget")
        \cup Rule(~ ctx.feedHealthy, "feed_unhealthy")

BreachesOf(intent, ctx) ==
    [EDGE        |-> Rule(intent.edge < ctx.minEdge, "min_edge_after_cost_bps"),
     LIQUIDITY   |-> Rule(intent.liquidity < ctx.minLiquidity, "min_liquidity_score"),
     REGIME      |-> RegimeBreaches(intent, ctx),
     SESSION     |-> Rule(~ ctx.sessionAllows, "session_blackout"),
     OPERATIONAL |-> OperationalBreaches(ctx)]

\* evaluate_pre_greek
PreGreek(intent, ctx) ==
    LET breaches == BreachesOf(intent, ctx)
        failed   == {k \in DOMAIN Stages : breaches[Stages[k]] # {}}
        first    == Stages[CHOOSE k \in failed : \A j \in failed : k <= j]
    IN  IF failed = {}
        THEN [passed |-> TRUE,  stage |-> "none", rules |-> {}]
        ELSE [passed |-> FALSE, stage |-> first,  rules |-> breaches[first]]

\* RiskPolicy.check: the greeks of the portfolio under the shocks, the candidate left out.
Greeks == {"delta", "gamma", "vega"}

GreekBreaches(policy, projected) ==
    {g \in Greeks : projected[g] > policy[g] \/ projected[g] < - policy[g]}
=============================================================================
