------------------------------- MODULE MCNode -------------------------------
(* The files of configs/ and small sets of profiles for Node.              *)
EXTENDS Node

MCFiles ==
    <<"configs", "base">> :> ("venue.adapter" :> "IB" @@ "ib.host" :> "127.0.0.1") @@
    <<"strategies", "reference">> :>
        ("strategy.strategy_class" :> "reference" @@ "strategy.underlying" :> "SPY.NYSE" @@
         "reference.backtest_plumbing" :> FALSE) @@
    <<"fees", "deribit_options">> :> ("fees.model" :> "maker_taker") @@
    <<"fees", "ib_options">> :> ("fees.model" :> "fixed_per_contract") @@
    <<"diversification", "default">> :> ("approval.human_edge_bps_threshold" :> "-5000") @@
    <<"streaming", "default">> :> ("streaming.enabled" :> FALSE) @@
    <<"session", "crypto_deribit">> :> ("session.market_close_utc" :> "08:00") @@
    <<"session", "us_equity">> :> ("session.market_close_utc" :> "21:00")

MCSymbolOf == "SPY.NYSE" :> "SPY" @@ "BTC-PERPETUAL.DERIBIT" :> "BTC"

Block(plumbing, selector, series, expiry, hedge) ==
    [backtest_plumbing |-> plumbing, structure_selector |-> selector,
     option_series_id |-> series, option_series_expiry |-> expiry,
     hedge_perp_instrument |-> hedge]

Btc(class, block) ==
    [strategy_class |-> class, underlying |-> "BTC-PERPETUAL.DERIBIT", reference |-> block]

Venues == {Empty} \cup {"venue.adapter" :> adapter : adapter \in {"IB", "DERIBIT", "deribit"}}

Sessions == {Empty, "session.market_close_utc" :> "15:00"}
                \cup {"session_overlay" :> name : name \in {"crypto_deribit", "missing"}}

Fees == {Empty, "fees.model" :> "maker_taker", "fees_overlay" :> "ib_options"}

Switches == {Empty, "dry_run" :> TRUE,
             "diversification.enabled" :> TRUE @@ "approval.human_edge_bps_threshold" :> "10",
             "strategies" :> <<Btc("gated_skeleton", None)>> @@ "streaming.enabled" :> TRUE}

Shared == {Empty,
           "reference.option_series_expiry" :> "today",
           "reference.backtest_plumbing" :> TRUE,
           "reference.option_series_expiry" :> "today" @@ "reference.structure_selector" :> "other"
               @@ "reference.hedge_perp_instrument" :> "ETH-PERPETUAL.DERIBIT"}

Traders == {Empty,
            "strategy.strategy_class" :> "skeleton",
            "strategies" :> <<Btc("reference", Block(FALSE, "deribit", "BTC_USDC", "today",
                                                     "ETH-PERPETUAL.DERIBIT"))>>,
            "strategies" :> <<Btc("reference", Block(FALSE, "auto", None, None, None)),
                              Btc("reference", None)>>,
            "strategies" :> <<Btc("reference", None), Btc("typo", None)>>}

Planned == {"ingestion.enabled" :> TRUE,
            "ingestion.enabled" :> TRUE @@ "ingestion.max_chain_subscriptions" :> 2}

\* What the loader reads, combined freely; then what the factory reads.
MCProfiles ==
    {Merge(Merge(Merge(v, s), f), w) : v \in Venues, s \in Sessions, f \in Fees, w \in Switches}
        \cup
    {Merge(Merge(Merge(v, t), r), p) : v \in Venues, t \in Traders, r \in Shared, p \in Planned}

Environ(variables, named, testnet, ibapi) ==
    [vars |-> variables, named |-> named, testnet |-> testnet, ibapi |-> ibapi]

MCEnvirons == { Environ(Empty, TRUE, FALSE, FALSE),
                Environ("dry_run" :> FALSE, FALSE, FALSE, TRUE),
                Environ("deribit.testnet" :> TRUE, FALSE, TRUE, FALSE),
                Environ("ib.host" :> "gateway" @@ "dry_run" :> TRUE, FALSE, FALSE, TRUE) }

Command(name, dryRun, streaming) ==
    [name |-> name, dry_run |-> dryRun, streaming |-> streaming]

MCCommands == { Command("backtest", FALSE, FALSE), Command("backtest", TRUE, FALSE),
                Command("paper", FALSE, TRUE), Command("paper", TRUE, FALSE) }

MCCatalogs == { [ticks |-> DOMAIN MCSymbolOf, greeks |-> TRUE],
                [ticks |-> {"SPY.NYSE"}, greeks |-> FALSE] }
=============================================================================
