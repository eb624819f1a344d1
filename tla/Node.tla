-------------------------------- MODULE Node --------------------------------
(***************************************************************************)
(* One command of the operator, from the profile to the parts that run:    *)
(* cli/main.py loads the configuration, node/factory.py builds the node    *)
(* from it, the trading engine starts the actors and the strategies, and   *)
(* each subscribes to what it needs.                                       *)
(***************************************************************************)
EXTENDS Configuration

CONSTANTS
    Commands,   \* what the operator may call: see CommandsAssumption
    Profiles,   \* the documents of the profiles; Empty is a path with no file
    Environs,   \* the environments a process may start in
    Catalogs,   \* what a backtest may replay: [ticks, greeks]
    SymbolOf    \* underlying_symbol_from_id, on the underlyings there are

ASSUME CommandsAssumption ==
    \A command \in Commands : /\ command.name \in {"backtest", "paper"}
                              /\ command.dry_run \in BOOLEAN
                              /\ command.streaming \in BOOLEAN

\* The list of strategies is a list, the budget a number.
ASSUME ProfilesAssumption ==
    \A document \in Profiles :
        /\ "strategies" \in DOMAIN document =>
                DOMAIN document["strategies"] = 1 .. Len(document["strategies"])
        /\ "ingestion.max_chain_subscriptions" \in DOMAIN document =>
                document["ingestion.max_chain_subscriptions"] \in Int

\* The symbol of an underlying is a name, and there is one for every underlying
\* a strategy may be given.
ASSUME SymbolAssumption ==
    /\ \A underlying \in DOMAIN SymbolOf : SymbolOf[underlying] # None
    /\ AppDefaults["strategy.underlying"] \in DOMAIN SymbolOf
    /\ \A document \in Profiles \cup {Files[file] : file \in DOMAIN Files} :
        /\ "strategy.underlying" \in DOMAIN document =>
                document["strategy.underlying"] \in DOMAIN SymbolOf
        /\ "strategies" \in DOMAIN document =>
                \A i \in DOMAIN document["strategies"] :
                    document["strategies"][i].underlying \in DOMAIN SymbolOf

\* _apply_env_overrides reads these variables and no other.
ASSUME EnvironsAssumption ==
    \A environment \in Environs :
        DOMAIN environment.vars \subseteq {"dry_run", "deribit.testnet", "ib.host"}

VARIABLES
    command, profile, environ, catalog,   \* what the process was started with
    phase,     \* how far the command is
    config,    \* AppConfig, or None
    node,      \* what was built: [actors, strategies, clients, data, fees], or None
    journal,   \* the lifecycle entries of the node
    started,   \* how many of the actors, then of the strategies, have started
    heard,     \* the topics of the bus somebody subscribed to
    feeds,     \* per strategy, the market data it subscribed to
    plan       \* the published subscription plan, or None

inputs == <<command, profile, environ, catalog>>
vars   == <<inputs, phase, config, node, journal, started, heard, feeds, plan>>

----------------------------------------------------------------------------
(* What the factory makes of a configuration. *)

\* Mutant of ActorConfigs: the selector is wired by the switch alone.
ActorConfigsBySwitch(cfg) ==
    <<"session", "regime">>
        \o (IF cfg["diversification.enabled"] THEN <<"selector">> ELSE <<>>)
        \o (IF cfg["ingestion.enabled"] THEN <<"planner">> ELSE <<>>)

\* _actor_configs: the first two always, in this order.
ActorConfigs(cfg) ==
    <<"session", "regime">>
        \o (IF selector_enabled(cfg) THEN <<"selector">> ELSE <<>>)
        \o (IF cfg["ingestion.enabled"] THEN <<"planner">> ELSE <<>>)

\* A class nobody knows becomes the one that only evaluates gates.
ClassOf(runtime) ==
    IF runtime.strategy_class \in {"skeleton", "gated_skeleton", "reference"}
    THEN runtime.strategy_class ELSE "gated_skeleton"

\* option_series_id is always there: the symbol of the underlying stands in.
resolved_option_series_id(block, underlying) ==
    IF block.option_series_id # None THEN block.option_series_id ELSE SymbolOf[underlying]

\* _strategy_config: only the reference strategy is told of selector and dry run.
StrategyConfig(cfg, runtime) ==
    LET block     == ReferenceOf(cfg, runtime)
        reference == ClassOf(runtime) = "reference"
    IN  [class            |-> ClassOf(runtime),
         underlying       |-> runtime.underlying,
         selector_enabled |-> reference /\ selector_enabled(cfg),
         dry_run          |-> reference /\ cfg["dry_run"],
         fees             |-> cfg["fees.model"],
         adapter          |-> cfg["venue.adapter"],
         series           |-> resolved_option_series_id(block, runtime.underlying),
         reference        |-> block]

StrategyConfigs(cfg) ==
    [i \in DOMAIN resolved_strategies(cfg) |-> StrategyConfig(cfg, resolved_strategies(cfg)[i])]

\* The strategy's structure selector by name, or None for a name nobody knows.
SelectorName(strategy) ==
    LET name == IF strategy.reference.structure_selector = "auto"
                THEN strategy.adapter ELSE Upper(strategy.reference.structure_selector)
    IN  IF name \in {"DERIBIT", "IB"} THEN name ELSE None

Selects(strategy) ==
    strategy.class = "reference" /\ ~strategy.reference.backtest_plumbing

\* Mutant of ConstructorRaises: nothing is required.
NeverRaises(strategy) == FALSE

\* The constructor of the reference strategy refuses to select without an expiry.
ConstructorRaises(strategy) ==
    Selects(strategy) /\ strategy.reference.option_series_expiry = None

\* _backtest_fee_model: None unless the schedule is of the kind of the venue.
BacktestFeeModel(cfg) ==
    IF cfg["reference.backtest_plumbing"] THEN None
    ELSE IF <<cfg["venue.adapter"], cfg["fees.model"]>>
                \in {<<"DERIBIT", "maker_taker">>, <<"IB", "fixed_per_contract">>}
         THEN cfg["fees.model"] ELSE None

\* _backtest_data_configs: the quotes of the primary underlying, or of all.
BacktestData(cfg) ==
    IF /\ resolved_strategies(cfg)[1].strategy_class = "reference"
       /\ ~cfg["reference.backtest_plumbing"]
       /\ catalog.greeks
    THEN "chains" ELSE "underlying"

Credentials(cfg) == environ.named \/ (cfg["deribit.testnet"] /\ environ.testnet)

\* build_deribit_wiring and build_ib_wiring, where they do not raise.
Clients(cfg) ==
    CASE cfg["venue.adapter"] = "DERIBIT" -> {"data", "exec"}
      [] cfg["venue.adapter"] = "IB" ->
            IF ~cfg["dry_run"] /\ environ.ibapi /\ "ib.host" \in DOMAIN environ.vars
            THEN {"data", "exec"} ELSE {}

WiringRaises(cfg) ==
    cfg["venue.adapter"] = "DERIBIT" /\ ~cfg["dry_run"] /\ ~Credentials(cfg)

\* plan_subscriptions: the underlying, the hedge, the chain; the budget cuts
\* the tail.  A hedge on the underlying is listed a second time.
PlanSubscriptions(underlying, series, hedge, budget) ==
    LET specs == <<<<"quotes", underlying>>>>
                    \o (IF hedge # None THEN <<<<"quotes", hedge>>>> ELSE <<>>)
                    \o (IF series # None THEN <<<<"chain", series>>>> ELSE <<>>)
    IN  SubSeq(specs, 1, IF budget < Len(specs) THEN budget ELSE Len(specs))

\* Mutant of Plan: the planner is told of the shared block.
PlanOfShared(cfg) ==
    LET primary == resolved_strategies(cfg)[1]
        block   == SharedReference(cfg)
    IN  PlanSubscriptions(primary.underlying, resolved_option_series_id(block, primary.underlying),
                          block.hedge_perp_instrument, cfg["ingestion.max_chain_subscriptions"])

\* The planner is told of the primary strategy, with the block it uses.
Plan(cfg) ==
    LET primary == resolved_strategies(cfg)[1]
        block   == ReferenceOf(cfg, primary)
    IN  PlanSubscriptions(primary.underlying, resolved_option_series_id(block, primary.underlying),
                          block.hedge_perp_instrument, cfg["ingestion.max_chain_subscriptions"])

\* _subscribe_market_data of each class, called as the strategy starts.
Subscribed(strategy) ==
    CASE strategy.class = "skeleton" -> {}
      [] strategy.class = "gated_skeleton" -> {<<"quotes", strategy.underlying>>}
      [] strategy.class = "reference" ->
            {<<"quotes", strategy.underlying>>}
                \cup {<<"quotes", hedge>> :
                        hedge \in {strategy.reference.hedge_perp_instrument} \ {None}}
                \cup {<<"chain", strategy.series>> :
                        name \in IF Selects(strategy) THEN {SelectorName(strategy)} \ {None} ELSE {}}

\* Whether the strategy can get into a position: it finds structures and sends
\* their orders.
Trades(strategy) ==
    Selects(strategy) /\ SelectorName(strategy) # None /\ ~strategy.dry_run

\* What a strategy in a position adds: the spread's quotes and each leg's greeks.
PositionFeeds == {<<"quotes", "position">>, <<"greeks", "legs">>}

\* The topics a started part subscribed to on the bus.
ActorHears(actor) == IF actor = "selector" THEN {"intent"} ELSE {}
StrategyHears(strategy) ==
    (IF strategy.class = "skeleton" THEN {} ELSE {"session", "regime"})
        \cup (IF strategy.selector_enabled THEN {"approved", "rejected"} ELSE {})

----------------------------------------------------------------------------
(* The command. *)

Init ==
    /\ command \in Commands /\ profile \in Profiles
    /\ environ \in Environs /\ catalog \in Catalogs
    /\ phase = "called" /\ config = None /\ node = None
    /\ journal = <<>> /\ started = 0
    /\ heard = {} /\ feeds = <<>> /\ plan = None

\* load_config(config).
LoadConfig ==
    /\ phase = "called"
    /\ LET merged == Load(profile, environ.vars)
       IN  IF Validates(merged)
           THEN phase' = "loaded" /\ config' = Validated(merged)
           ELSE phase' = "failed" /\ UNCHANGED config
    /\ UNCHANGED <<inputs, node, journal, started, heard, feeds, plan>>

\* Mutant of Flags: the environment has the last word over them.
FlagsUnderEnviron ==
    [leaf \in {l \in {"dry_run", "streaming.enabled"} \ DOMAIN environ.vars :
                        \/ l = "dry_run" /\ command.dry_run
                        \/ l = "streaming.enabled" /\ command.streaming} |-> TRUE]

\* What the flags of the command line change in a configuration.
Flags == [leaf \in {l \in {"dry_run", "streaming.enabled"} :
                        \/ l = "dry_run" /\ command.dry_run
                        \/ l = "streaming.enabled" /\ command.streaming} |-> TRUE]

\* The flags on the command line, and the entry NODE_START, before anything
\* is built.
RecordStart ==
    /\ phase = "loaded"
    /\ config' = Merge(config, Flags)
    /\ journal' = Append(journal, "NODE_START")
    /\ phase' = "recorded"
    /\ UNCHANGED <<inputs, node, started, heard, feeds, plan>>

Built(clients, data, fees) ==
    [actors     |-> ActorConfigs(config),
     strategies |-> StrategyConfigs(config),
     clients    |-> clients,
     data       |-> data,
     fees       |-> fees]

\* build_backtest_node: raises when the primary underlying has no ticks.
\* The engine and its strategies are built when the node runs.
BuildBacktestNode ==
    /\ phase = "recorded" /\ command.name = "backtest"
    /\ IF resolved_strategies(config)[1].underlying \in catalog.ticks
       THEN /\ phase' = "built"
            /\ node' = Built({}, BacktestData(config), BacktestFeeModel(config))
       ELSE phase' = "failed" /\ UNCHANGED node
    /\ UNCHANGED <<inputs, config, journal, started, heard, feeds, plan>>

\* build_trading_node: the clients first, then the node, whose kernel
\* constructs the strategies.
BuildTradingNode ==
    /\ phase = "recorded" /\ command.name = "paper"
    /\ IF WiringRaises(config) \/ \E i \in DOMAIN StrategyConfigs(config) :
                                        ConstructorRaises(StrategyConfigs(config)[i])
       THEN phase' = "failed" /\ UNCHANGED node
       ELSE phase' = "built" /\ node' = Built(Clients(config), None, None)
    /\ UNCHANGED <<inputs, config, journal, started, heard, feeds, plan>>

\* A dry run of the live node ends here.
DryRunStop ==
    /\ phase = "built" /\ command.name = "paper" /\ config["dry_run"]
    /\ journal' = Append(journal, "NODE_STOP")
    /\ phase' = "stopped"
    /\ UNCHANGED <<inputs, config, node, started, heard, feeds, plan>>

\* node.run(): a backtest constructs its strategies now; what it raises
\* passes the finally that records the stop.
Run ==
    /\ phase = "built"
    /\ command.name = "paper" => ~config["dry_run"]
    /\ IF \E i \in DOMAIN node.strategies : ConstructorRaises(node.strategies[i])
       THEN phase' = "failed" /\ journal' = Append(journal, "NODE_STOP")
       ELSE phase' = "running" /\ UNCHANGED journal
    /\ feeds' = [i \in DOMAIN node.strategies |-> {}]
    /\ UNCHANGED <<inputs, config, node, started, heard, plan>>

Parts == Len(node.actors) + Len(node.strategies)

\* The trader of the engine starts the actors first, in the order of the node.
StartActor ==
    /\ phase = "running" /\ started < Len(node.actors)
    /\ started' = started + 1
    /\ LET actor == node.actors[started + 1]
       IN  /\ heard' = heard \cup ActorHears(actor)
           /\ plan' = IF actor = "planner" THEN Plan(config) ELSE plan
    /\ UNCHANGED <<inputs, phase, config, node, journal, feeds>>

StartStrategy ==
    /\ phase = "running" /\ started >= Len(node.actors) /\ started < Parts
    /\ started' = started + 1
    /\ LET i == started + 1 - Len(node.actors)
       IN  /\ heard' = heard \cup StrategyHears(node.strategies[i])
           /\ feeds' = [feeds EXCEPT ![i] = Subscribed(node.strategies[i])]
    /\ UNCHANGED <<inputs, phase, config, node, journal, plan>>

\* A fill opens the position of a strategy, which subscribes to what it holds.
OnEntryFilled ==
    /\ phase = "running" /\ started = Parts
    /\ \E i \in DOMAIN node.strategies :
          /\ Trades(node.strategies[i])
          /\ feeds' = [feeds EXCEPT ![i] = @ \cup PositionFeeds]
    /\ UNCHANGED <<inputs, phase, config, node, journal, started, heard, plan>>

\* The run ends; the finally records it.
Stop ==
    /\ phase = "running" /\ started = Parts
    /\ journal' = Append(journal, "NODE_STOP")
    /\ phase' = "stopped"
    /\ UNCHANGED <<inputs, config, node, started, heard, feeds, plan>>

Next == \/ LoadConfig \/ RecordStart \/ BuildBacktestNode \/ BuildTradingNode
        \/ DryRunStop \/ Run \/ StartActor \/ StartStrategy
        \/ OnEntryFilled \/ Stop

Spec == Init /\ [][Next]_vars

----------------------------------------------------------------------------
(* Properties. *)

\* The strategies that have started.
Started == IF node = None THEN {}
           ELSE {i \in DOMAIN node.strategies : started >= Len(node.actors) + i}

\* Every leaf of the loaded configuration has the value of the layer with
\* the say over it: the environment, the profile, the session overlay of the
\* venue, streaming, the caps when strategies compete, the fee overlay of the
\* venue, and below them what comes before the profile.  Which overlays count
\* is decided by what the profile says, not by another overlay (loader.py).
LayerPrecedence ==
    phase = "loaded" =>
        \A leaf \in Leaves : config[leaf] = Winning(profile, environ.vars, leaf)

\* --dry-run on the command line holds whatever DRY_RUN or the profile say: no
\* live node runs, and every reference strategy of a backtest was told.
DryRunHonoured ==
    command.dry_run /\ node # None =>
        /\ phase = "running" => command.name = "backtest"
        /\ \A i \in DOMAIN node.strategies :
                node.strategies[i].class = "reference" => node.strategies[i].dry_run

\* A strategy that starts with the selector between it and its orders finds
\* somebody listening for its intents: without, it would wait for ever.
SelectorHearsIntents ==
    \A i \in Started : node.strategies[i].selector_enabled => "intent" \in heard

\* With the default budget, the plan the planner publishes lists every feed the
\* primary strategy subscribes to as it starts, from its own block or the shared
\* one.  The feeds of an open position are in no plan (ingestion/planner.py),
\* although docs/design/ingestion-tiers.md has a tier for them.
PlanCoversStart ==
    plan # None /\ config["ingestion.max_chain_subscriptions"] >= 3 /\ 1 \in Started
        => feeds[1] \ PositionFeeds \subseteq {plan[k] : k \in DOMAIN plan}

\* "single source for edge gate and BacktestVenueConfig FeeModel"
\* (config/schema.py): a backtest of a profile that leaves the fees to the
\* overlays charges by the model the strategies deduct from their edge.
FeesCharged ==
    /\ node # None /\ command.name = "backtest"
    /\ {"fees.model", "fees_overlay"} \cap DOMAIN profile = {}
    /\ ~config["reference.backtest_plumbing"]
    => \A i \in DOMAIN node.strategies : node.fees = node.strategies[i].fees

\* Whether the profile itself states the expiry strategy i trades.
ExpiryStated(i) ==
    \/ "reference.option_series_expiry" \in DOMAIN profile
    \/ /\ "strategy.reference" \in DOMAIN profile
       /\ profile["strategy.reference"] # None
       /\ profile["strategy.reference"].option_series_expiry # None
    \/ /\ "strategies" \in DOMAIN profile
       /\ profile["strategies"][i].reference # None
       /\ profile["strategies"][i].reference.option_series_expiry # None

\* No strategy that selects structures starts on an expiry its profile does
\* not state, and no live node runs on Deribit without credentials: a path
\* with no file, a block of its own without the expiry, or a DRY_RUN that
\* switches the dry run off, end in an error (reference.py, deribit.py).
FailsClosed ==
    /\ \A i \in Started : Selects(node.strategies[i]) => ExpiryStated(i)
    /\ phase = "running" /\ command.name = "paper" /\ config["venue.adapter"] = "DERIBIT"
            => Credentials(config)
=============================================================================
