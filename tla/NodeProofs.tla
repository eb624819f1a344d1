----------------------------- MODULE NodeProofs -----------------------------
(* What the proof system says of Configuration and Node, for every content  *)
(* of the files, every profile, environment and catalog.                    *)
EXTENDS Node, TLAPS

----------------------------------------------------------------------------
(* The layers. *)

\* A merged document answers with the overlay where the overlay has a say.
LEMMA SettingOfMerge ==
    ASSUME NEW a, NEW b, NEW leaf, NEW d
    PROVE  Setting(Merge(a, b), leaf, d) =
              IF leaf \in DOMAIN b THEN b[leaf] ELSE Setting(a, leaf, d)
  <1>1. CASE leaf \in DOMAIN b
    BY <1>1 DEF Setting, Merge
  <1>2. CASE leaf \notin DOMAIN b /\ leaf \in DOMAIN a
    BY <1>2 DEF Setting, Merge
  <1>3. CASE leaf \notin DOMAIN b /\ leaf \notin DOMAIN a
    BY <1>3 DEF Setting, Merge
  <1> QED BY <1>1, <1>2, <1>3

\* A setting that is not the default is in the document.
LEMMA SettingPresent ==
    ASSUME NEW a, NEW leaf, NEW d, Setting(a, leaf, d) # d
    PROVE  Setting(a, leaf, d) = a[leaf]
  BY DEF Setting

\* A leaf an overlay leaves alone keeps its setting.
LEMMA SettingKept ==
    ASSUME NEW a, NEW b, NEW leaf, NEW d, leaf \notin DOMAIN b
    PROVE  Setting(Merge(a, b), leaf, d) = Setting(a, leaf, d)
  BY SettingOfMerge

\* The layers up to the profile, merged, say what Stated reads off them.
LEMMA FirstMerge ==
    ASSUME NEW document, NEW leaf, NEW d
    PROVE  Setting(Merge(Under, document), leaf, d) = Stated(document, leaf, d)
  <1>1. Setting(Merge(Under, document), leaf, d) =
            IF leaf \in DOMAIN document THEN document[leaf] ELSE Setting(Under, leaf, d)
    BY SettingOfMerge
  <1>2. Setting(Under, leaf, d) =
            IF leaf \in DOMAIN Document("strategies", "reference")
            THEN Document("strategies", "reference")[leaf]
            ELSE Setting(Merge(Document("configs", "base"), Document("risk", "default")), leaf, d)
    BY SettingOfMerge DEF Under
  <1>3. Setting(Merge(Document("configs", "base"), Document("risk", "default")), leaf, d) =
            IF leaf \in DOMAIN Document("risk", "default")
            THEN Document("risk", "default")[leaf]
            ELSE Setting(Document("configs", "base"), leaf, d)
    BY SettingOfMerge
  <1> QED BY <1>1, <1>2, <1>3 DEF Stated

\* No overlay has a say in which overlays are picked.
LEMMA OverlaysPickNothing ==
    ASSUME NEW leaf \in Picking
    PROVE  /\ \A name : leaf \notin DOMAIN FeeOverlay(name)
           /\ \A condition \in BOOLEAN :
                leaf \notin DOMAIN Overlay(condition, Document("diversification", "default"))
           /\ leaf \notin DOMAIN Document("streaming", "default")
           /\ \A name : leaf \notin DOMAIN Document("session", name)
  <1>1. leaf # "fees.model"
    BY DEF Picking
  <1>2. ASSUME NEW directory \in {"fees", "diversification", "streaming", "session"}, NEW name
        PROVE  leaf \notin DOMAIN Document(directory, name)
    <2>1. CASE <<directory, name>> \in DOMAIN Files
      <3>1. <<directory, name>>[1] = directory
        OBVIOUS
      <3>2. DOMAIN Files[<<directory, name>>] \cap Picking = {}
        BY <2>1, <3>1, FilesAssumption
      <3> QED BY <2>1, <3>2 DEF Document
    <2>2. CASE <<directory, name>> \notin DOMAIN Files
      BY <2>2 DEF Document, Empty
    <2> QED BY <2>1, <2>2
  <1>3. \A name : leaf \notin DOMAIN FeeOverlay(name)
    BY <1>1 DEF FeeOverlay
  <1>4. leaf \notin DOMAIN Empty
    BY DEF Empty
  <1>5. \A condition \in BOOLEAN :
            leaf \notin DOMAIN Overlay(condition, Document("diversification", "default"))
    BY <1>2, <1>4 DEF Overlay
  <1> QED BY <1>2, <1>3, <1>5

\* What the overlays are picked by is what the profile and the layers before
\* it state.
LEMMA OverlaysPicked ==
    ASSUME NEW document
    PROVE  Overlaid(Merge(Under, document)) =
              Merge(Merge(Merge(Merge(Merge(Under, document), FeeOverlay(FeesStated(document))),
                                Overlay(CompetingStated(document),
                                        Document("diversification", "default"))),
                          Document("streaming", "default")),
                    Document("session", SessionStated(document)))
  <1> DEFINE first  == Merge(Under, document)
             fees   == Merge(first, FeeOverlay(FeeOverlayName(first)))
             caps   == Merge(fees, Overlay(Competing(fees),
                                           Document("diversification", "default")))
             stream == Merge(caps, Document("streaming", "default"))
  <1>1. \A leaf, d : Setting(first, leaf, d) = Stated(document, leaf, d)
    BY FirstMerge
  <1>2. Competing(fees) \in BOOLEAN
    BY DEF Competing
  <1>3. \A d : \A leaf \in Picking : Setting(fees, leaf, d) = Stated(document, leaf, d)
    <2> TAKE d
    <2> TAKE leaf \in Picking
    <2>1. leaf \notin DOMAIN FeeOverlay(FeeOverlayName(first))
      BY OverlaysPickNothing
    <2> QED BY <2>1, <1>1, SettingKept
  <1>4. \A d : \A leaf \in Picking : Setting(stream, leaf, d) = Stated(document, leaf, d)
    <2> TAKE d
    <2> TAKE leaf \in Picking
    <2>1. leaf \notin DOMAIN Overlay(Competing(fees), Document("diversification", "default"))
      BY <1>2, OverlaysPickNothing
    <2>2. Setting(caps, leaf, d) = Stated(document, leaf, d)
      BY <2>1, <1>3, SettingKept
    <2>3. leaf \notin DOMAIN Document("streaming", "default")
      BY OverlaysPickNothing
    <2> QED BY <2>2, <2>3, SettingKept
  <1> HIDE DEF first, fees, caps, stream
  <1>5. FeeOverlayName(first) = FeesStated(document)
    <2>1. AdapterOf(first) = Upper(Stated(document, "venue.adapter", "IB"))
      BY <1>1 DEF AdapterOf
    <2>2. Setting(first, "fees_overlay", None) = Stated(document, "fees_overlay", None)
      BY <1>1
    <2>3. Setting(first, "fees_overlay", None) # None
            => first["fees_overlay"] = Stated(document, "fees_overlay", None)
      BY <2>2, SettingPresent
    <2> QED BY <2>1, <2>2, <2>3 DEF FeeOverlayName, FeesStated
  <1>6. Competing(fees) = CompetingStated(document)
    <2>1. "strategies" \in Picking /\ "diversification.enabled" \in Picking
      BY DEF Picking
    <2> QED BY <2>1, <1>3 DEF Competing, CompetingStated
  <1>7. SessionOverlayName(stream) = SessionStated(document)
    <2>1. "venue.adapter" \in Picking /\ "session_overlay" \in Picking
      BY DEF Picking
    <2>2. AdapterOf(stream) = Upper(Stated(document, "venue.adapter", "IB"))
      BY <1>4, <2>1 DEF AdapterOf
    <2>3. Setting(stream, "session_overlay", None) = Stated(document, "session_overlay", None)
      BY <1>4, <2>1
    <2>4. Setting(stream, "session_overlay", None) # None
            => stream["session_overlay"] = Stated(document, "session_overlay", None)
      BY <2>3, SettingPresent
    <2> QED BY <2>2, <2>3, <2>4 DEF SessionOverlayName, SessionStated
  <1>8. Overlaid(first) = Merge(stream, Document("session", SessionOverlayName(stream)))
    BY DEF Overlaid, first, fees, caps, stream
  <1> QED BY <1>5, <1>6, <1>7, <1>8 DEF first, fees, caps, stream

\* load_config gives every leaf the value of the first layer that sets it.
THEOREM Precedence ==
    ASSUME NEW document, NEW variables, NEW leaf \in Leaves
    PROVE  Validated(Load(document, variables))[leaf] = Winning(document, variables, leaf)
  <1> DEFINE d       == AppDefaults[leaf]
             first   == Merge(Under, document)
             fees    == FeeOverlay(FeesStated(document))
             caps    == Overlay(CompetingStated(document),
                                Document("diversification", "default"))
             stream  == Document("streaming", "default")
             session == Document("session", SessionStated(document))
  <1>1. Validated(Load(document, variables))[leaf] = Setting(Load(document, variables), leaf, d)
    BY DEF Validated
  <1>2. Load(document, variables) =
            Merge(Merge(Merge(Merge(Merge(Merge(first, fees), caps), stream), session),
                        document), variables)
    BY OverlaysPicked DEF Load
  <1>3. Setting(first, leaf, d) = Stated(document, leaf, d)
    BY FirstMerge
  <1> HIDE DEF d, first, fees, caps, stream, session
  <1>4. Setting(Merge(first, fees), leaf, d) =
            IF leaf \in DOMAIN fees THEN fees[leaf] ELSE Setting(first, leaf, d)
    BY SettingOfMerge
  <1>5. Setting(Merge(Merge(first, fees), caps), leaf, d) =
            IF leaf \in DOMAIN caps THEN caps[leaf] ELSE Setting(Merge(first, fees), leaf, d)
    BY SettingOfMerge
  <1>6. Setting(Merge(Merge(Merge(first, fees), caps), stream), leaf, d) =
            IF leaf \in DOMAIN stream THEN stream[leaf]
            ELSE Setting(Merge(Merge(first, fees), caps), leaf, d)
    BY SettingOfMerge
  <1>7. Setting(Merge(Merge(Merge(Merge(first, fees), caps), stream), session), leaf, d) =
            IF leaf \in DOMAIN session THEN session[leaf]
            ELSE Setting(Merge(Merge(Merge(first, fees), caps), stream), leaf, d)
    BY SettingOfMerge
  <1>8. Setting(Load(document, variables), leaf, d) =
            IF leaf \in DOMAIN variables THEN variables[leaf]
            ELSE IF leaf \in DOMAIN document THEN document[leaf]
            ELSE Setting(Merge(Merge(Merge(Merge(first, fees), caps), stream), session), leaf, d)
    BY <1>2, SettingOfMerge
  <1>9. Winning(document, variables, leaf) =
            IF leaf \in DOMAIN variables THEN variables[leaf]
            ELSE IF leaf \in DOMAIN document THEN document[leaf]
            ELSE IF leaf \in DOMAIN session THEN session[leaf]
            ELSE IF leaf \in DOMAIN stream THEN stream[leaf]
            ELSE IF leaf \in DOMAIN caps THEN caps[leaf]
            ELSE IF leaf \in DOMAIN fees THEN fees[leaf]
            ELSE Stated(document, leaf, d)
    BY DEF Winning, d, fees, caps, stream, session
  <1>10. Setting(Merge(Merge(Merge(Merge(first, fees), caps), stream), session), leaf, d) =
            IF leaf \in DOMAIN session THEN session[leaf]
            ELSE IF leaf \in DOMAIN stream THEN stream[leaf]
            ELSE IF leaf \in DOMAIN caps THEN caps[leaf]
            ELSE IF leaf \in DOMAIN fees THEN fees[leaf]
            ELSE Stated(document, leaf, d)
    BY ONLY <1>3, <1>4, <1>5, <1>6, <1>7
  <1> QED BY <1>1, <1>8, <1>9, <1>10

----------------------------------------------------------------------------
(* The node. *)

Phases == {"called", "loaded", "recorded", "built", "running", "stopped", "failed"}

\* How far a command is: nothing is built before its time, and nothing has
\* started in a command that failed.
PhaseInv ==
    /\ command \in Commands /\ profile \in Profiles /\ environ \in Environs /\ phase \in Phases
    /\ started \in Nat
    /\ phase \in {"called", "loaded", "recorded"} => node = None
    /\ phase \notin {"running", "stopped"} => started = 0

\* The configuration is the one that was loaded, but for the two flags.
ConfigInv ==
    /\ phase \in Phases \ {"called", "failed"} \/ node # None =>
            \A leaf \in Leaves \ {"dry_run", "streaming.enabled"} :
                config[leaf] = Winning(profile, environ.vars, leaf)
    /\ phase = "loaded" => config = Validated(Load(profile, environ.vars))
    /\ phase \in Phases \ {"called", "failed", "loaded"} /\ command.dry_run =>
            config["dry_run"] = TRUE
    /\ phase \in Phases \ {"called", "failed"} \/ node # None =>
            config["venue.adapter"] \in {"IB", "DERIBIT"}

\* The node is what the factory makes of the configuration.
BuiltInv ==
    /\ node # None \/ phase \in {"built", "running", "stopped"} =>
            /\ node.actors = ActorConfigs(config)
            /\ node.strategies = StrategyConfigs(config)
            /\ command.dry_run => config["dry_run"] = TRUE
            /\ command.name = "backtest" => node.fees = BacktestFeeModel(config)
    /\ phase \in {"built", "running"} /\ command.name = "paper" => ~WiringRaises(config)
    /\ phase = "running" /\ command.name = "paper" => ~config["dry_run"]

\* Only strategies that could be constructed run, after the actors.
StartInv ==
    /\ phase = "running" \/ started > 0 =>
            \A i \in DOMAIN node.strategies : ~ConstructorRaises(node.strategies[i])
    /\ started >= 3 /\ selector_enabled(config) => "intent" \in heard

\* The plan is that of the configuration, and a strategy that has started has
\* the market data of its start and, in a position, of the position.
FeedInv ==
    /\ plan # None => phase \in {"running", "stopped"} /\ plan = Plan(config)
    /\ phase = "running" => DOMAIN feeds = DOMAIN node.strategies
    /\ \A i \in Started : feeds[i] \ PositionFeeds \subseteq Subscribed(node.strategies[i])

NodeInv == PhaseInv /\ ConfigInv /\ BuiltInv /\ StartInv /\ FeedInv

----------------------------------------------------------------------------
(* Lemmas. *)

\* The leaves only a profile sets.
ProfileOnly == {"strategies", "strategy.reference", "reference.option_series_expiry"}

LEMMA NoneByDefault ==
    ASSUME NEW leaf \in ProfileOnly
    PROVE  leaf \in Leaves /\ AppDefaults[leaf] = None
  <1>1. leaf \in Optional /\ leaf \notin Switched
    BY DEF ProfileOnly, Optional, Switched
  <1>2. leaf \notin {"venue.adapter", "session.market_close_utc", "fees.model",
                     "approval.human_edge_bps_threshold", "strategy.strategy_class",
                     "strategy.underlying", "reference.structure_selector",
                     "ingestion.max_chain_subscriptions", "ib.host"}
    BY DEF ProfileOnly
  <1> QED BY <1>1, <1>2 DEF Leaves, AppDefaults

\* More of them.
LEMMA Defaults ==
    /\ {"venue.adapter", "ingestion.max_chain_subscriptions", "fees.model",
        "strategy.underlying"} \subseteq Leaves
    /\ AppDefaults["venue.adapter"] = "IB"
    /\ AppDefaults["ingestion.max_chain_subscriptions"] = 3
  BY DEF Leaves, AppDefaults, Optional, Switched

\* Neither the files nor the environment set them.
LEMMA OnlyProfiles ==
    ASSUME NEW document, NEW environment \in Environs, NEW leaf \in ProfileOnly
    PROVE  Winning(document, environment.vars, leaf) =
              IF leaf \in DOMAIN document THEN document[leaf] ELSE None
  <1>1. leaf \notin DOMAIN environment.vars
    BY EnvironsAssumption DEF ProfileOnly
  <1>2. ASSUME NEW directory, NEW name
        PROVE  leaf \notin DOMAIN Document(directory, name)
    <2>1. CASE <<directory, name>> \in DOMAIN Files
      <3>1. DOMAIN Files[<<directory, name>>] \cap ProfileOnly = {}
        BY <2>1, FilesAssumption DEF ProfileOnly
      <3> QED BY <2>1, <3>1 DEF Document
    <2>2. CASE <<directory, name>> \notin DOMAIN Files
      BY <2>2 DEF Document, Empty
    <2> QED BY <2>1, <2>2
  <1>3. leaf \notin DOMAIN Overlay(CompetingStated(document),
                                  Document("diversification", "default"))
    BY <1>2 DEF Overlay, Empty
  <1>4. leaf \notin DOMAIN FeeOverlay(FeesStated(document))
    BY DEF FeeOverlay, ProfileOnly
  <1>5. Stated(document, leaf, AppDefaults[leaf]) =
            IF leaf \in DOMAIN document THEN document[leaf] ELSE AppDefaults[leaf]
    BY <1>2 DEF Stated, Setting
  <1>6. AppDefaults[leaf] = None
    BY NoneByDefault
  <1> DEFINE session == Document("session", SessionStated(document))
             stream  == Document("streaming", "default")
             caps    == Overlay(CompetingStated(document),
                                Document("diversification", "default"))
             fees    == FeeOverlay(FeesStated(document))
  <1>7. leaf \notin DOMAIN session /\ leaf \notin DOMAIN stream
    BY <1>2
  <1>8. Winning(document, environment.vars, leaf) =
            IF leaf \in DOMAIN environment.vars THEN environment.vars[leaf]
            ELSE IF leaf \in DOMAIN document THEN document[leaf]
            ELSE IF leaf \in DOMAIN session THEN session[leaf]
            ELSE IF leaf \in DOMAIN stream THEN stream[leaf]
            ELSE IF leaf \in DOMAIN caps THEN caps[leaf]
            ELSE IF leaf \in DOMAIN fees THEN fees[leaf]
            ELSE Stated(document, leaf, AppDefaults[leaf])
    BY DEF Winning
  <1> HIDE DEF session, stream, caps, fees
  <1> QED BY <1>1, <1>3, <1>4, <1>5, <1>6, <1>7, <1>8 DEF caps, fees

\* What the reference strategy is told, and that only it is told it.
LEMMA ReferenceConfig ==
    ASSUME NEW cfg, NEW runtime
    PROVE  LET strategy == StrategyConfig(cfg, runtime)
           IN  /\ strategy.class = "reference" /\ cfg["dry_run"] = TRUE => strategy.dry_run
               /\ strategy.selector_enabled => selector_enabled(cfg)
               /\ strategy.reference = ReferenceOf(cfg, runtime)
  <1> DEFINE strategy == StrategyConfig(cfg, runtime)
  <1>1. strategy.class = ClassOf(runtime)
    BY Zenon DEF StrategyConfig
  <1>2. strategy.dry_run = (ClassOf(runtime) = "reference" /\ cfg["dry_run"])
    BY Zenon DEF StrategyConfig
  <1>3. strategy.selector_enabled = (ClassOf(runtime) = "reference" /\ selector_enabled(cfg))
    BY Zenon DEF StrategyConfig
  <1>4. strategy.reference = ReferenceOf(cfg, runtime)
    BY Zenon DEF StrategyConfig
  <1> HIDE DEF strategy
  <1>5. strategy.class = "reference" /\ cfg["dry_run"] = TRUE => strategy.dry_run
    BY <1>1, <1>2, Zenon
  <1>6. strategy.selector_enabled => selector_enabled(cfg)
    BY <1>3, Zenon
  <1> QED BY <1>4, <1>5, <1>6 DEF strategy

\* A strategy is of one of three classes.
LEMMA ClassKnown ==
    ASSUME NEW cfg, NEW runtime
    PROVE  StrategyConfig(cfg, runtime).class \in {"skeleton", "gated_skeleton", "reference"}
  <1>1. StrategyConfig(cfg, runtime).class = ClassOf(runtime)
    BY Zenon DEF StrategyConfig
  <1> QED BY <1>1 DEF ClassOf

\* What a strategy subscribes to at most.
LEMMA FeedsOf ==
    ASSUME NEW strategy,
           strategy.class \in {"skeleton", "gated_skeleton", "reference"}
    PROVE  Subscribed(strategy) \subseteq
              {<<"quotes", strategy.underlying>>, <<"chain", strategy.series>>}
                \cup {<<"quotes", h>> :
                        h \in {strategy.reference.hedge_perp_instrument} \ {None}}
  <1>1. CASE strategy.class = "skeleton"
    BY <1>1 DEF Subscribed
  <1>2. CASE strategy.class = "gated_skeleton"
    BY <1>2 DEF Subscribed
  <1>3. CASE strategy.class = "reference"
    <2> DEFINE names == IF Selects(strategy) THEN {SelectorName(strategy)} \ {None} ELSE {}
    <2>1. Subscribed(strategy) =
            {<<"quotes", strategy.underlying>>}
                \cup {<<"quotes", hedge>> :
                        hedge \in {strategy.reference.hedge_perp_instrument} \ {None}}
                \cup {<<"chain", strategy.series>> : name \in names}
      BY <1>3 DEF Subscribed
    <2> HIDE DEF names
    <2> QED BY <2>1
  <1> QED BY <1>1, <1>2, <1>3

\* The selector is the third of the actors, where there is one.
LEMMA SelectorIsThird ==
    ASSUME NEW cfg
    PROVE  /\ Len(ActorConfigs(cfg)) \in Nat
           /\ selector_enabled(cfg) => /\ Len(ActorConfigs(cfg)) >= 3
                                      /\ ActorConfigs(cfg)[3] = "selector"
  BY DEF ActorConfigs

----------------------------------------------------------------------------
(* The invariant. *)

\* It holds when the command is called.
LEMMA NodeInvInit == Init => NodeInv
  BY DEF Init, NodeInv, PhaseInv, ConfigInv, BuiltInv, StartInv, FeedInv, Started, Phases

\* Nothing happens to the inputs.
LEMMA InputsStay == Next => UNCHANGED inputs
  BY DEF Next, LoadConfig, RecordStart, BuildBacktestNode, BuildTradingNode, DryRunStop, Run,
         StartActor, StartStrategy, OnEntryFilled, Stop

\* A flag changes no other leaf, and --dry-run sets its own.
LEMMA FlagsSet ==
    ASSUME NEW cfg, DOMAIN cfg = Leaves
    PROVE  /\ \A leaf \in Leaves \ {"dry_run", "streaming.enabled"} :
                Merge(cfg, Flags)[leaf] = cfg[leaf]
           /\ command.dry_run => Merge(cfg, Flags)["dry_run"] = TRUE
  BY DEF Merge, Flags

\* Every step keeps how far the command is in order.
LEMMA PhaseStep == ASSUME NodeInv, Next PROVE PhaseInv'
  <1> USE DEF NodeInv, PhaseInv, Phases
  <1>0. UNCHANGED inputs
    BY InputsStay
  <1> USE <1>0 DEF inputs
  <1>1. CASE LoadConfig
    BY <1>1 DEF LoadConfig
  <1>2. CASE RecordStart
    BY <1>2 DEF RecordStart
  <1>3. CASE BuildBacktestNode
    BY <1>3 DEF BuildBacktestNode
  <1>4. CASE BuildTradingNode
    BY <1>4 DEF BuildTradingNode
  <1>5. CASE DryRunStop
    BY <1>5 DEF DryRunStop
  <1>6. CASE Run
    BY <1>6 DEF Run
  <1>7. CASE StartActor
    BY <1>7 DEF StartActor
  <1>8. CASE StartStrategy
    BY <1>8 DEF StartStrategy
  <1>9. CASE OnEntryFilled
    BY <1>9 DEF OnEntryFilled
  <1>10. CASE Stop
    BY <1>10 DEF Stop
  <1> QED BY <1>1, <1>2, <1>3, <1>4, <1>5, <1>6, <1>7, <1>8, <1>9, <1>10 DEF Next

\* Every step keeps the configuration the loaded one, but for the flags.
LEMMA ConfigStep == ASSUME NodeInv, Next PROVE ConfigInv'
  <1> USE DEF NodeInv, PhaseInv, ConfigInv, Phases
  <1>0. UNCHANGED inputs
    BY InputsStay
  <1> USE <1>0 DEF inputs
  <1>1. CASE LoadConfig
    <2>1. phase' = "loaded" => config' = Validated(Load(profile, environ.vars))
      BY <1>1 DEF LoadConfig
    <2>2. phase' \in {"loaded", "failed"}
      BY <1>1 DEF LoadConfig
    <2>3. \A leaf \in Leaves :
            Validated(Load(profile, environ.vars))[leaf] = Winning(profile, environ.vars, leaf)
      BY Precedence
    <2>4. node' = None
      BY <1>1 DEF LoadConfig
    <2>5. phase' = "loaded" => config'["venue.adapter"] \in {"IB", "DERIBIT"}
      BY <1>1, Defaults DEF LoadConfig, Validated, Validates
    <2> QED BY <2>1, <2>2, <2>3, <2>4, <2>5
  <1>2. CASE RecordStart
    <2>1. config = Validated(Load(profile, environ.vars)) /\ phase = "loaded"
      BY <1>2 DEF RecordStart
    <2>2. DOMAIN config = Leaves
      BY <2>1 DEF Validated
    <2>3. config' = Merge(config, Flags) /\ phase' = "recorded"
      BY <1>2 DEF RecordStart
    <2>4. \A leaf \in Leaves \ {"dry_run", "streaming.enabled"} :
            config'[leaf] = Winning(profile, environ.vars, leaf)
      BY <2>1, <2>2, <2>3, FlagsSet
    <2>5. command.dry_run => config'["dry_run"] = TRUE
      BY <2>2, <2>3, FlagsSet
    <2>6. config'["venue.adapter"] = config["venue.adapter"]
      BY <2>2, <2>3, Defaults, FlagsSet
    <2> QED BY <2>1, <2>3, <2>4, <2>5, <2>6
  <1>3. CASE UNCHANGED config /\ phase \notin {"called", "loaded", "failed"}
                /\ phase' # "loaded"
    BY <1>3
  <1>4. ASSUME BuildBacktestNode \/ BuildTradingNode \/ DryRunStop \/ Run \/ StartActor
                  \/ StartStrategy \/ OnEntryFilled \/ Stop
        PROVE  UNCHANGED config /\ phase \notin {"called", "loaded", "failed"}
                /\ phase' # "loaded"
    BY <1>4 DEF BuildBacktestNode, BuildTradingNode, DryRunStop, Run, StartActor,
                StartStrategy, OnEntryFilled, Stop
  <1> QED BY <1>1, <1>2, <1>3, <1>4 DEF Next

\* Every step keeps the node what the factory makes of the configuration.
LEMMA BuiltStep == ASSUME NodeInv, Next PROVE BuiltInv'
  <1> USE DEF NodeInv, PhaseInv, BuiltInv, ConfigInv, Phases
  <1>0. UNCHANGED inputs
    BY InputsStay
  <1> USE <1>0 DEF inputs
  <1>1. CASE LoadConfig
    BY <1>1 DEF LoadConfig
  <1>2. CASE RecordStart
    BY <1>2 DEF RecordStart
  <1>3. CASE BuildBacktestNode
    BY <1>3 DEF BuildBacktestNode, Built
  <1>4. CASE BuildTradingNode
    <2>1. WiringRaises(config)' = WiringRaises(config)
      BY <1>4 DEF BuildTradingNode, WiringRaises, Credentials
    <2> QED BY <1>4, <2>1 DEF BuildTradingNode, Built
  <1>5. CASE DryRunStop
    BY <1>5 DEF DryRunStop, ActorConfigs, StrategyConfigs, StrategyConfig
  <1>6. ASSUME UNCHANGED <<config, node>>
        PROVE  /\ ActorConfigs(config)' = ActorConfigs(config)
               /\ StrategyConfigs(config)' = StrategyConfigs(config)
               /\ WiringRaises(config)' = WiringRaises(config)
    BY <1>6 DEF ActorConfigs, StrategyConfigs, WiringRaises, Credentials
  <1>7. CASE Run
    BY <1>6, <1>7 DEF Run
  <1>8. CASE StartActor
    BY <1>6, <1>8 DEF StartActor
  <1>9. CASE StartStrategy
    BY <1>6, <1>9 DEF StartStrategy
  <1>10. CASE OnEntryFilled
    BY <1>6, <1>10 DEF OnEntryFilled
  <1>11. CASE Stop
    BY <1>6, <1>11 DEF Stop
  <1> QED BY <1>1, <1>2, <1>3, <1>4, <1>5, <1>7, <1>8, <1>9, <1>10, <1>11 DEF Next

\* Every step keeps to the order in which the parts start.
LEMMA StartStep == ASSUME NodeInv, Next PROVE StartInv'
  <1> USE DEF NodeInv, PhaseInv, BuiltInv, StartInv, Phases
  <1>1. CASE LoadConfig
    BY <1>1 DEF LoadConfig
  <1>2. CASE RecordStart
    BY <1>2 DEF RecordStart
  <1>3. CASE BuildBacktestNode
    BY <1>3 DEF BuildBacktestNode
  <1>4. CASE BuildTradingNode
    BY <1>4 DEF BuildTradingNode
  <1>5. CASE DryRunStop
    BY <1>5 DEF DryRunStop
  <1>6. CASE Run
    BY <1>6 DEF Run
  <1>7. CASE StartActor
    <2>1. /\ phase = "running" /\ phase' = phase /\ UNCHANGED <<config, node>>
          /\ started < Len(node.actors) /\ started' = started + 1
          /\ heard' = heard \cup ActorHears(node.actors[started + 1])
      BY <1>7 DEF StartActor
    <2>2. node.actors = ActorConfigs(config)
      BY <2>1
    <2>3. ASSUME started' >= 3, selector_enabled(config) PROVE "intent" \in heard'
      <3>1. CASE started >= 3
        BY <2>1, <2>3, <3>1
      <3>2. CASE started' = 3
        <4>1. started + 1 = 3
          BY <2>1, <3>2
        <4>2. node.actors[started + 1] = "selector"
          BY <2>2, <2>3, <4>1, SelectorIsThird
        <4> QED BY <2>1, <4>2 DEF ActorHears
      <3> QED BY <2>1, <2>3, <3>1, <3>2
    <2>4. selector_enabled(config)' = selector_enabled(config)
      BY <2>1
    <2> QED BY <2>1, <2>3, <2>4
  <1>8. CASE StartStrategy
    <2>1. /\ phase = "running" /\ phase' = phase /\ UNCHANGED <<config, node>>
          /\ started >= Len(node.actors) /\ started' = started + 1
          /\ heard \subseteq heard'
      BY <1>8 DEF StartStrategy
    <2>2. selector_enabled(config) => Len(node.actors) >= 3 /\ Len(node.actors) \in Nat
      BY <2>1, SelectorIsThird
    <2>3. selector_enabled(config) => "intent" \in heard
      BY <2>1, <2>2
    <2> QED BY <2>1, <2>3
  <1>9. CASE OnEntryFilled
    BY <1>9 DEF OnEntryFilled
  <1>10. CASE Stop
    BY <1>10 DEF Stop
  <1> QED BY <1>1, <1>2, <1>3, <1>4, <1>5, <1>6, <1>7, <1>8, <1>9, <1>10 DEF Next

\* Once a configuration is loaded, those leaves have the profile's values.
LEMMA ProfileLeaves ==
    ASSUME NodeInv, phase \in Phases \ {"called", "failed"} \/ node # None
    PROVE  \A leaf \in ProfileOnly :
                config[leaf] = IF leaf \in DOMAIN profile THEN profile[leaf] ELSE None
  <1> TAKE leaf \in ProfileOnly
  <1>1. leaf \in Leaves \ {"dry_run", "streaming.enabled"}
    BY NoneByDefault DEF ProfileOnly
  <1>2. config[leaf] = Winning(profile, environ.vars, leaf)
    BY <1>1 DEF NodeInv, ConfigInv
  <1> QED BY <1>2, OnlyProfiles DEF NodeInv, PhaseInv

\* The strategies of a configuration are numbered from one.
LEMMA Numbered ==
    ASSUME NodeInv, phase \in Phases \ {"called", "failed"} \/ node # None,
           NEW i \in DOMAIN resolved_strategies(config)
    PROVE  i \in Nat /\ i >= 1
  <1>1. CASE config["strategies"] \in {None, <<>>}
    BY <1>1 DEF resolved_strategies
  <1>2. CASE config["strategies"] \notin {None, <<>>}
    <2>1. "strategies" \in ProfileOnly
      BY DEF ProfileOnly
    <2>2. "strategies" \in DOMAIN profile /\ config["strategies"] = profile["strategies"]
      BY <1>2, <2>1, ProfileLeaves
    <2>3. DOMAIN profile["strategies"] = 1 .. Len(profile["strategies"])
      BY <2>2, ProfilesAssumption DEF NodeInv, PhaseInv
    <2>4. i \in 1 .. Len(profile["strategies"])
      BY <1>2, <2>2, <2>3 DEF resolved_strategies
    <2> QED BY <2>4
  <1> QED BY <1>1, <1>2

\* Every step keeps the plan and the feeds what the parts asked for.
LEMMA FeedStep == ASSUME NodeInv, Next PROVE FeedInv'
  <1> DEFINE live == phase \in Phases \ {"called", "failed"} \/ node # None
  <1>1. live => \A i \in DOMAIN StrategyConfigs(config) : i \in Nat /\ i >= 1
    BY Numbered DEF StrategyConfigs
  <1>2. Len(ActorConfigs(config)) \in Nat
    BY SelectorIsThird
  <1>3. started \in Nat /\ phase \in Phases
    BY DEF NodeInv, PhaseInv
  <1>4. node # None \/ phase \in {"built", "running", "stopped"} =>
            node.actors = ActorConfigs(config) /\ node.strategies = StrategyConfigs(config)
    BY DEF NodeInv, BuiltInv
  <1>5. CASE LoadConfig \/ RecordStart
    <2>1. /\ node' = None /\ phase' # "running" /\ UNCHANGED plan
          /\ phase \notin {"running", "stopped"}
      BY <1>5 DEF LoadConfig, RecordStart, NodeInv, PhaseInv
    <2> QED BY <2>1 DEF NodeInv, FeedInv, Started
  <1>6. CASE BuildBacktestNode \/ BuildTradingNode
    <2>1. /\ phase = "recorded" /\ node = None /\ phase' # "running"
          /\ UNCHANGED <<config, plan, started>> /\ started = 0
          /\ \/ node' = None
             \/ /\ node'.actors = ActorConfigs(config)
                /\ node'.strategies = StrategyConfigs(config)
      BY <1>6 DEF BuildBacktestNode, BuildTradingNode, Built, NodeInv, PhaseInv
    <2>2. \A i \in Started' : FALSE
      BY <1>1, <1>2, <2>1 DEF Started, Phases
    <2> QED BY <2>1, <2>2 DEF NodeInv, FeedInv
  <1>7. CASE Run
    <2>1. /\ phase = "built" /\ started = 0 /\ UNCHANGED <<config, node, started, plan>>
          /\ feeds' = [i \in DOMAIN node.strategies |-> {}]
      BY <1>7 DEF Run, NodeInv, PhaseInv
    <2>2. \A i \in Started' : FALSE
      BY <1>1, <1>2, <1>4, <2>1 DEF Started, Phases
    <2> QED BY <2>1, <2>2 DEF NodeInv, FeedInv
  <1>8. CASE DryRunStop \/ Stop
    <2>1. UNCHANGED <<config, node, started, feeds, plan>> /\ phase' = "stopped"
      BY <1>8 DEF DryRunStop, Stop
    <2>2. Plan(config)' = Plan(config) /\ Started' = Started
      BY <2>1 DEF Plan, Started
    <2> QED BY <2>1, <2>2 DEF NodeInv, FeedInv
  <1>9. CASE StartActor
    <2>1. /\ phase = "running" /\ UNCHANGED <<phase, config, node, feeds>>
          /\ started < Len(node.actors) /\ started' = started + 1
          /\ plan' = plan \/ plan' = Plan(config)
      BY <1>9 DEF StartActor
    <2>2. \A i \in Started' : FALSE
      BY <1>1, <1>2, <1>3, <1>4, <2>1 DEF Started, Phases
    <2>3. Plan(config)' = Plan(config)
      BY <2>1 DEF Plan
    <2> QED BY <2>1, <2>2, <2>3 DEF NodeInv, FeedInv
  <1>10. CASE StartStrategy
    <2> DEFINE k == started + 1 - Len(node.actors)
    <2>1. /\ phase = "running" /\ UNCHANGED <<phase, config, node, plan>>
          /\ started' = started + 1
          /\ feeds' = [feeds EXCEPT ![k] = Subscribed(node.strategies[k])]
      BY <1>10 DEF StartStrategy
    <2>2. Plan(config)' = Plan(config)
      BY <2>1 DEF Plan
    <2>3. DOMAIN feeds = DOMAIN node.strategies /\ DOMAIN feeds' = DOMAIN feeds
      BY <2>1 DEF NodeInv, FeedInv
    <2>4. ASSUME NEW i \in Started' 
          PROVE  feeds'[i] \ PositionFeeds \subseteq Subscribed(node.strategies[i])
      <3>1. i \in DOMAIN node.strategies /\ (i = k \/ i \in Started)
        <4>1. /\ node # None /\ i \in DOMAIN node.strategies
              /\ started + 1 >= Len(node.actors) + i
          BY <2>1, <2>4 DEF Started
        <4>2. i \in Nat /\ Len(node.actors) \in Nat
          BY <1>1, <1>2, <1>4, <4>1
        <4>3. i = k \/ started >= Len(node.actors) + i
          <5> DEFINE n == Len(node.actors)
          <5>1. /\ k = started + 1 - n /\ i \in Nat /\ n \in Nat /\ started \in Nat
                /\ started + 1 >= n + i
            BY <1>3, <4>1, <4>2
          <5> HIDE DEF n, k
          <5>2. i = k \/ started >= n + i
            BY <5>1
          <5> QED BY <5>2 DEF n
        <4> QED BY <4>1, <4>3 DEF Started
      <3> HIDE DEF k
      <3>2. CASE i = k
        BY <2>1, <2>3, <3>1, <3>2
      <3>3. CASE i # k
        <4>1. feeds'[i] = feeds[i]
          BY <2>1, <2>3, <3>1, <3>3
        <4>2. feeds[i] \ PositionFeeds \subseteq Subscribed(node.strategies[i])
          BY <3>1, <3>3 DEF NodeInv, FeedInv
        <4> QED BY <4>1, <4>2
      <3> QED BY <3>2, <3>3
    <2>5. \A i \in Started' : feeds'[i] \ PositionFeeds \subseteq Subscribed(node'.strategies[i])
      BY <2>1, <2>4
    <2> QED BY <2>1, <2>2, <2>3, <2>5 DEF NodeInv, FeedInv
  <1>11. CASE OnEntryFilled
    <2>1. PICK k \in DOMAIN node.strategies :
             feeds' = [feeds EXCEPT ![k] = @ \cup PositionFeeds]
      BY <1>11 DEF OnEntryFilled
    <2>2. phase = "running" /\ UNCHANGED <<phase, config, node, started, plan>>
      BY <1>11 DEF OnEntryFilled
    <2>3. Plan(config)' = Plan(config) /\ Started' = Started
      BY <2>2 DEF Plan, Started
    <2>4. DOMAIN feeds = DOMAIN node.strategies /\ DOMAIN feeds' = DOMAIN feeds
      BY <2>1, <2>2 DEF NodeInv, FeedInv
    <2>5. ASSUME NEW i \in Started
          PROVE  feeds'[i] \ PositionFeeds \subseteq Subscribed(node.strategies[i])
      <3>1. i \in DOMAIN feeds
        BY <2>4 DEF Started
      <3>2. feeds'[i] \ PositionFeeds \subseteq feeds[i] \ PositionFeeds
        BY <2>1, <3>1
      <3> QED BY <3>2 DEF NodeInv, FeedInv
    <2> QED BY <2>2, <2>3, <2>4, <2>5 DEF NodeInv, FeedInv
  <1> QED BY <1>5, <1>6, <1>7, <1>8, <1>9, <1>10, <1>11 DEF Next

\* A step that changes nothing keeps everything.
LEMMA NodeStutter == ASSUME NodeInv, UNCHANGED vars PROVE NodeInv'
  BY DEF vars, inputs, NodeInv, PhaseInv, ConfigInv, BuiltInv, StartInv, FeedInv, Started,
         WiringRaises, Credentials

\* The inductive invariant of the node.
LEMMA NodeInvariant == Spec => []NodeInv
  <1>1. NodeInv /\ [Next]_vars => NodeInv'
    <2>1. ASSUME NodeInv, Next PROVE NodeInv'
      BY <2>1, PhaseStep, ConfigStep, BuiltStep, StartStep, FeedStep DEF NodeInv
    <2>2. ASSUME NodeInv, UNCHANGED vars PROVE NodeInv'
      BY <2>2, NodeStutter
    <2> QED BY <2>1, <2>2
  <1> QED BY NodeInvInit, <1>1, PTL DEF Spec

----------------------------------------------------------------------------
(* The properties. *)

\* A strategy has started only in a node that runs, or ran.
LEMMA StartedPhase ==
    ASSUME NodeInv, NEW i \in Started
    PROVE  started > 0 /\ phase \in {"running", "stopped"}
  <1>1. /\ node # None /\ i \in DOMAIN node.strategies
        /\ started >= Len(node.actors) + i
    BY DEF Started
  <1>2. node.strategies = StrategyConfigs(config) /\ node.actors = ActorConfigs(config)
    BY <1>1 DEF NodeInv, BuiltInv
  <1>3. i \in Nat /\ i >= 1
    BY <1>1, <1>2, Numbered DEF StrategyConfigs
  <1>4. Len(node.actors) \in Nat
    BY <1>2, SelectorIsThird
  <1>5. started > 0
    BY <1>1, <1>3, <1>4 DEF NodeInv, PhaseInv
  <1> QED BY <1>5 DEF NodeInv, PhaseInv, Phases

\* A loaded configuration gives every leaf the value of the layer with the
\* say over it.
THEOREM LayersInOrder == Spec => []LayerPrecedence
  <1>1. NodeInv => LayerPrecedence
    BY Precedence DEF NodeInv, ConfigInv, LayerPrecedence
  <1> QED BY NodeInvariant, <1>1, PTL

\* --dry-run holds whatever DRY_RUN and the profile say.
THEOREM DryRunHolds == Spec => []DryRunHonoured
  <1>1. ASSUME NodeInv PROVE DryRunHonoured
    <2> SUFFICES ASSUME command.dry_run, node # None
                 PROVE  /\ phase = "running" => command.name = "backtest"
                        /\ \A i \in DOMAIN node.strategies :
                             node.strategies[i].class = "reference" => node.strategies[i].dry_run
      BY DEF DryRunHonoured
    <2>1. config["dry_run"] = TRUE /\ node.strategies = StrategyConfigs(config)
      BY <1>1 DEF NodeInv, BuiltInv
    <2>2. phase = "running" => command.name = "backtest"
      BY <1>1, <2>1, CommandsAssumption DEF NodeInv, PhaseInv, BuiltInv
    <2>3. ASSUME NEW i \in DOMAIN node.strategies, node.strategies[i].class = "reference"
          PROVE  node.strategies[i].dry_run
      <3>1. node.strategies[i] = StrategyConfig(config, resolved_strategies(config)[i])
        BY <2>1 DEF StrategyConfigs
      <3> QED BY <2>1, <2>3, <3>1, ReferenceConfig
    <2> QED BY <2>2, <2>3
  <1> QED BY NodeInvariant, <1>1, PTL

\* A strategy behind the selector starts when the selector listens.
THEOREM SelectorFirst == Spec => []SelectorHearsIntents
  <1>1. ASSUME NodeInv PROVE SelectorHearsIntents
    <2> SUFFICES ASSUME NEW i \in Started, node.strategies[i].selector_enabled
                 PROVE  "intent" \in heard
      BY DEF SelectorHearsIntents
    <2>1. /\ node # None /\ i \in DOMAIN node.strategies
          /\ started >= Len(node.actors) + i
      BY DEF Started
    <2>2. node.strategies = StrategyConfigs(config) /\ node.actors = ActorConfigs(config)
      BY <1>1, <2>1 DEF NodeInv, BuiltInv
    <2>3. node.strategies[i] = StrategyConfig(config, resolved_strategies(config)[i])
      BY <2>1, <2>2 DEF StrategyConfigs
    <2>4. selector_enabled(config)
      BY <2>3, ReferenceConfig
    <2>5. i \in Nat
      BY <1>1, <2>1, <2>2, Numbered DEF StrategyConfigs
    <2>6. Len(node.actors) \in Nat /\ Len(node.actors) >= 3
      BY <2>2, <2>4, SelectorIsThird
    <2>7. started >= 3
      BY <1>1, <2>1, <2>5, <2>6 DEF NodeInv, PhaseInv
    <2> QED BY <1>1, <2>4, <2>7 DEF NodeInv, StartInv
  <1> QED BY NodeInvariant, <1>1, PTL

\* No strategy selects structures on an expiry nobody stated, no live node
\* runs on Deribit without credentials.
THEOREM FailsClosedHolds == Spec => []FailsClosed
  <1>1. ASSUME NodeInv PROVE FailsClosed
    <2>1. ASSUME NEW i \in Started, Selects(node.strategies[i])
          PROVE  ExpiryStated(i)
      <3>1. node # None /\ i \in DOMAIN node.strategies
        BY <2>1 DEF Started
      <3>2. node.strategies = StrategyConfigs(config) /\ node.actors = ActorConfigs(config)
        BY <1>1, <3>1 DEF NodeInv, BuiltInv
      <3> DEFINE runtime == resolved_strategies(config)[i]
                 block   == ReferenceOf(config, runtime)
      <3>3. i \in DOMAIN resolved_strategies(config)
        BY <3>1, <3>2 DEF StrategyConfigs
      <3>4. node.strategies[i] = StrategyConfig(config, runtime)
        BY <3>2, <3>3 DEF StrategyConfigs
      <3>5. node.strategies[i].reference = block
        BY <3>4, ReferenceConfig
      <3>7. started > 0 /\ phase \in {"running", "stopped"}
        BY <1>1, <2>1, StartedPhase
      <3>8. ~ConstructorRaises(node.strategies[i])
        BY <1>1, <3>1, <3>7 DEF NodeInv, StartInv
      <3>9. block.option_series_expiry # None
        BY <2>1, <3>5, <3>8 DEF ConstructorRaises
      <3>10. \A leaf \in ProfileOnly :
                config[leaf] = IF leaf \in DOMAIN profile THEN profile[leaf] ELSE None
        BY <1>1, <3>1, ProfileLeaves
      <3> HIDE DEF runtime, block
      <3>11. CASE runtime.reference = None
        <4>1. block = SharedReference(config)
          BY <3>11 DEF block, ReferenceOf
        <4>2. config["reference.option_series_expiry"] # None
          BY <3>9, <4>1 DEF SharedReference
        <4> QED BY <3>10, <4>2 DEF ProfileOnly, ExpiryStated
      <3>12. CASE runtime.reference # None /\ config["strategies"] \in {None, <<>>}
        <4>1. runtime = [strategy_class |-> config["strategy.strategy_class"],
                         underlying     |-> config["strategy.underlying"],
                         reference      |-> config["strategy.reference"]]
          BY <3>3, <3>12 DEF runtime, resolved_strategies
        <4>2. block = config["strategy.reference"] /\ config["strategy.reference"] # None
          BY <3>12, <4>1 DEF block, ReferenceOf
        <4> QED BY <3>9, <3>10, <4>2 DEF ProfileOnly, ExpiryStated
      <3>13. CASE runtime.reference # None /\ config["strategies"] \notin {None, <<>>}
        <4>1. runtime = config["strategies"][i] /\ block = runtime.reference
          BY <3>13 DEF runtime, block, resolved_strategies, ReferenceOf
        <4> QED BY <3>9, <3>10, <3>13, <4>1 DEF ProfileOnly, ExpiryStated
      <3> QED BY <3>11, <3>12, <3>13
    <2>2. phase = "running" /\ command.name = "paper" /\ config["venue.adapter"] = "DERIBIT"
            => Credentials(config)
      BY <1>1 DEF NodeInv, BuiltInv, WiringRaises
    <2> QED BY <2>1, <2>2 DEF FailsClosed
  <1> QED BY NodeInvariant, <1>1, PTL

----------------------------------------------------------------------------
(* The plan and the feeds. *)

\* What every layer sets a leaf to within a set, the configuration has within
\* it.
LEMMA LeafWithin ==
    ASSUME NodeInv, phase \in Phases \ {"called", "failed"} \/ node # None,
           NEW leaf \in Leaves \ {"dry_run", "streaming.enabled", "deribit.testnet",
                                  "ib.host", "fees.model"},
           NEW Values, AppDefaults[leaf] \in Values,
           leaf \in DOMAIN profile => profile[leaf] \in Values,
           \A file \in DOMAIN Files :
                leaf \in DOMAIN Files[file] => Files[file][leaf] \in Values
    PROVE  config[leaf] \in Values
  <1> DEFINE session == Document("session", SessionStated(profile))
             stream  == Document("streaming", "default")
             caps    == Overlay(CompetingStated(profile),
                                Document("diversification", "default"))
             fees    == FeeOverlay(FeesStated(profile))
  <1>1. config[leaf] = Winning(profile, environ.vars, leaf)
    BY DEF NodeInv, ConfigInv
  <1>2. leaf \notin DOMAIN environ.vars
    BY EnvironsAssumption DEF NodeInv, PhaseInv
  <1>3. ASSUME NEW directory, NEW name, leaf \in DOMAIN Document(directory, name)
        PROVE  Document(directory, name)[leaf] \in Values
    <2>1. CASE <<directory, name>> \in DOMAIN Files
      BY <1>3, <2>1 DEF Document
    <2>2. CASE <<directory, name>> \notin DOMAIN Files
      BY <1>3, <2>2 DEF Document, Empty
    <2> QED BY <2>1, <2>2
  <1>4. leaf \notin DOMAIN fees
    BY DEF FeeOverlay
  <1>5. leaf \in DOMAIN caps => caps[leaf] \in Values
    BY <1>3 DEF Overlay, Empty
  <1>6. leaf \in DOMAIN session => session[leaf] \in Values
    BY <1>3
  <1>7. leaf \in DOMAIN stream => stream[leaf] \in Values
    BY <1>3
  <1>8. leaf \in DOMAIN profile \/ Stated(profile, leaf, AppDefaults[leaf]) \in Values
    BY <1>3 DEF Stated, Setting
  <1>9. Winning(profile, environ.vars, leaf) =
            IF leaf \in DOMAIN environ.vars THEN environ.vars[leaf]
            ELSE IF leaf \in DOMAIN profile THEN profile[leaf]
            ELSE IF leaf \in DOMAIN session THEN session[leaf]
            ELSE IF leaf \in DOMAIN stream THEN stream[leaf]
            ELSE IF leaf \in DOMAIN caps THEN caps[leaf]
            ELSE IF leaf \in DOMAIN fees THEN fees[leaf]
            ELSE Stated(profile, leaf, AppDefaults[leaf])
    BY DEF Winning
  <1> HIDE DEF session, stream, caps, fees
  <1> QED BY <1>1, <1>2, <1>4, <1>5, <1>6, <1>7, <1>8, <1>9

\* The budget of the plan is a number.
LEMMA BudgetIsNumber ==
    ASSUME NodeInv, phase \in Phases \ {"called", "failed"} \/ node # None
    PROVE  config["ingestion.max_chain_subscriptions"] \in Int
  <1>1. "ingestion.max_chain_subscriptions" \in DOMAIN profile =>
            profile["ingestion.max_chain_subscriptions"] \in Int
    BY ProfilesAssumption DEF NodeInv, PhaseInv
  <1> QED BY <1>1, Defaults, FilesAssumption, LeafWithin

\* The underlying of a strategy has a symbol.
LEMMA UnderlyingHasSymbol ==
    ASSUME NodeInv, phase \in Phases \ {"called", "failed"} \/ node # None,
           NEW i \in DOMAIN resolved_strategies(config)
    PROVE  SymbolOf[resolved_strategies(config)[i].underlying] # None
  <1>1. CASE config["strategies"] \in {None, <<>>}
    <2>1. config["strategy.underlying"] \in DOMAIN SymbolOf
      <3>1. "strategy.underlying" \in DOMAIN profile =>
                profile["strategy.underlying"] \in DOMAIN SymbolOf
        BY SymbolAssumption DEF NodeInv, PhaseInv
      <3> QED BY <3>1, Defaults, SymbolAssumption, LeafWithin
    <2>2. resolved_strategies(config)[i].underlying = config["strategy.underlying"]
      BY <1>1 DEF resolved_strategies
    <2> QED BY <2>1, <2>2, SymbolAssumption
  <1>2. CASE config["strategies"] \notin {None, <<>>}
    <2>1. "strategies" \in DOMAIN profile /\ config["strategies"] = profile["strategies"]
      BY <1>2, ProfileLeaves DEF ProfileOnly
    <2>2. resolved_strategies(config) = profile["strategies"]
      BY <1>2, <2>1 DEF resolved_strategies
    <2> QED BY <2>1, <2>2, SymbolAssumption DEF NodeInv, PhaseInv
  <1> QED BY <1>1, <1>2

\* A plan with a budget of three leaves nothing out.
LEMMA PlanIsWhole ==
    ASSUME NEW underlying, NEW series, NEW hedge, NEW budget \in Int, budget >= 3
    PROVE  LET whole == PlanSubscriptions(underlying, series, hedge, budget)
               told  == {whole[k] : k \in DOMAIN whole}
           IN  /\ <<"quotes", underlying>> \in told
               /\ hedge # None => <<"quotes", hedge>> \in told
               /\ series # None => <<"chain", series>> \in told
  <1> DEFINE quoted == IF hedge # None THEN << <<"quotes", hedge>> >> ELSE << >>
             chain  == IF series # None THEN << <<"chain", series>> >> ELSE << >>
             specs  == << <<"quotes", underlying>> >> \o quoted \o chain
             whole  == PlanSubscriptions(underlying, series, hedge, budget)
  <1>1. /\ Len(specs) \in Nat /\ Len(specs) <= 3 /\ Len(specs) >= 1
        /\ specs[1] = <<"quotes", underlying>>
    OBVIOUS
  <1>2. hedge # None => Len(specs) >= 2 /\ specs[2] = <<"quotes", hedge>>
    OBVIOUS
  <1>3. series # None => specs[Len(specs)] = <<"chain", series>>
    OBVIOUS
  <1>4. specs \in Seq({<<"quotes", underlying>>, <<"quotes", hedge>>, <<"chain", series>>})
    OBVIOUS
  <1>5. whole = SubSeq(specs, 1, IF budget < Len(specs) THEN budget ELSE Len(specs))
    BY DEF PlanSubscriptions
  <1> HIDE DEF specs, whole
  <1>6. whole = SubSeq(specs, 1, Len(specs))
    BY <1>1, <1>5
  <1>7. /\ DOMAIN whole = 1 .. Len(specs)
        /\ \A k \in 1 .. Len(specs) : whole[k] = specs[k]
    BY <1>1, <1>4, <1>6
  <1> QED BY <1>1, <1>2, <1>3, <1>7 DEF whole

\* With the default budget the plan lists every feed the primary strategy
\* subscribes to as it starts.
THEOREM PlanCovers == Spec => []PlanCoversStart
  <1>1. ASSUME NodeInv PROVE PlanCoversStart
    <2> DEFINE primary == resolved_strategies(config)[1]
               block   == ReferenceOf(config, primary)
               series  == resolved_option_series_id(block, primary.underlying)
               hedge   == block.hedge_perp_instrument
               budget  == config["ingestion.max_chain_subscriptions"]
               told    == {plan[k] : k \in DOMAIN plan}
    <2> SUFFICES ASSUME plan # None, budget >= 3, 1 \in Started
                 PROVE  feeds[1] \ PositionFeeds \subseteq told
      BY DEF PlanCoversStart
    <2>1. node # None /\ 1 \in DOMAIN node.strategies
      BY DEF Started
    <2>2. node.strategies = StrategyConfigs(config)
      BY <1>1, <2>1 DEF NodeInv, BuiltInv
    <2>3. node.strategies[1] = StrategyConfig(config, primary)
      BY <2>1, <2>2 DEF StrategyConfigs
    <2>4. feeds[1] \ PositionFeeds \subseteq Subscribed(node.strategies[1])
      BY <1>1 DEF NodeInv, FeedInv
    <2>5. plan = PlanSubscriptions(primary.underlying, series, hedge, budget)
      BY <1>1 DEF NodeInv, FeedInv, Plan
    <2>6. budget \in Int
      BY <1>1, <2>1, BudgetIsNumber
    <2>7. /\ <<"quotes", primary.underlying>> \in told
          /\ hedge # None => <<"quotes", hedge>> \in told
          /\ series # None => <<"chain", series>> \in told
      BY <2>5, <2>6, PlanIsWhole
    <2> HIDE DEF hedge, budget, told
    <2>8. /\ node.strategies[1].underlying = primary.underlying
          /\ node.strategies[1].series = series
          /\ node.strategies[1].reference = block
      <3>1. /\ StrategyConfig(config, primary).underlying = primary.underlying
            /\ StrategyConfig(config, primary).series = series
            /\ StrategyConfig(config, primary).reference = block
        BY Zenon DEF StrategyConfig
      <3> HIDE DEF primary, series, block
      <3> QED BY <2>3, <3>1
    <2>9. Subscribed(node.strategies[1]) \subseteq
            {<<"quotes", primary.underlying>>, <<"chain", series>>}
                \cup {<<"quotes", h>> : h \in {hedge} \ {None}}
      <3>1. node.strategies[1].class \in {"skeleton", "gated_skeleton", "reference"}
        BY <2>3, ClassKnown
      <3>2. node.strategies[1].reference.hedge_perp_instrument = hedge
        BY <2>8 DEF hedge
      <3> HIDE DEF primary, series, block
      <3> QED BY <2>8, <3>1, <3>2, FeedsOf
    <2>10. series # None
      <3>1. SymbolOf[primary.underlying] # None
        BY <1>1, <2>1, <2>2, UnderlyingHasSymbol DEF StrategyConfigs
      <3> HIDE DEF block
      <3> QED BY <3>1 DEF resolved_option_series_id
    <2> QED BY <2>4, <2>7, <2>9, <2>10
  <1> QED BY NodeInvariant, <1>1, PTL

----------------------------------------------------------------------------
(* The fees. *)

\* A profile that names no fees gets the schedule of its venue.
LEMMA ScheduleOfVenue ==
    ASSUME NEW document, NEW environment \in Environs,
           {"fees.model", "fees_overlay"} \cap DOMAIN document = {},
           Winning(document, environment.vars, "venue.adapter") \in {"IB", "DERIBIT"}
    PROVE  Winning(document, environment.vars, "fees.model") =
              IF Winning(document, environment.vars, "venue.adapter") = "DERIBIT"
              THEN "maker_taker" ELSE "fixed_per_contract"
  <1> DEFINE adapter == Stated(document, "venue.adapter", "IB")
             session == Document("session", SessionStated(document))
             stream  == Document("streaming", "default")
             caps    == Overlay(CompetingStated(document),
                                Document("diversification", "default"))
             fees    == FeeOverlay(FeesStated(document))
             variables   == environment.vars
  <1>1. ASSUME NEW leaf \in {"venue.adapter", "fees.model"}
        PROVE  Winning(document, variables, leaf) =
                  IF leaf \in DOMAIN variables THEN variables[leaf]
                  ELSE IF leaf \in DOMAIN document THEN document[leaf]
                  ELSE IF leaf \in DOMAIN session THEN session[leaf]
                  ELSE IF leaf \in DOMAIN stream THEN stream[leaf]
                  ELSE IF leaf \in DOMAIN caps THEN caps[leaf]
                  ELSE IF leaf \in DOMAIN fees THEN fees[leaf]
                  ELSE Stated(document, leaf, AppDefaults[leaf])
    BY DEF Winning
  <1>2. "venue.adapter" \notin DOMAIN variables /\ "fees.model" \notin DOMAIN variables
    BY EnvironsAssumption
  <1>3. ASSUME NEW directory, NEW name, directory # "fees"
        PROVE  "fees.model" \notin DOMAIN Document(directory, name)
    <2>1. <<directory, name>>[1] = directory
      OBVIOUS
    <2> QED BY <1>3, <2>1, FeeFilesAssumption DEF Document, Empty
  <1>4. Winning(document, variables, "venue.adapter") = adapter
    <2>1. "venue.adapter" \in Picking /\ CompetingStated(document) \in BOOLEAN
      BY DEF Picking, CompetingStated
    <2>2. /\ "venue.adapter" \notin DOMAIN session /\ "venue.adapter" \notin DOMAIN stream
          /\ "venue.adapter" \notin DOMAIN caps /\ "venue.adapter" \notin DOMAIN fees
      BY <2>1, OverlaysPickNothing
    <2>3. "venue.adapter" \in DOMAIN document => adapter = document["venue.adapter"]
      BY DEF Stated
    <2>4. AppDefaults["venue.adapter"] = "IB"
      BY Defaults
    <2> HIDE DEF session, stream, caps, fees
    <2> QED BY <1>1, <1>2, <2>2, <2>3, <2>4
  <1>5. Stated(document, "fees_overlay", None) = None
    <2>1. ASSUME NEW directory, NEW name
          PROVE  "fees_overlay" \notin DOMAIN Document(directory, name)
      BY FeeFilesAssumption DEF Document, Empty
    <2> QED BY <2>1 DEF Stated, Setting
  <1>6. FeesStated(document) = IF adapter = "DERIBIT" THEN "deribit_options" ELSE "ib_options"
    <2>1. adapter \in {"IB", "DERIBIT"}
      BY <1>4
    <2>2. Upper(adapter) = adapter
      BY <2>1 DEF Upper
    <2> HIDE DEF adapter
    <2> QED BY <1>5, <2>1, <2>2 DEF FeesStated, adapter
  <1>7. /\ "fees.model" \in DOMAIN fees
        /\ fees["fees.model"] =
             IF adapter = "DERIBIT" THEN "maker_taker" ELSE "fixed_per_contract"
    <2> DEFINE name == FeesStated(document)
    <2>1. <<"fees", name>> \in DOMAIN Files
      BY <1>6, FeeFilesAssumption
    <2>2. Document("fees", name) = Files[<<"fees", name>>]
      BY <2>1 DEF Document
    <2>3. "fees.model" \in DOMAIN Files[<<"fees", name>>]
      BY <1>6, FeeFilesAssumption
    <2>4. Files[<<"fees", name>>]["fees.model"] =
             IF adapter = "DERIBIT" THEN "maker_taker" ELSE "fixed_per_contract"
      BY <1>6, FeeFilesAssumption
    <2>5. fees = FeeOverlay(name)
      OBVIOUS
    <2> HIDE DEF name, fees, adapter
    <2> QED BY <2>2, <2>3, <2>4, <2>5 DEF FeeOverlay
  <1>8. "fees.model" \notin DOMAIN caps
    BY <1>3 DEF Overlay, Empty
  <1>9. "fees.model" \notin DOMAIN session /\ "fees.model" \notin DOMAIN stream
    BY <1>3
  <1>10. "fees.model" \notin DOMAIN document
    OBVIOUS
  <1> HIDE DEF session, stream, caps, fees, adapter
  <1> QED BY <1>1, <1>2, <1>4, <1>7, <1>8, <1>9, <1>10

\* A backtest of a profile that leaves the fees to the overlays charges by the
\* model its strategies deduct from their edge.
THEOREM FeesAgree == Spec => []FeesCharged
  <1>1. ASSUME NodeInv PROVE FeesCharged
    <2> SUFFICES ASSUME node # None, command.name = "backtest",
                        {"fees.model", "fees_overlay"} \cap DOMAIN profile = {},
                        ~config["reference.backtest_plumbing"],
                        NEW i \in DOMAIN node.strategies
                 PROVE  node.fees = node.strategies[i].fees
      BY DEF FeesCharged
    <2>1. node.strategies = StrategyConfigs(config) /\ node.fees = BacktestFeeModel(config)
      BY <1>1 DEF NodeInv, BuiltInv
    <2>2. node.strategies[i].fees = config["fees.model"]
      <3>1. node.strategies[i] = StrategyConfig(config, resolved_strategies(config)[i])
        BY <2>1 DEF StrategyConfigs
      <3>2. ASSUME NEW runtime PROVE StrategyConfig(config, runtime).fees = config["fees.model"]
        BY Zenon DEF StrategyConfig
      <3> QED BY <3>1, <3>2
    <2>3. /\ config["venue.adapter"] \in {"IB", "DERIBIT"}
          /\ config["venue.adapter"] = Winning(profile, environ.vars, "venue.adapter")
          /\ config["fees.model"] = Winning(profile, environ.vars, "fees.model")
      BY <1>1, Defaults DEF NodeInv, ConfigInv
    <2>4. config["fees.model"] = IF config["venue.adapter"] = "DERIBIT"
                                 THEN "maker_taker" ELSE "fixed_per_contract"
      BY <1>1, <2>3, ScheduleOfVenue DEF NodeInv, PhaseInv
    <2> QED BY <2>1, <2>2, <2>3, <2>4 DEF BacktestFeeModel
  <1> QED BY NodeInvariant, <1>1, PTL
=============================================================================
