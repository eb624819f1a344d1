--------------------------- MODULE Configuration ---------------------------
(***************************************************************************)
(* The layered configuration: config/loader.py merges the YAML files and   *)
(* the environment, config/schema.py validates and resolves the result.    *)
(*                                                                         *)
(* A document is a function from leaves ("section.key", a section nested   *)
(* in the YAML) to values; it need not set every leaf.  A list is a leaf:  *)
(* a later one replaces it whole.  The leaves are those that decide what   *)
(* a node is built from.                                                   *)
(***************************************************************************)
EXTENDS Integers, Sequences, TLC

CONSTANTS
    Files,    \* configs/: from <<directory, name>> to the document of the file
    None

Empty == [leaf \in {} |-> None]

----------------------------------------------------------------------------
(* The layers. *)

\* _deep_merge: what the overlay sets wins, the rest stays.
Merge(base, overlay) ==
    [leaf \in DOMAIN base \cup DOMAIN overlay |->
        IF leaf \in DOMAIN overlay THEN overlay[leaf] ELSE base[leaf]]

\* AppConfig's own values of the leaves: None, off, or as listed.
Optional == {"strategies", "strategy.reference", "reference.option_series_id",
             "reference.option_series_expiry", "reference.hedge_perp_instrument"}

Switched == {"dry_run", "reference.backtest_plumbing", "diversification.enabled",
             "streaming.enabled", "ingestion.enabled", "deribit.testnet"}

Leaves == Optional \cup Switched \cup
            {"venue.adapter", "session.market_close_utc", "fees.model",
             "approval.human_edge_bps_threshold", "strategy.strategy_class",
             "strategy.underlying", "reference.structure_selector",
             "ingestion.max_chain_subscriptions", "ib.host"}

AppDefaults ==
    [leaf \in Leaves |->
        CASE leaf \in Optional -> None
          [] leaf \in Switched -> FALSE
          [] leaf = "venue.adapter" -> "IB"
          [] leaf = "session.market_close_utc" -> "21:00"
          [] leaf = "fees.model" -> "maker_taker"
          [] leaf = "approval.human_edge_bps_threshold" -> "50"
          [] leaf = "strategy.strategy_class" -> "skeleton"
          [] leaf = "strategy.underlying" -> "SPY.NYSE"
          [] leaf = "reference.structure_selector" -> "auto"
          [] leaf = "ingestion.max_chain_subscriptions" -> 3
          [] leaf = "ib.host" -> "127.0.0.1"]

\* A file that is not there is a layer that sets nothing; so is the profile.
Document(directory, name) ==
    IF <<directory, name>> \in DOMAIN Files THEN Files[<<directory, name>>] ELSE Empty

Setting(merged, leaf, default) == IF leaf \in DOMAIN merged THEN merged[leaf] ELSE default

Upper(adapter) == IF adapter = "deribit" THEN "DERIBIT" ELSE adapter

AdapterOf(merged) == Upper(Setting(merged, "venue.adapter", "IB"))

FeeOverlayName(merged) ==
    IF Setting(merged, "fees_overlay", None) # None THEN merged["fees_overlay"]
    ELSE CASE AdapterOf(merged) = "DERIBIT" -> "deribit_options"
           [] AdapterOf(merged) = "IB" -> "ib_options"
           [] OTHER -> None

\* Only the section "fees" of that file counts.
FeeOverlay(name) ==
    [leaf \in DOMAIN Document("fees", name) \cap {"fees.model"} |-> Document("fees", name)[leaf]]

SessionOverlayName(merged) ==
    IF Setting(merged, "session_overlay", None) # None THEN merged["session_overlay"]
    ELSE IF AdapterOf(merged) = "DERIBIT" THEN "crypto_deribit" ELSE "us_equity"

\* Whether the caps of configs/diversification apply.
Competing(merged) ==
    \/ Setting(merged, "strategies", None) \notin {None, <<>>}
    \/ Setting(merged, "diversification.enabled", FALSE) = TRUE

Overlay(condition, document) == IF condition THEN document ELSE Empty

\* The layers that come before the profile.
Under == Merge(Merge(Document("configs", "base"), Document("risk", "default")),
               Document("strategies", "reference"))

\* The overlays, each picked by what is merged so far.
Overlaid(merged) ==
    LET fees   == Merge(merged, FeeOverlay(FeeOverlayName(merged)))
        caps   == Merge(fees, Overlay(Competing(fees), Document("diversification", "default")))
        stream == Merge(caps, Document("streaming", "default"))
    IN  Merge(stream, Document("session", SessionOverlayName(stream)))

\* Mutants of Load: the profile is not merged again, and it is merged only at the end.
LoadProfileFirst(profile, environ) == Merge(Overlaid(Merge(Under, profile)), environ)
LoadProfileLast(profile, environ)  == Merge(Merge(Overlaid(Under), profile), environ)

\* load_config up to validation: the profile goes in first so that it picks
\* the overlays, and once more at the end so that it wins over them.
Load(profile, environ) ==
    Merge(Merge(Overlaid(Merge(Under, profile)), profile), environ)

\* AppConfig.model_validate: an adapter the enum does not have is refused, in
\* lower case too; what no layer sets has its default, what is no leaf is dropped.
Validates(merged) == Setting(merged, "venue.adapter", "IB") \in {"IB", "DERIBIT"}
Validated(merged) == [leaf \in Leaves |-> Setting(merged, leaf, AppDefaults[leaf])]

----------------------------------------------------------------------------
(* What the code reads off a configuration. *)

\* The shared block "reference" of the configuration.
SharedReference(config) ==
    [backtest_plumbing     |-> config["reference.backtest_plumbing"],
     structure_selector    |-> config["reference.structure_selector"],
     option_series_id      |-> config["reference.option_series_id"],
     option_series_expiry  |-> config["reference.option_series_expiry"],
     hedge_perp_instrument |-> config["reference.hedge_perp_instrument"]]

resolved_strategies(config) ==
    IF config["strategies"] \notin {None, <<>>} THEN config["strategies"]
    ELSE << [strategy_class |-> config["strategy.strategy_class"],
             underlying     |-> config["strategy.underlying"],
             reference      |-> config["strategy.reference"]] >>

\* runtime.reference or config.reference: a block of its own replaces the
\* shared one whole.
ReferenceOf(config, runtime) ==
    IF runtime.reference # None THEN runtime.reference ELSE SharedReference(config)

selector_enabled(config) ==
    \/ config["diversification.enabled"]
    \/ Len(resolved_strategies(config)) > 1

----------------------------------------------------------------------------
(* The same, from the top: who sets a leaf has the say over everyone below. *)

\* The value of a leaf before any overlay is picked.
Stated(profile, leaf, default) ==
    IF leaf \in DOMAIN profile THEN profile[leaf]
    ELSE IF leaf \in DOMAIN Document("strategies", "reference")
         THEN Document("strategies", "reference")[leaf]
    ELSE IF leaf \in DOMAIN Document("risk", "default")
         THEN Document("risk", "default")[leaf]
    ELSE Setting(Document("configs", "base"), leaf, default)

FeesStated(profile) ==
    LET named   == Stated(profile, "fees_overlay", None)
        adapter == Upper(Stated(profile, "venue.adapter", "IB"))
    IN  IF named # None THEN named
        ELSE IF adapter = "DERIBIT" THEN "deribit_options"
        ELSE IF adapter = "IB" THEN "ib_options" ELSE None

SessionStated(profile) ==
    LET named   == Stated(profile, "session_overlay", None)
        adapter == Upper(Stated(profile, "venue.adapter", "IB"))
    IN  IF named # None THEN named
        ELSE IF adapter = "DERIBIT" THEN "crypto_deribit" ELSE "us_equity"

CompetingStated(profile) ==
    \/ Stated(profile, "strategies", None) \notin {None, <<>>}
    \/ Stated(profile, "diversification.enabled", FALSE) = TRUE

\* The value of a leaf, given the layers: the first that sets it.
Winning(profile, environ, leaf) ==
    LET session == Document("session", SessionStated(profile))
        stream  == Document("streaming", "default")
        caps    == Overlay(CompetingStated(profile), Document("diversification", "default"))
        fees    == FeeOverlay(FeesStated(profile))
    IN  IF leaf \in DOMAIN environ THEN environ[leaf]
        ELSE IF leaf \in DOMAIN profile THEN profile[leaf]
        ELSE IF leaf \in DOMAIN session THEN session[leaf]
        ELSE IF leaf \in DOMAIN stream THEN stream[leaf]
        ELSE IF leaf \in DOMAIN caps THEN caps[leaf]
        ELSE IF leaf \in DOMAIN fees THEN fees[leaf]
        ELSE Stated(profile, leaf, AppDefaults[leaf])

\* Strategies and expiries come from profiles only, and the overlays set no
\* leaf by which overlays are picked; the budget of the planner is a number.
Picking == {"venue.adapter", "session_overlay", "fees_overlay",
            "strategies", "diversification.enabled"}
ASSUME FilesAssumption ==
    \A file \in DOMAIN Files :
        /\ DOMAIN Files[file] \cap {"strategies", "strategy.reference",
                                   "reference.option_series_expiry"} = {}
        /\ file[1] \in {"fees", "diversification", "streaming", "session"}
            => DOMAIN Files[file] \cap Picking = {}
        /\ "ingestion.max_chain_subscriptions" \in DOMAIN Files[file]
            => Files[file]["ingestion.max_chain_subscriptions"] \in Int

\* configs/fees/ has a schedule of the kind of each venue; no other file sets
\* the model of the fees, and none names the schedule to take.
ASSUME FeeFilesAssumption ==
    /\ {<<"fees", "deribit_options">>, <<"fees", "ib_options">>} \subseteq DOMAIN Files
    /\ \A file \in DOMAIN Files : /\ "fees_overlay" \notin DOMAIN Files[file]
                                  /\ file[1] # "fees" => "fees.model" \notin DOMAIN Files[file]
    /\ \A name \in {"deribit_options", "ib_options"} :
            "fees.model" \in DOMAIN Files[<<"fees", name>>]
    /\ Files[<<"fees", "deribit_options">>]["fees.model"] = "maker_taker"
    /\ Files[<<"fees", "ib_options">>]["fees.model"] = "fixed_per_contract"
=============================================================================
