---------------------------- MODULE MCSelections ----------------------------
(***************************************************************************)
(* The two selection algorithms on small inputs, one after the other in    *)
(* one run: a behaviour is about a batch of intents or about an option     *)
(* chain, and leaves the other half at rest.                               *)
(***************************************************************************)
EXTENDS SelectIntents, SelectStructure

Policy(topN, perInstrument, share) ==
    [topN |-> topN, perInstrument |-> perInstrument, strategyShare |-> share]

\* The defaults, a single place, and policies whose caps bite separately; a cap of zero
\* is a value the configuration accepts.
MCPolicies == { Policy(3, 1, 50), Policy(1, 1, 50), Policy(2, 2, 50),
                Policy(3, 2, 70), Policy(2, 0, 100) }

MCTicks == [DERIBIT |-> 10000, IB |-> 100]

\* Missing, good, one-sided, crossed, cheap and wide quotes.
MCQuotes == { NoQuote, <<300, 301>>, <<0, 301>>, <<303, 300>>, <<100, 101>>, <<299, 303>> }

MCConfigs == [width : {4, 6}, minEdge : {0, -5000}, minLiquidity : {0, 50}]

NoBatch ==
    /\ batch = <<>> /\ policy = Policy(1, 1, 50)
    /\ done = TRUE /\ approved = {} /\ rejected = {}

NoChain ==
    /\ venue = "IB"
    /\ chain = [strikes |-> {}, quotes |-> <<>>, atm |-> 100, underlying |-> 0]
    /\ cfg = [width |-> 4, minEdge |-> 0, minLiquidity |-> 0]
    /\ picked = TRUE /\ selected = {}

SelectionsInit == (Init /\ NoChain) \/ (NoBatch /\ PickInit)

SelectionsNext ==
    \/ Select /\ UNCHANGED pickVars
    \/ PickStructure /\ UNCHANGED vars

SelectionsSpec == SelectionsInit /\ [][SelectionsNext]_<<vars, pickVars>>
=============================================================================
