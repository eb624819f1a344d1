---------------------------- MODULE SelectIntents ----------------------------
(***************************************************************************)
(* The algorithm of Diversification run on every batch up to a bound: a    *)
(* batch is chosen in Init, one step applies the policy to it.             *)
(***************************************************************************)
EXTENDS Diversification

CONSTANTS
    StrategyIds, Instruments, Edges,  \* what the fields of an intent range over
    MaxBatch,                         \* bound: intents in a batch
    Policies                          \* the policies tried

ASSUME BatchAssumption ==
    /\ MaxBatch \in Nat
    /\ Edges \subseteq Int
    /\ Policies \subseteq [topN : Int, perInstrument : Int, strategyShare : Int]

VARIABLES batch, policy, done, approved, rejected

vars == <<batch, policy, done, approved, rejected>>

Intent == [id : 1 .. MaxBatch, strategy : StrategyIds, instrument : Instruments, edge : Edges]

DistinctIds(s) == \A j, k \in DOMAIN s : s[j].id = s[k].id => j = k

Init ==
    /\ batch \in {s \in BoundedSeq(Intent, MaxBatch) : DistinctIds(s)}
    /\ policy \in Policies
    /\ done = FALSE
    /\ approved = {} /\ rejected = {}

Select ==
    /\ ~ done
    /\ done' = TRUE
    /\ approved' = Approved(batch, policy)
    /\ rejected' = Rejected(batch, policy)
    /\ UNCHANGED <<batch, policy>>

Next == Select

Spec == Init /\ [][Next]_vars

-----------------------------------------------------------------------------
Better(i) == {j \in approved : Precedes(j, i)}

\* The places of a strategy, in whole numbers and without rounding: the first is always
\* its own, and each further one must fit into its share of the batch.
PlaceLeft(taken) == taken = 0 \/ 100 * (taken + 1) <= policy.topN * policy.strategyShare

\* The reference: an intent is approved exactly if, counting the approved intents that
\* rank before it only, the batch, its instrument and its strategy have a place left.
\* (select_intents stops at top_n and skips at the other two caps; the reference knows
\* nothing of the order in which the strategies published: "Sort is deterministic",
\* diversification.py:25.)
GreedyByRank ==
    done => \A i \in ToSet(batch) :
        i \in approved <=>
            /\ Cardinality(Better(i)) < policy.topN
            /\ Cardinality({j \in Better(i) : j.instrument = i.instrument}) < policy.perInstrument
            /\ PlaceLeft(Cardinality({j \in Better(i) : j.strategy = i.strategy}))

\* A rejected intent could not be added to the approved ones: the room the policy gives
\* is used up, also where a low-ranked intent of another strategy has to fill it.
NoRoomWasted ==
    done => \A i \in rejected :
        \/ Cardinality(approved) >= policy.topN
        \/ Like(approved, i, "instrument") >= policy.perInstrument
        \/ ~ PlaceLeft(Like(approved, i, "strategy"))
=============================================================================
