--------------------------- MODULE SelectStructure ---------------------------
(***************************************************************************)
(* The structure selectors on every chain up to a bound: a chain and a     *)
(* configuration are chosen first, one step selects.                       *)
(***************************************************************************)
EXTENDS Structures

CONSTANTS
    Strikes,       \* the strikes a chain may list
    Quotes,        \* the quotes a strike may have
    Moneys,        \* the at-the-money strikes
    Underlyings,   \* the prices that may come with the greeks, 0 for none
    Configs        \* records of width, minEdge and minLiquidity

ASSUME SelectStructureAssumption ==
    /\ Strikes \subseteq Nat \ {0} /\ Moneys \subseteq Nat \ {0} /\ Underlyings \subseteq Nat
    /\ Quotes \subseteq {NoQuote} \cup (Nat \X Nat)
    /\ Configs \subseteq [width : Int, minEdge : Int, minLiquidity : Int]

VARIABLES venue, chain, cfg, picked, selected

pickVars == <<venue, chain, cfg, picked, selected>>

Chains == UNION { [strikes : {listed}, quotes : [listed -> Quotes],
                   atm : Moneys, underlying : Underlyings] : listed \in SUBSET Strikes }

PickInit ==
    /\ venue \in Venues
    /\ chain \in Chains
    /\ cfg \in Configs
    /\ picked = FALSE /\ selected = {}

PickStructure ==
    /\ ~ picked
    /\ picked' = TRUE
    /\ selected' = Selected(venue, chain, cfg)
    /\ UNCHANGED <<venue, chain, cfg>>

PickSpec == PickInit /\ [][PickStructure]_pickVars

-----------------------------------------------------------------------------
Distance(s, x) == IF s > x THEN s - x ELSE x - s

\* No listed strike is nearer to x, and none that is lower is as near.
IsNearest(s, x) ==
    \A t \in chain.strikes \ {s} :
        \/ Distance(t, x) > Distance(s, x)
        \/ Distance(t, x) = Distance(s, x) /\ t > s

\* The legs are two listed strikes: the one nearest to the money, and the one nearest to
\* the width above that one, whatever the chain leaves out.
NearestStrikes ==
    \A s \in selected :
        /\ {s.low, s.high} \subseteq chain.strikes /\ s.low < s.high
        /\ IsNearest(s.low, chain.atm)
        /\ IsNearest(s.high, s.low + cfg.width)

\* A vertical pays at most the distance of its strikes: the edge it is credited with, on
\* quotes that are not crossed, never exceeds the gain of that payment over the debit.
\* (A crossed quote has a negative spread, which raises the edge.)
EdgeWithinWidth ==
    \A s \in selected :
        LET low  == chain.quotes[s.low]
            high == chain.quotes[s.high]
            paid == TicksPerUnit[venue] * (s.high - s.low)
            most == IF venue = "IB" THEN paid ELSE paid \div UnderlyingPrice(chain, s.low)
        IN  Bid(low) <= Ask(low) /\ Bid(high) <= Ask(high) =>
                s.edge * Debit(low, high) <= 10000 * (most - Debit(low, high))

\* A higher ask of the leg that is bought never raises the edge: neither the spread nor the
\* commission, which weighs less on a larger debit, turns the cost into an advantage.  (On
\* IB the structure must be worth the commission: if not, a larger debit dilutes the loss.)
WorseAskNoBetter ==
    \A s \in selected :
        LET value == Value(venue, UnderlyingPrice(chain, s.low), s.low, s.high)
            worse == [chain EXCEPT !.quotes[s.low][2] = @ + 1]
        IN  (venue = "IB" => Multiplier * value >= CommissionTicks) =>
                \A t \in Selected(venue, worse, cfg) : t.edge <= s.edge
=============================================================================
