----------------------------- MODULE Structures -----------------------------
(***************************************************************************)
(* strategies/selectors/ and costs/: which call vertical a strategy picks  *)
(* from an option chain, and the edge it is credited with.                 *)
(*                                                                         *)
(* Premiums are whole ticks, liquidity is in per cent and edges are in     *)
(* basis points, rounded down where the code divides floats.  A quote is   *)
(* <<bid, ask>>; a price that is missing is 0, as the code makes it.       *)
(***************************************************************************)
EXTENDS Integers, FiniteSetsExt

CONSTANTS
    TicksPerUnit,     \* per venue: ticks of premium in one unit of the currency of the
                      \* strikes (IB) or of the settlement (Deribit)
    FeeBps,           \* maker_fee or taker_fee, whichever entry_liquidity names
    CommissionTicks,  \* commission_per_contract * contracts_per_spread
    Multiplier,       \* option_multiplier
    SlippageBps       \* expected_slippage_bps

Venues == {"DERIBIT", "IB"}

ASSUME StructuresAssumption ==
    /\ TicksPerUnit \in [Venues -> Nat \ {0}] /\ Multiplier \in Nat \ {0}
    /\ {FeeBps, CommissionTicks, SlippageBps} \subseteq Nat

NoQuote == <<>>

Bid(q) == q[1]
Ask(q) == q[2]

Clamp(lo, x, hi) == IF x < lo THEN lo ELSE IF x > hi THEN hi ELSE x

-----------------------------------------------------------------------------
\* _quote_liquidity: one per cent of spread is no liquidity at all.
SpreadBps(q) ==
    IF Bid(q) <= 0 \/ Ask(q) <= 0 THEN 100
    ELSE (20000 * (Ask(q) - Bid(q))) \div (Bid(q) + Ask(q))

Liquidity(q) ==
    IF Bid(q) <= 0 \/ Ask(q) <= 0 THEN 0 ELSE Clamp(0, 100 - SpreadBps(q), 100)

\* min(strikes, key = distance): of two at the same distance the lower one.
Nearest(strikes, x) ==
    LET Distance(s) == IF s > x THEN s - x ELSE x - s
        nearest     == {s \in strikes : \A t \in strikes : Distance(s) <= Distance(t)}
    IN  Min(nearest)

\* Mutant of Intrinsic: the short call is forgotten.
IntrinsicOfLong(underlying, low, high) == IF underlying > low THEN underlying - low ELSE 0

\* What the spread is worth if the underlying stays where it is.
Intrinsic(underlying, low, high) == Clamp(0, underlying - low, high - low)

\* In ticks; Deribit's premiums are paid in the underlying itself.
Value(venue, underlying, low, high) ==
    LET paid == TicksPerUnit[venue] * Intrinsic(underlying, low, high)
    IN  IF venue = "DERIBIT" THEN paid \div underlying ELSE paid

\* Mutant of NetGainBps: what is paid and what is got are swapped.
LossBps(venue, value, debit) == (10000 * (debit - value)) \div debit - FeeBps

\* The gain over the debit, less commission: a rate of the debit on Deribit, an amount
\* per contract on IB.
NetGainBps(venue, value, debit) ==
    IF venue = "DERIBIT"
    THEN (10000 * (value - debit)) \div debit - FeeBps
    ELSE (10000 * (Multiplier * (value - debit) - CommissionTicks)) \div (Multiplier * debit)

EdgeAfterCost(venue, value, debit, lowQuote, highQuote) ==
    NetGainBps(venue, value, debit) - SlippageBps
        - (SpreadBps(lowQuote) + SpreadBps(highQuote)) \div 2

-----------------------------------------------------------------------------
(* select_from_chain.  A chain has the strikes it lists, a quote or NoQuote *)
(* for each, the at-the-money strike and the price of the underlying that   *)
(* comes with the greeks, or 0.                                             *)

\* Mutant of Legs: the width is measured from the money.
LegsFromMoney(chain, width) ==
    [low  |-> Nearest(chain.strikes, chain.atm),
     high |-> Nearest(chain.strikes, chain.atm + width)]

Legs(chain, width) ==
    LET low == Nearest(chain.strikes, chain.atm)
    IN  [low |-> low, high |-> Nearest(chain.strikes, low + width)]

\* Bought at the ask and sold at the bid; 0 if one of them is missing.
Debit(lowQuote, highQuote) ==
    IF Ask(lowQuote) # 0 /\ Bid(highQuote) # 0 THEN Ask(lowQuote) - Bid(highQuote) ELSE 0

UnderlyingPrice(chain, low) == IF chain.underlying # 0 THEN chain.underlying ELSE low

\* Both legs are listed, quoted, liquid and cost something.
Tradable(chain, cfg) ==
    /\ chain.strikes # {}
    /\ LET legs == Legs(chain, cfg.width)
           low  == chain.quotes[legs.low]
           high == chain.quotes[legs.high]
       IN  /\ legs.high > legs.low
           /\ low # NoQuote /\ high # NoQuote
           /\ Liquidity(low) >= cfg.minLiquidity /\ Liquidity(high) >= cfg.minLiquidity
           /\ Debit(low, high) > 0

Structure(venue, chain, cfg) ==
    LET legs  == Legs(chain, cfg.width)
        low   == chain.quotes[legs.low]
        high  == chain.quotes[legs.high]
        value == Value(venue, UnderlyingPrice(chain, legs.low), legs.low, legs.high)
    IN  [low |-> legs.low, high |-> legs.high,
         liquidity |-> Min({Liquidity(low), Liquidity(high)}),
         edge |-> EdgeAfterCost(venue, value, Debit(low, high), low, high)]

\* Only the IB selector looks at the least edge itself; {} stands for None.
Selected(venue, chain, cfg) ==
    IF Tradable(chain, cfg)
    THEN {s \in {Structure(venue, chain, cfg)} : venue = "IB" => s.edge >= cfg.minEdge}
    ELSE {}
=============================================================================
