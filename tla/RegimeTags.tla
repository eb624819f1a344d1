----------------------------- MODULE RegimeTags -----------------------------
(***************************************************************************)
(* actors/regime.py, compute_regime_tag: the tag of a price, given the     *)
(* first price of the run and the prices in the window.  Prices are whole  *)
(* ticks and the thresholds thousandths, so that the comparisons of the    *)
(* code, which divide floats, become products of integers.                 *)
(***************************************************************************)
EXTENDS Integers, Sequences, SequencesExt

CONSTANTS
    TrendMove,        \* trend_move_pct, in thousandths
    ChopRange,        \* chop_range_pct, in thousandths
    PinProximity,     \* pin_strike_proximity_pct, in thousandths
    ChopPrices,       \* the fewest prices that can be called choppy
    StrikeStep        \* ticks between two whole numbers, the strikes

ASSUME RegimeTagsAssumption ==
    /\ {TrendMove, ChopRange, PinProximity} \subseteq Nat
    /\ {ChopPrices, StrikeStep} \subseteq Nat \ {0}

Apart(a, b) == IF a > b THEN a - b ELSE b - a

\* Mutant of RoundStrike: rounded down.
RoundStrikeDown(mid) == StrikeStep * (mid \div StrikeStep)

\* round(): to the nearest whole number, and from the middle to the even one.
RoundStrike(mid) ==
    LET below == mid \div StrikeStep
        rest  == 2 * (mid % StrikeStep)
        up    == rest > StrikeStep \/ (rest = StrikeStep /\ below % 2 = 1)
    IN  StrikeStep * (IF up THEN below + 1 ELSE below)

Trending(mid, open) == open > 0 /\ 1000 * Apart(mid, open) >= TrendMove * open

Choppy(mid, prices) ==
    /\ Len(prices) >= ChopPrices
    /\ mid > 0
    /\ 1000 * (Max(ToSet(prices)) - Min(ToSet(prices))) <= ChopRange * mid

Pinned(mid) == mid > 0 /\ 1000 * Apart(mid, RoundStrike(mid)) <= PinProximity * mid

ComputeRegimeTag(mid, open, prices) ==
    IF Trending(mid, open) THEN "TREND"
    ELSE IF Choppy(mid, prices) THEN "CHOP"
    ELSE IF Pinned(mid) THEN "PIN_RISK"
    ELSE "UNKNOWN"
=============================================================================
