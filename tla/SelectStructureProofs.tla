------------------------ MODULE SelectStructureProofs ------------------------
(***************************************************************************)
(* Proofs about SelectStructure, for chains with any strikes and quotes    *)
(* and for every configuration and schedule of fees.                       *)
(***************************************************************************)
EXTENDS SelectStructure, WellFoundedInduction, TLAPS

\* Every nonempty set of natural numbers has a least element.
LEMMA LeastNumber ==
    ASSUME NEW T \in SUBSET Nat, T # {}
    PROVE  \E x \in T : \A y \in T : x <= y
  <1>1. PICK x \in T : \A y \in T : <<y, x>> \notin OpToRel(<, Nat)
    <2>1. T \subseteq Nat /\ T # {}
      OBVIOUS
    <2> QED BY <2>1, NatLessThanWellFounded, WFMin, Zenon
  <1>2. \A y \in T : ~ (y < x)
    BY <1>1, Zenon DEF OpToRel
  <1>3. \A y \in T : y \in Int /\ x \in Int
    OBVIOUS
  <1> QED BY <1>2, <1>3

-----------------------------------------------------------------------------
(* Arithmetic.  The provers are weak at products and quotients: these are   *)
(* the facts about them that the edge needs.                                *)

\* The quotient is rounded down.
LEMMA DivBounds ==
    ASSUME NEW a \in Int, NEW b \in Nat \ {0}
    PROVE  a \div b \in Int /\ b * (a \div b) <= a /\ a < b * (a \div b) + b
  OBVIOUS

\* Multiplying keeps the order.
LEMMA TimesKeepsOrder ==
    ASSUME NEW a \in Int, NEW b \in Int, NEW c \in Nat, a <= b
    PROVE  a * c <= b * c
  OBVIOUS

\* A common factor can be cancelled.
LEMMA TimesGivesOrder ==
    ASSUME NEW a \in Int, NEW b \in Int, NEW c \in Nat \ {0}, a * c <= b * c
    PROVE  a <= b
  OBVIOUS

\* A common factor can be cancelled from a strict order too.
LEMMA TimesGivesStrictOrder ==
    ASSUME NEW a \in Int, NEW b \in Int, NEW c \in Nat \ {0}, a * c < b * c
    PROVE  a < b
  OBVIOUS

\* Quotients are ordered as their fractions.
LEMMA DivOrder ==
    ASSUME NEW a \in Int, NEW b \in Nat \ {0}, NEW c \in Int, NEW d \in Nat \ {0},
           c * b <= a * d
    PROVE  c \div d <= a \div b
  <1> DEFINE p == a \div b
             q == c \div d
  <1>1. p \in Int /\ q \in Int /\ d * q <= c /\ a < b * p + b
    BY DivBounds
  <1> HIDE DEF p, q
  <1>2. (d * q) * b <= c * b
    <2>1. d * q \in Int
      BY <1>1
    <2> HIDE DEF p
    <2> QED
      BY <1>1, <2>1, TimesKeepsOrder
  <1>3. (q * b) * d = (d * q) * b
    BY <1>1
  <1>4. a * d < ((p + 1) * b) * d
    <2>1. a < (p + 1) * b /\ (p + 1) * b \in Int
      BY <1>1
    <2> QED
      BY <2>1
  <1>5. (q * b) * d < ((p + 1) * b) * d
    <2> DEFINE u == (q * b) * d
               v == (d * q) * b
               w == c * b
               x == a * d
               y == ((p + 1) * b) * d
    <2>1. u \in Int /\ v \in Int /\ w \in Int /\ x \in Int /\ y \in Int
      BY <1>1
    <2>2. v <= w /\ w <= x /\ x < y /\ u = v
      BY <1>2, <1>3, <1>4
    <2> HIDE DEF u, v, w, x, y
    <2>3. u < y
      BY <2>1, <2>2
    <2> QED
      BY <2>3 DEF u, y
  <1>6. q * b \in Int /\ (p + 1) * b \in Int
    BY <1>1
  <1>7. q * b < (p + 1) * b
    BY <1>5, <1>6, TimesGivesStrictOrder
  <1>8. q < p + 1
    BY <1>1, <1>7, TimesGivesStrictOrder
  <1> QED
    BY <1>1, <1>8 DEF p, q

-----------------------------------------------------------------------------
(* The strikes.                                                             *)

\* min() of the strikes by distance is the nearest strike, of two the lower one.
LEMMA NearestIsNearest ==
    ASSUME NEW strikes \in SUBSET Nat, strikes # {}, NEW x \in Int
    PROVE  /\ Nearest(strikes, x) \in strikes
           /\ \A t \in strikes \ {Nearest(strikes, x)} :
                 \/ Distance(t, x) > Distance(Nearest(strikes, x), x)
                 \/ Distance(t, x) = Distance(Nearest(strikes, x), x) /\ t > Nearest(strikes, x)
  <1> DEFINE near == {s \in strikes : \A t \in strikes : Distance(s, x) <= Distance(t, x)}
             m    == Nearest(strikes, x)
  <1>1. \A s \in strikes : Distance(s, x) \in Nat
    BY DEF Distance
  <1>2. near # {}
    <2> DEFINE D == {Distance(s, x) : s \in strikes}
    <2>1. D \in SUBSET Nat /\ D # {}
      BY <1>1
    <2>2. PICK d \in D : \A e \in D : d <= e
      <3> HIDE DEF D
      <3> QED
        BY <2>1, LeastNumber
    <2>3. PICK s \in strikes : d = Distance(s, x)
      OBVIOUS
    <2>4. \A t \in strikes : Distance(s, x) <= Distance(t, x)
      BY <2>2, <2>3
    <2> QED
      BY <2>4
  <1>3. m = Min(near)
    BY DEF Nearest, Distance
  <1>4. m \in near /\ \A s \in near : m <= s
    <2>1. near \in SUBSET Nat
      OBVIOUS
    <2> HIDE DEF near, m
    <2>2. \E s \in near : \A t \in near : s <= t
      BY <1>2, <2>1, LeastNumber
    <2> QED
      BY <1>3, <2>2 DEF Min
  <1> HIDE DEF m
  <1>5. m \in strikes /\ \A t \in strikes : Distance(m, x) <= Distance(t, x)
    BY <1>4
  <1>6. ASSUME NEW t \in strikes \ {m}, ~ Distance(t, x) > Distance(m, x)
        PROVE  Distance(t, x) = Distance(m, x) /\ t > m
    <2>1. Distance(t, x) = Distance(m, x)
      BY <1>1, <1>5, <1>6
    <2>2. t \in near
      BY <1>5, <2>1
    <2>3. t \in Nat /\ m \in Nat /\ m <= t /\ m # t
      BY <1>4, <2>2
    <2> QED
      BY <2>1, <2>3
  <1> QED
    BY <1>5, <1>6 DEF m

-----------------------------------------------------------------------------
(* The edge.                                                                *)

\* A quote that is there.
Quoted == Nat \X Nat

\* The spread is a number, and not a negative one if the quote is not crossed.
LEMMA SpreadTyped ==
    ASSUME NEW q \in Quoted
    PROVE  SpreadBps(q) \in Int /\ (Bid(q) <= Ask(q) => SpreadBps(q) >= 0)
  <1>1. Bid(q) \in Nat /\ Ask(q) \in Nat
    BY DEF Bid, Ask, Quoted
  <1>2. CASE Bid(q) <= 0 \/ Ask(q) <= 0
    BY <1>2 DEF SpreadBps
  <1>3. CASE ~ (Bid(q) <= 0 \/ Ask(q) <= 0)
    <2> DEFINE a == 20000 * (Ask(q) - Bid(q))
               b == Bid(q) + Ask(q)
    <2>1. a \in Int /\ b \in Nat \ {0} /\ (Bid(q) <= Ask(q) => a >= 0)
      BY <1>1, <1>3
    <2>2. SpreadBps(q) = a \div b
      BY <1>3 DEF SpreadBps
    <2> HIDE DEF a, b
    <2>3. a \div b \in Int /\ a < b * (a \div b) + b
      BY <2>1, DivBounds
    <2>4. a >= 0 => a \div b >= 0
      BY <2>1, <2>3
    <2> QED
      BY <2>1, <2>2, <2>3, <2>4
  <1> QED
    BY <1>2, <1>3

\* A higher ask is a wider spread.
LEMMA WorseAskWidens ==
    ASSUME NEW b \in Nat, NEW a \in Nat \ {0}
    PROVE  SpreadBps(<<b, a>>) <= SpreadBps(<<b, a + 1>>)
  <1>1. CASE b = 0
    BY <1>1 DEF SpreadBps, Bid, Ask
  <1>2. CASE b # 0
    <2> DEFINE x == 20000 * (a - b)
               y == b + a
               z == 20000 * (a + 1 - b)
               w == b + (a + 1)
    <2>1. x \in Int /\ y \in Nat \ {0} /\ z \in Int /\ w \in Nat \ {0}
      BY <1>2
    <2>2. x * w <= z * y
      <3>1. z * y = x * w + 40000 * b
        OBVIOUS
      <3> QED
        BY <2>1, <3>1
    <2>3. SpreadBps(<<b, a>>) = x \div y /\ SpreadBps(<<b, a + 1>>) = z \div w
      BY <1>2 DEF SpreadBps, Bid, Ask
    <2> HIDE DEF x, y, z, w
    <2> QED
      BY <2>1, <2>2, <2>3, DivOrder
  <1> QED
    BY <1>1, <1>2

\* The net gain is a rate of the debit that does not exceed what is gained.
LEMMA NetGainWithin ==
    ASSUME NEW v \in Venues, NEW V \in Int, NEW D \in Nat \ {0}
    PROVE  NetGainBps(v, V, D) \in Int /\ NetGainBps(v, V, D) * D <= 10000 * (V - D)
  <1>1. FeeBps \in Nat /\ CommissionTicks \in Nat /\ Multiplier \in Nat \ {0}
    BY StructuresAssumption
  <1>2. CASE v = "DERIBIT"
    <2> DEFINE g == 10000 * (V - D)
    <2>1. g \in Int
      OBVIOUS
    <2>2. NetGainBps(v, V, D) = g \div D - FeeBps
      BY <1>2 DEF NetGainBps
    <2> HIDE DEF g
    <2>3. g \div D \in Int /\ D * (g \div D) <= g
      BY <2>1, DivBounds
    <2> DEFINE r == g \div D
    <2>4. r \in Int /\ D * r <= g
      BY <2>3
    <2> HIDE DEF r
    <2>5. (r - FeeBps) * D <= g
      <3>1. (r - FeeBps) * D = D * r - FeeBps * D /\ FeeBps * D \in Nat /\ D * r \in Int
        BY <1>1, <2>4
      <3> QED
        BY <2>1, <2>4, <3>1
    <2> QED
      BY <1>1, <2>2, <2>4, <2>5 DEF r, g
  <1>3. CASE v # "DERIBIT"
    <2> DEFINE x == 10000 * (Multiplier * (V - D) - CommissionTicks)
               y == Multiplier * D
    <2>1. x \in Int /\ y \in Nat \ {0} /\ x <= (10000 * (V - D)) * Multiplier
      BY <1>1
    <2>2. NetGainBps(v, V, D) = x \div y
      BY <1>3 DEF NetGainBps
    <2>3. x \div y \in Int /\ y * (x \div y) <= x
      <3> HIDE DEF x, y
      <3> QED
        BY <2>1, DivBounds
    <2> DEFINE r == x \div y
    <2>4. r \in Int /\ y * r <= (10000 * (V - D)) * Multiplier
      <3> DEFINE h == (10000 * (V - D)) * Multiplier
                 k == y * r
      <3>1. h \in Int /\ k \in Int /\ k <= x /\ x <= h
        BY <1>1, <2>1, <2>3
      <3> HIDE DEF h, k, x
      <3>2. k <= h
        BY <2>1, <3>1
      <3> QED
        BY <2>3, <3>2 DEF h, k
    <2> HIDE DEF r
    <2>5. (r * D) * Multiplier <= (10000 * (V - D)) * Multiplier
      <3>1. (r * D) * Multiplier = y * r
        BY <1>1, <2>4
      <3> QED
        BY <2>4, <3>1
    <2>6. r * D <= 10000 * (V - D)
      <3>1. r * D \in Int /\ 10000 * (V - D) \in Int
        BY <2>4
      <3> QED
        BY <1>1, <2>5, <3>1, TimesGivesOrder
    <2> QED
      BY <2>2, <2>4, <2>6 DEF r
  <1> QED
    BY <1>2, <1>3

\* On a larger debit the net gain is not larger, if the structure is worth the commission.
LEMMA WorseDebitNoBetter ==
    ASSUME NEW v \in Venues, NEW V \in Nat, NEW D \in Nat \ {0},
           v = "IB" => Multiplier * V >= CommissionTicks
    PROVE  NetGainBps(v, V, D + 1) <= NetGainBps(v, V, D)
  <1>1. FeeBps \in Nat /\ CommissionTicks \in Nat /\ Multiplier \in Nat \ {0}
    BY StructuresAssumption
  <1>2. CASE v = "DERIBIT"
    <2> DEFINE x == 10000 * (V - D)
               z == 10000 * (V - (D + 1))
    <2>1. x \in Int /\ z \in Int /\ D + 1 \in Nat \ {0}
      OBVIOUS
    <2>2. z * D <= x * (D + 1)
      <3>1. x * (D + 1) = z * D + 10000 * V
        OBVIOUS
      <3>2. z * D \in Int /\ 10000 * V \in Nat
        OBVIOUS
      <3> QED
        BY <3>1, <3>2
    <2>3. NetGainBps(v, V, D) = x \div D - FeeBps
            /\ NetGainBps(v, V, D + 1) = z \div (D + 1) - FeeBps
      BY <1>2 DEF NetGainBps
    <2> HIDE DEF x, z
    <2>4. z \div (D + 1) <= x \div D
      BY <2>1, <2>2, DivOrder
    <2>5. z \div (D + 1) \in Int /\ x \div D \in Int
      BY <2>1, DivBounds
    <2> QED
      BY <1>1, <2>3, <2>4, <2>5
  <1>3. CASE v = "IB"
    <2> DEFINE K == Multiplier * V - CommissionTicks
               x == 10000 * (K - Multiplier * D)
               y == Multiplier * D
               z == 10000 * (K - Multiplier * (D + 1))
               w == Multiplier * (D + 1)
    <2>1. K \in Nat /\ x \in Int /\ z \in Int /\ y \in Nat \ {0} /\ w \in Nat \ {0}
      BY <1>1, <1>3
    <2>2. z * y <= x * w
      <3>1. w = y + Multiplier /\ x = 10000 * (K - y) /\ z = 10000 * (K - w)
        BY <1>1
      <3> HIDE DEF K, x, y, z, w
      <3>2. x * w = z * y + 10000 * (K * Multiplier)
        BY <1>1, <2>1, <3>1
      <3>3. z * y \in Int /\ 10000 * (K * Multiplier) \in Nat
        BY <1>1, <2>1
      <3> QED
        BY <3>2, <3>3
    <2>3. NetGainBps(v, V, D) = x \div y /\ NetGainBps(v, V, D + 1) = z \div w
      <3>1. /\ Multiplier * (V - D) - CommissionTicks = K - Multiplier * D
            /\ Multiplier * (V - (D + 1)) - CommissionTicks = K - Multiplier * (D + 1)
        BY <1>1
      <3> QED
        BY <1>3, <3>1 DEF NetGainBps
    <2> HIDE DEF x, y, z, w
    <2> QED
      BY <2>1, <2>2, <2>3, DivOrder
  <1> QED
    BY <1>2, <1>3 DEF Venues

-----------------------------------------------------------------------------
(* What is selected.                                                        *)

\* A chain with numbers for strikes and prices.
Sound(ch) ==
    /\ ch.strikes \subseteq Nat \ {0}
    /\ ch.quotes \in [ch.strikes -> {NoQuote} \cup Quoted]
    /\ ch.atm \in Nat \ {0} /\ ch.underlying \in Nat

\* The chains of the specification are sound.
LEMMA ChainsSound ==
    ASSUME NEW ch \in Chains
    PROVE  Sound(ch)
  <1>1. PICK listed \in SUBSET Strikes :
            ch \in [strikes : {listed}, quotes : [listed -> Quotes], atm : Moneys, underlying : Underlyings]
    BY DEF Chains
  <1>2. ch.strikes = listed /\ ch.quotes \in [listed -> Quotes] /\ ch.atm \in Moneys
          /\ ch.underlying \in Underlyings
    BY <1>1
  <1> QED
    BY <1>2, SelectStructureAssumption DEF Sound, Quoted

\* The value of a vertical is not negative and at most the distance of its strikes.
LEMMA ValueWithin ==
    ASSUME NEW v \in Venues, NEW u \in Nat \ {0}, NEW low \in Nat, NEW high \in Nat, low < high
    PROVE  LET paid == TicksPerUnit[v] * (high - low)
           IN  /\ Value(v, u, low, high) \in Nat
               /\ Value(v, u, low, high) <= IF v = "IB" THEN paid ELSE paid \div u
               /\ (IF v = "IB" THEN paid ELSE paid \div u) \in Int
  <1> DEFINE n    == TicksPerUnit[v]
             i    == Intrinsic(u, low, high)
             a    == n * i
             paid == n * (high - low)
  <1>1. n \in Nat \ {0}
    BY StructuresAssumption
  <1>2. i \in Nat /\ i <= high - low /\ high - low \in Nat
    BY DEF Intrinsic, Clamp
  <1> HIDE DEF n, i
  <1>3. a \in Nat /\ paid \in Nat /\ a <= paid
    <2>1. i * n <= (high - low) * n
      BY <1>1, <1>2, TimesKeepsOrder
    <2> QED
      BY <1>1, <1>2, <2>1
  <1>4. Value(v, u, low, high) = IF v = "IB" THEN a ELSE a \div u
    BY DEF Value, Venues, n, i
  <1> HIDE DEF a, paid
  <1>5. a \div u <= paid \div u
    <2>1. a * u <= paid * u
      BY <1>3, TimesKeepsOrder
    <2> QED
      BY <1>3, <2>1, DivOrder
  <1>6. a \div u \in Int /\ paid \div u \in Int /\ a < u * (a \div u) + u
    BY <1>3, DivBounds
  <1>7. a \div u >= 0
    BY <1>3, <1>6
  <1> QED
    BY <1>3, <1>4, <1>5, <1>6, <1>7 DEF paid, n

\* What a selected structure is: the legs, their quotes, the debit and the edge.
LEMMA SelectedMeans ==
    ASSUME NEW v \in Venues, NEW ch, Sound(ch), NEW c \in Configs, NEW s \in Selected(v, ch, c)
    PROVE  LET low   == ch.quotes[s.low]
               high  == ch.quotes[s.high]
               value == Value(v, UnderlyingPrice(ch, s.low), s.low, s.high)
           IN  /\ ch.strikes # {}
               /\ s.low = Nearest(ch.strikes, ch.atm) /\ s.low \in ch.strikes
               /\ s.high = Nearest(ch.strikes, s.low + c.width) /\ s.high \in ch.strikes
               /\ s.low < s.high
               /\ low \in Quoted /\ high \in Quoted
               /\ Ask(low) # 0 /\ Debit(low, high) = Ask(low) - Bid(high) /\ Debit(low, high) \in Nat \ {0}
               /\ UnderlyingPrice(ch, s.low) \in Nat \ {0}
               /\ s.edge = EdgeAfterCost(v, value, Debit(low, high), low, high)
  <1> DEFINE legs == Legs(ch, c.width)
             low  == ch.quotes[s.low]
             high == ch.quotes[s.high]
  <1>1. Tradable(ch, c) /\ s = Structure(v, ch, c)
    BY DEF Selected
  <1>2. s.low = legs.low /\ s.high = legs.high
          /\ s.edge = EdgeAfterCost(v, Value(v, UnderlyingPrice(ch, legs.low), legs.low, legs.high),
                                    Debit(ch.quotes[legs.low], ch.quotes[legs.high]),
                                    ch.quotes[legs.low], ch.quotes[legs.high])
    BY <1>1 DEF Structure
  <1>3. s.low = Nearest(ch.strikes, ch.atm) /\ s.high = Nearest(ch.strikes, s.low + c.width)
    BY <1>2 DEF Legs
  <1>4. ch.strikes # {} /\ ch.strikes \subseteq Nat \ {0} /\ ch.atm \in Int
          /\ c.width \in Int
    BY <1>1, SelectStructureAssumption DEF Tradable, Sound
  <1>5. s.low \in ch.strikes
    BY <1>3, <1>4, NearestIsNearest
  <1>6. s.high \in ch.strikes
    <2>1. s.low + c.width \in Int
      BY <1>4, <1>5
    <2> QED
      BY <1>3, <1>4, <2>1, NearestIsNearest
  <1>7. s.high > s.low /\ low # NoQuote /\ high # NoQuote /\ Debit(low, high) > 0
    BY <1>1, <1>2 DEF Tradable
  <1>8. low \in Quoted /\ high \in Quoted
    BY <1>5, <1>6, <1>7 DEF Sound
  <1>9. Ask(low) \in Nat /\ Bid(high) \in Nat
    BY <1>8 DEF Quoted, Ask, Bid
  <1>10. Ask(low) # 0 /\ Debit(low, high) = Ask(low) - Bid(high) /\ Debit(low, high) \in Nat \ {0}
    BY <1>7, <1>9 DEF Debit
  <1>11. UnderlyingPrice(ch, s.low) \in Nat \ {0}
    BY <1>4, <1>5 DEF UnderlyingPrice, Sound
  <1> QED
    BY <1>2, <1>3, <1>4, <1>5, <1>6, <1>7, <1>8, <1>10, <1>11

\* Once the step is done, what is selected is what the selector makes of the chain.
IInv ==
    /\ venue \in Venues /\ chain \in Chains /\ cfg \in Configs
    /\ selected \subseteq Selected(venue, chain, cfg)

LEMMA InductiveInvariant == PickSpec => []IInv
  <1>1. PickInit => IInv
    BY DEF PickInit, IInv
  <1>2. IInv /\ [PickStructure]_pickVars => IInv'
    BY DEF IInv, PickStructure, pickVars
  <1> QED
    BY <1>1, <1>2, PTL DEF PickSpec

\* Whatever strikes a chain lists, the legs are the listed strikes nearest to the money and
\* to the width above it (select_from_chain of both selectors).
THEOREM LegsAreNearest == PickSpec => []NearestStrikes
  <1>1. IInv => NearestStrikes
    <2> SUFFICES ASSUME IInv, NEW s \in selected
                 PROVE  /\ {s.low, s.high} \subseteq chain.strikes /\ s.low < s.high
                        /\ IsNearest(s.low, chain.atm)
                        /\ IsNearest(s.high, s.low + cfg.width)
      BY DEF NearestStrikes
    <2>1. Sound(chain) /\ s \in Selected(venue, chain, cfg) /\ cfg \in Configs /\ venue \in Venues
      BY ChainsSound DEF IInv
    <2>2. /\ chain.strikes # {} /\ s.low \in chain.strikes /\ s.high \in chain.strikes /\ s.low < s.high
          /\ s.low = Nearest(chain.strikes, chain.atm)
          /\ s.high = Nearest(chain.strikes, s.low + cfg.width)
      BY <2>1, SelectedMeans
    <2>3. chain.strikes \in SUBSET Nat /\ chain.atm \in Int /\ s.low + cfg.width \in Int
      BY <2>1, <2>2, SelectStructureAssumption DEF Sound
    <2>4. IsNearest(s.low, chain.atm)
      BY <2>2, <2>3, NearestIsNearest DEF IsNearest
    <2>5. IsNearest(s.high, s.low + cfg.width)
      BY <2>2, <2>3, NearestIsNearest DEF IsNearest
    <2> QED
      BY <2>2, <2>4, <2>5
  <1> QED
    BY <1>1, InductiveInvariant, PTL

\* The edge a structure is credited with never exceeds what a vertical can pay
\* (deribit_edge_after_cost_bps, ib_edge_after_cost_bps).
THEOREM EdgeIsPayable == PickSpec => []EdgeWithinWidth
  <1>1. IInv => EdgeWithinWidth
    <2> SUFFICES ASSUME IInv, NEW s \in selected,
                        Bid(chain.quotes[s.low]) <= Ask(chain.quotes[s.low]),
                        Bid(chain.quotes[s.high]) <= Ask(chain.quotes[s.high])
                 PROVE  LET D    == Debit(chain.quotes[s.low], chain.quotes[s.high])
                            paid == TicksPerUnit[venue] * (s.high - s.low)
                            most == IF venue = "IB" THEN paid ELSE paid \div UnderlyingPrice(chain, s.low)
                        IN  s.edge * D <= 10000 * (most - D)
      BY DEF EdgeWithinWidth
    <2> DEFINE low  == chain.quotes[s.low]
               high == chain.quotes[s.high]
               D    == Debit(low, high)
               V    == Value(venue, UnderlyingPrice(chain, s.low), s.low, s.high)
               paid == TicksPerUnit[venue] * (s.high - s.low)
               most == IF venue = "IB" THEN paid ELSE paid \div UnderlyingPrice(chain, s.low)
               gain == NetGainBps(venue, V, D)
    <2>1. Sound(chain) /\ s \in Selected(venue, chain, cfg) /\ cfg \in Configs /\ venue \in Venues
      BY ChainsSound DEF IInv
    <2>2. /\ s.low \in chain.strikes /\ s.high \in chain.strikes /\ s.low < s.high
          /\ low \in Quoted /\ high \in Quoted /\ D \in Nat \ {0}
          /\ UnderlyingPrice(chain, s.low) \in Nat \ {0}
          /\ s.edge = EdgeAfterCost(venue, V, D, low, high)
      BY <2>1, SelectedMeans
    <2>3. V \in Nat /\ V <= most /\ most \in Int
      BY <2>1, <2>2, ValueWithin DEF Sound
    <2>4. gain \in Int /\ gain * D <= 10000 * (V - D)
      BY <2>1, <2>2, <2>3, NetGainWithin
    <2>5. s.edge \in Int /\ s.edge <= gain
      <3>1. SpreadBps(low) \in Nat /\ SpreadBps(high) \in Nat /\ SlippageBps \in Nat
        BY <2>2, SpreadTyped, StructuresAssumption
      <3>2. (SpreadBps(low) + SpreadBps(high)) \div 2 \in Nat
        BY <3>1
      <3> HIDE DEF gain
      <3>3. s.edge = gain - SlippageBps - (SpreadBps(low) + SpreadBps(high)) \div 2
        BY <2>2 DEF EdgeAfterCost, gain
      <3> HIDE DEF low, high
      <3> QED
        BY <2>4, <3>1, <3>2, <3>3
    <2> HIDE DEF gain, V, D, most
    <2>6. s.edge * D <= gain * D
      BY <2>2, <2>4, <2>5, TimesKeepsOrder
    <2>7. s.edge * D \in Int /\ gain * D \in Int
      BY <2>2, <2>4, <2>5
    <2>8. s.edge * D <= 10000 * (most - D)
      <3> DEFINE x == s.edge * D
                 y == gain * D
      <3>1. x \in Int /\ y \in Int /\ x <= y /\ y <= 10000 * (V - D)
        BY <2>4, <2>6, <2>7
      <3> HIDE DEF x, y
      <3>2. x <= 10000 * (most - D)
        BY <2>2, <2>3, <3>1
      <3> QED
        BY <3>2 DEF x
    <2> QED
      BY <2>8 DEF most, D
  <1> QED
    BY <1>1, InductiveInvariant, PTL

\* Paying more for the long leg is never to the credit of a structure that is worth the
\* commission.
THEOREM DearerIsNotBetter == PickSpec => []WorseAskNoBetter
  <1>1. IInv => WorseAskNoBetter
    <2> DEFINE Worse(s)  == [chain EXCEPT !.quotes[s.low][2] = @ + 1]
               Worth(s)  == Value(venue, UnderlyingPrice(chain, s.low), s.low, s.high)
    <2> SUFFICES ASSUME IInv, NEW s \in selected, NEW t \in Selected(venue, Worse(s), cfg),
                        venue = "IB" => Multiplier * Worth(s) >= CommissionTicks
                 PROVE  t.edge <= s.edge
      BY DEF WorseAskNoBetter
    <2> DEFINE worse == Worse(s)
               low   == chain.quotes[s.low]
               high  == chain.quotes[s.high]
               D     == Debit(low, high)
    <2>1. Sound(chain) /\ s \in Selected(venue, chain, cfg) /\ cfg \in Configs /\ venue \in Venues
      BY ChainsSound DEF IInv
    <2>2. /\ s.low = Nearest(chain.strikes, chain.atm) /\ s.low \in chain.strikes
          /\ s.high = Nearest(chain.strikes, s.low + cfg.width) /\ s.high \in chain.strikes
          /\ s.low < s.high /\ low \in Quoted /\ high \in Quoted
          /\ Ask(low) # 0 /\ D = Ask(low) - Bid(high) /\ D \in Nat \ {0}
          /\ UnderlyingPrice(chain, s.low) \in Nat \ {0}
          /\ s.edge = EdgeAfterCost(venue, Worth(s), D, low, high)
      BY <2>1, SelectedMeans
    <2>3. PICK b \in Nat, a \in Nat : low = <<b, a>>
      BY <2>2 DEF Quoted
    <2>4. /\ worse.strikes = chain.strikes /\ worse.atm = chain.atm /\ worse.underlying = chain.underlying
          /\ worse.quotes = [chain.quotes EXCEPT ![s.low] = <<b, a + 1>>]
      <3>1. chain \in [strikes : {chain.strikes}, quotes : {chain.quotes}, atm : {chain.atm},
                       underlying : {chain.underlying}]
        BY DEF IInv, Chains
      <3>2. [low EXCEPT ![2] = @ + 1] = <<b, a + 1>>
        BY <2>3
      <3> QED
        BY <3>1, <3>2
    <2> HIDE DEF worse
    <2>5. Sound(worse)
      <3>1. <<b, a + 1>> \in {NoQuote} \cup Quoted
        BY DEF Quoted
      <3>2. chain.quotes \in [chain.strikes -> {NoQuote} \cup Quoted]
        BY <2>1 DEF Sound
      <3>3. worse.quotes \in [worse.strikes -> {NoQuote} \cup Quoted]
        BY <2>2, <2>4, <3>1, <3>2
      <3> QED
        BY <2>1, <2>4, <3>3 DEF Sound
    <2>6. t \in Selected(venue, worse, cfg)
      BY DEF worse
    <2>7. /\ t.low = s.low /\ t.high = s.high
          /\ t.edge = EdgeAfterCost(venue, Value(venue, UnderlyingPrice(worse, t.low), t.low, t.high),
                                    Debit(worse.quotes[t.low], worse.quotes[t.high]),
                                    worse.quotes[t.low], worse.quotes[t.high])
          /\ Debit(worse.quotes[t.low], worse.quotes[t.high])
                = Ask(worse.quotes[t.low]) - Bid(worse.quotes[t.high])
      <3>1. /\ t.low = Nearest(worse.strikes, worse.atm)
            /\ t.high = Nearest(worse.strikes, t.low + cfg.width)
            /\ t.edge = EdgeAfterCost(venue, Value(venue, UnderlyingPrice(worse, t.low), t.low, t.high),
                                      Debit(worse.quotes[t.low], worse.quotes[t.high]),
                                      worse.quotes[t.low], worse.quotes[t.high])
            /\ Debit(worse.quotes[t.low], worse.quotes[t.high])
                  = Ask(worse.quotes[t.low]) - Bid(worse.quotes[t.high])
        BY <2>1, <2>5, <2>6, SelectedMeans
      <3>2. t.low = s.low
        BY <2>2, <2>4, <3>1
      <3>3. t.high = s.high
        BY <2>2, <2>4, <3>1, <3>2
      <3> QED
        BY <3>1, <3>2, <3>3
    <2>8. worse.quotes[t.low] = <<b, a + 1>> /\ worse.quotes[t.high] = high
      <3>1. s.low # s.high
        BY <2>1, <2>2 DEF Sound
      <3> QED
        BY <2>1, <2>2, <2>4, <2>7, <3>1 DEF Sound
    <2>9. Debit(worse.quotes[t.low], worse.quotes[t.high]) = D + 1
      BY <2>2, <2>3, <2>7, <2>8 DEF Ask, Bid, Quoted
    <2>10. Value(venue, UnderlyingPrice(worse, t.low), t.low, t.high) = Worth(s)
      BY <2>4, <2>7 DEF UnderlyingPrice
    <2>11. t.edge = EdgeAfterCost(venue, Worth(s), D + 1, <<b, a + 1>>, high)
      BY <2>7, <2>8, <2>9, <2>10
    <2>12. Worth(s) \in Nat
      BY <2>1, <2>2, ValueWithin DEF Sound
    <2> DEFINE g == NetGainBps(venue, Worth(s), D)
               h == NetGainBps(venue, Worth(s), D + 1)
               x == SpreadBps(<<b, a>>)
               y == SpreadBps(<<b, a + 1>>)
               z == SpreadBps(high)
    <2>13. g \in Int /\ h \in Int /\ h <= g
      <3>1. D + 1 \in Nat \ {0}
        BY <2>2
      <3> HIDE DEF D
      <3> QED
        BY <2>1, <2>2, <2>12, <3>1, NetGainWithin, WorseDebitNoBetter
    <2>14. x \in Int /\ y \in Int /\ z \in Int /\ x <= y
      <3>1. a # 0
        BY <2>2, <2>3 DEF Ask
      <3>2. <<b, a>> \in Quoted /\ <<b, a + 1>> \in Quoted /\ high \in Quoted
        BY <2>2 DEF Quoted
      <3> HIDE DEF high
      <3> QED
        BY <3>1, <3>2, SpreadTyped, WorseAskWidens
    <2>15. s.edge = g - SlippageBps - (x + z) \div 2 /\ t.edge = h - SlippageBps - (y + z) \div 2
      BY <2>2, <2>3, <2>11 DEF EdgeAfterCost
    <2>16. SlippageBps \in Nat
      BY StructuresAssumption
    <2> HIDE DEF g, h, x, y, z
    <2> QED
      BY <2>13, <2>14, <2>15, <2>16
  <1> QED
    BY <1>1, InductiveInvariant, PTL
=============================================================================
