-------------------------- MODULE SessionGateProofs --------------------------
(***************************************************************************)
(* Proofs about SessionGate, for every length of the day, close, blackout, *)
(* limit of age and delay.                                                 *)
(***************************************************************************)
EXTENDS SessionGate, TLAPS

Outcomes == {"none", "PASSED", "GREEK", "EDGE", "LIQUIDITY", "REGIME", "SESSION", "OPERATIONAL"}

\* What evaluate_pre_greek returns: it passes exactly if no gate is breached, and else
\* names a gate.
LEMMA PreGreekResult ==
    ASSUME NEW intent, NEW ctx
    PROVE  LET r == PreGreek(intent, ctx)
           IN  /\ r.passed <=> \A k \in 1 .. 5 : BreachesOf(intent, ctx)[Stages[k]] = {}
               /\ ~ r.passed => r.stage \in {"EDGE", "LIQUIDITY", "REGIME", "SESSION", "OPERATIONAL"}
  <1> DEFINE failed == {k \in DOMAIN Stages : BreachesOf(intent, ctx)[Stages[k]] # {}}
             least  == CHOOSE k \in failed : \A j \in failed : k <= j
  <1>1. DOMAIN Stages = 1 .. 5
    BY DEF Stages
  <1>2. failed # {} => least \in 1 .. 5
    <2> SUFFICES ASSUME failed # {}
                 PROVE  \E k \in failed : \A j \in failed : k <= j
      BY <1>1
    <2>1. failed \subseteq 1 .. 5 /\ failed # {}
      BY <1>1
    <2> HIDE DEF failed
    <2>2. 1 \in failed \/ 2 \in failed \/ 3 \in failed \/ 4 \in failed \/ 5 \in failed
      <3>1. PICK k \in failed : k \in 1 .. 5
        BY <2>1
      <3> QED
        BY <3>1
    <2> QED
      BY <2>1, <2>2
  <1>3. \A k \in 1 .. 5 : Stages[k] \in {"EDGE", "LIQUIDITY", "REGIME", "SESSION", "OPERATIONAL"}
    BY DEF Stages
  <1>4. PreGreek(intent, ctx) =
          IF failed = {}
          THEN [passed |-> TRUE,  stage |-> "none", rules |-> {}]
          ELSE [passed |-> FALSE, stage |-> Stages[least],
                rules |-> BreachesOf(intent, ctx)[Stages[least]]]
    BY DEF PreGreek
  <1>5. failed = {} <=> \A k \in 1 .. 5 : BreachesOf(intent, ctx)[Stages[k]] = {}
    BY <1>1
  <1> HIDE DEF failed, least
  <1>6. CASE failed = {}
    BY <1>4, <1>5, <1>6
  <1>7. CASE failed # {}
    <2>1. PreGreek(intent, ctx).passed = FALSE /\ PreGreek(intent, ctx).stage = Stages[least]
      BY <1>4, <1>7
    <2> QED
      BY <1>2, <1>3, <1>5, <1>7, <2>1
  <1> QED
    BY <1>6, <1>7

\* An evaluation that passes was allowed by the phase and had a fresh quote and, outside
\* the plumbing profile, a fresh chain.
LEMMA PassedWasGated ==
    ASSUME NEW allows \in BOOLEAN, NEW q \in 0 .. AgeCap, NEW c \in 0 .. AgeCap,
           NEW market \in Markets, NEW portfolio
    PROVE  LET o == Outcome(allows, q, c, market, portfolio)
           IN  /\ o \in Outcomes
               /\ o = "PASSED" => /\ allows /\ q <= MaxQuoteAge
                                  /\ plumbing \/ c <= MaxChainAge
  <1> DEFINE ctx == GateContext(allows, q, c, market.regime)
             pre == PreGreek(market, ctx)
             b   == BreachesOf(market, ctx)
  <1>1. /\ pre.passed <=> \A k \in 1 .. 5 : b[Stages[k]] = {}
        /\ ~ pre.passed => pre.stage \in {"EDGE", "LIQUIDITY", "REGIME", "SESSION", "OPERATIONAL"}
    BY PreGreekResult
  <1>2. Stages[4] = "SESSION" /\ Stages[5] = "OPERATIONAL"
    BY DEF Stages
  <1>3. /\ ctx.sessionAllows = allows /\ ctx.requireChain
        /\ ctx.quoteFresh = (q <= MaxQuoteAge)
        /\ ctx.chainFresh = (plumbing \/ c <= MaxChainAge)
    BY DEF GateContext, Fresh
  <1>4. b["SESSION"] = Rule(~ ctx.sessionAllows, "session_blackout")
          /\ b["OPERATIONAL"] = OperationalBreaches(ctx)
    BY DEF BreachesOf
  <1> HIDE DEF ctx, b, pre
  <1>5. b["SESSION"] = {} => allows
    BY <1>3, <1>4 DEF Rule
  <1>6. b["OPERATIONAL"] = {} => q <= MaxQuoteAge /\ (plumbing \/ c <= MaxChainAge)
    BY <1>3, <1>4 DEF Rule, OperationalBreaches
  <1>7. Outcome(allows, q, c, market, portfolio) =
          IF ~ pre.passed THEN pre.stage
          ELSE IF GreekBreaches(DeltaPolicy, portfolio) # {} THEN "GREEK" ELSE "PASSED"
    BY DEF Outcome, pre, ctx
  <1>8. 4 \in 1 .. 5 /\ 5 \in 1 .. 5
    OBVIOUS
  <1> QED
    BY <1>1, <1>2, <1>5, <1>6, <1>7, <1>8 DEF Outcomes

-----------------------------------------------------------------------------
(* The invariant.                                                           *)

\* What passes in a step passed on what the strategy holds after the step.
PassedOnWhatIsHeld ==
    outcome = "PASSED" =>
        /\ sessionReceived /\ sessionAllows /\ quoteAge <= MaxQuoteAge
        /\ plumbing \/ chainAge <= MaxChainAge

\* While the underlying is the only feed, the last quote is the one that brought the phase,
\* and the phase is that of an instant no further back than the age of the quote.
PhaseIsAsOldAsQuote ==
    ~ otherFeeds =>
        /\ quoteAge = underlyingAge
        /\ sessionReceived /\ quoteAge < AgeCap =>
              \E t \in 0 .. now : t >= now - quoteAge /\ sessionAllows = AllowsEntry(t)

IInv == TypeOK /\ PassedOnWhatIsHeld /\ PhaseIsAsOldAsQuote

\* An evaluation on what the strategy holds keeps to its gates.
LEMMA EvaluatesGated ==
    ASSUME NEW received \in BOOLEAN, NEW allows \in BOOLEAN, NEW q \in 0 .. AgeCap,
           NEW c \in 0 .. AgeCap, Evaluates(received, allows, q, c)
    PROVE  /\ outcome' \in Outcomes
           /\ outcome' = "PASSED" => /\ received /\ allows /\ q <= MaxQuoteAge
                                     /\ plumbing \/ c <= MaxChainAge
  <1>1. CASE received
    BY <1>1, PassedWasGated DEF Evaluates
  <1>2. CASE ~ received
    BY <1>2 DEF Evaluates, Outcomes
  <1> QED
    BY <1>1, <1>2

\* Every variable keeps to its kind, and the invariant holds.
LEMMA InductiveInvariant == Spec => []IInv
  <1> USE SessionGateAssumption
  <1>1. Init => IInv
    <2> SUFFICES ASSUME Init
                 PROVE  IInv
      OBVIOUS
    <2>1. 0 \in 0 .. Horizon /\ AgeCap \in 0 .. AgeCap /\ ~ AgeCap < AgeCap
      OBVIOUS
    <2>2. TypeOK
      BY <2>1 DEF Init, TypeOK
    <2>3. PassedOnWhatIsHeld /\ PhaseIsAsOldAsQuote
      BY DEF Init, PassedOnWhatIsHeld, PhaseIsAsOldAsQuote
    <2> QED
      BY <2>2, <2>3 DEF IInv
  <1>2. IInv /\ [Next]_vars => IInv'
    <2> SUFFICES ASSUME IInv, [Next]_vars
                 PROVE  IInv'
      OBVIOUS
    <2>0. TypeOK /\ \A t : AllowsEntry(t) \in BOOLEAN
      BY DEF IInv, AllowsEntry
    <2>1. CASE TimePasses
      <3>1. TypeOK'
        BY <2>0, <2>1 DEF TimePasses, TypeOK, Older, config
      <3>2. PassedOnWhatIsHeld'
        BY <2>1 DEF TimePasses, PassedOnWhatIsHeld
      <3>3. PhaseIsAsOldAsQuote'
        <4> SUFFICES ASSUME ~ otherFeeds
                     PROVE  /\ quoteAge' = underlyingAge'
                            /\ sessionReceived' /\ quoteAge' < AgeCap =>
                                 \E t \in 0 .. now' : /\ t >= now' - quoteAge'
                                                      /\ sessionAllows' = AllowsEntry(t)
          BY <2>1 DEF PhaseIsAsOldAsQuote, TimePasses, config, AllowsEntry, MinutesToClose
        <4>1. quoteAge' = underlyingAge'
          BY <2>1 DEF IInv, PhaseIsAsOldAsQuote, TimePasses
        <4>2. ASSUME sessionReceived', quoteAge' < AgeCap
              PROVE  \E t \in 0 .. now' : t >= now' - quoteAge' /\ sessionAllows' = AllowsEntry(t)
          <5>1. sessionReceived /\ quoteAge < AgeCap /\ quoteAge' = quoteAge + 1 /\ now' = now + 1
                  /\ sessionAllows' = sessionAllows
            BY <2>0, <2>1, <4>2 DEF TimePasses, Older, TypeOK
          <5>2. PICK t \in 0 .. now : t >= now - quoteAge /\ sessionAllows = AllowsEntry(t)
            BY <5>1 DEF IInv, PhaseIsAsOldAsQuote
          <5>3. t \in 0 .. now' /\ t >= now' - quoteAge'
            BY <2>0, <5>1, <5>2 DEF TypeOK
          <5> QED
            BY <5>1, <5>2, <5>3
        <4> QED
          BY <4>1, <4>2
      <3> QED
        BY <3>1, <3>2, <3>3 DEF IInv
    <2>2. ASSUME NEW delay \in 0 .. AgeCap, UnderlyingQuote(delay)
          PROVE  IInv'
      <3>1. /\ outcome' \in Outcomes
            /\ outcome' = "PASSED" => /\ AllowsEntry(now) /\ delay <= MaxQuoteAge
                                      /\ plumbing \/ chainAge <= MaxChainAge
        <4>1. CASE plumbing
          BY <2>0, <2>2, <4>1, EvaluatesGated DEF UnderlyingQuote, TypeOK
        <4>2. CASE ~ plumbing
          BY <2>2, <4>2 DEF UnderlyingQuote, Outcomes
        <4> QED
          BY <4>1, <4>2
      <3>2. TypeOK'
        BY <2>0, <2>2, <3>1 DEF UnderlyingQuote, TypeOK, config, Outcomes
      <3>3. PassedOnWhatIsHeld'
        BY <2>2, <3>1 DEF UnderlyingQuote, PassedOnWhatIsHeld, config
      <3>4. PhaseIsAsOldAsQuote'
        <4>1. now' = now /\ now \in 0 .. now /\ now >= now - delay
          BY <2>0, <2>2 DEF UnderlyingQuote, TypeOK
        <4>2. /\ quoteAge' = delay /\ underlyingAge' = delay /\ otherFeeds' = otherFeeds
              /\ sessionAllows' = AllowsEntry(now)
          BY <2>2 DEF UnderlyingQuote, config
        <4> QED
          BY <4>1, <4>2 DEF PhaseIsAsOldAsQuote, AllowsEntry, MinutesToClose
      <3> QED
        BY <3>2, <3>3, <3>4 DEF IInv
    <2>3. ASSUME NEW delay \in 0 .. AgeCap, OtherQuote(delay)
          PROVE  IInv'
      <3>1. /\ outcome' \in Outcomes
            /\ outcome' = "PASSED" => /\ sessionReceived /\ sessionAllows /\ delay <= MaxQuoteAge
                                      /\ plumbing \/ chainAge <= MaxChainAge
        <4>1. CASE plumbing
          BY <2>0, <2>3, <4>1, EvaluatesGated DEF OtherQuote, TypeOK
        <4>2. CASE ~ plumbing
          BY <2>3, <4>2 DEF OtherQuote, Outcomes
        <4> QED
          BY <4>1, <4>2
      <3>2. TypeOK'
        BY <2>0, <2>3, <3>1 DEF OtherQuote, TypeOK, config, Outcomes
      <3>3. PassedOnWhatIsHeld'
        BY <2>3, <3>1 DEF OtherQuote, PassedOnWhatIsHeld, config
      <3>4. PhaseIsAsOldAsQuote'
        BY <2>3 DEF OtherQuote, PhaseIsAsOldAsQuote, config
      <3> QED
        BY <3>2, <3>3, <3>4 DEF IInv
    <2>4. ASSUME NEW delay \in 0 .. AgeCap, OptionChain(delay)
          PROVE  IInv'
      <3>1. /\ outcome' \in Outcomes
            /\ outcome' = "PASSED" => /\ sessionReceived /\ sessionAllows /\ quoteAge <= MaxQuoteAge
                                      /\ plumbing \/ delay <= MaxChainAge
        BY <2>0, <2>4, EvaluatesGated DEF OptionChain, TypeOK
      <3>2. TypeOK'
        BY <2>0, <2>4, <3>1 DEF OptionChain, TypeOK, config, Outcomes
      <3>3. PassedOnWhatIsHeld'
        BY <2>4, <3>1 DEF OptionChain, PassedOnWhatIsHeld, config
      <3>4. PhaseIsAsOldAsQuote'
        BY <2>4 DEF OptionChain, PhaseIsAsOldAsQuote, config, IInv, AllowsEntry, MinutesToClose
      <3> QED
        BY <3>2, <3>3, <3>4 DEF IInv
    <2>5. CASE UNCHANGED vars
      BY <2>5 DEF vars, config, IInv, TypeOK, PassedOnWhatIsHeld, PhaseIsAsOldAsQuote,
                  AllowsEntry, MinutesToClose
    <2> QED
      BY <2>1, <2>2, <2>3, <2>4, <2>5 DEF Next
  <1> QED
    BY <1>1, <1>2, PTL DEF Spec

\* Whole minutes err on the safe side: an instant that allows entries is outside the blackout.
LEMMA WholeMinutesAreSafe ==
    ASSUME NEW t \in Nat, AllowsEntry(t)
    PROVE  OutsideBlackout(t)
  <1> USE SessionGateAssumption
  <1> DEFINE clock == t % Day
             left  == (Close - clock) \div Minute
  <1>1. clock \in 0 .. (Day - 1)
    OBVIOUS
  <1>2. AllowsEntry(t) <=> (IF clock >= Close THEN 0 ELSE left) > Blackout
    BY DEF AllowsEntry, MinutesToClose
  <1>3. OutsideBlackout(t) <=> Close - clock > Blackout * Minute
    BY DEF OutsideBlackout
  <1> HIDE DEF clock
  <1>4. ~ clock >= Close /\ left > Blackout
    BY <1>2
  <1>5. left \in Int /\ Minute * left <= Close - clock
    BY <1>1
  <1> HIDE DEF left
  <1>6. left >= Blackout + 1
    BY <1>4, <1>5
  <1>7. Minute * left >= Minute * (Blackout + 1)
    BY <1>5, <1>6
  <1>8. Minute * (Blackout + 1) = Blackout * Minute + Minute
    OBVIOUS
  <1>9. Minute * left \in Int /\ Blackout * Minute \in Int
    BY <1>5
  <1> QED
    BY <1>1, <1>3, <1>5, <1>7, <1>8, <1>9

\* Every variable holds a value of its kind: no evaluation ends in a state of its own.
THEOREM TypeCorrect == Spec => []TypeOK
  <1>1. IInv => TypeOK
    BY DEF IInv
  <1> QED
    BY <1>1, InductiveInvariant, PTL

\* While the underlying is the only feed, an evaluation that passes relies on a phase that
\* was outside the blackout at most the age of a quote ago (actors/session.py, base.py).
THEOREM LagIsBounded == Spec => []BlackoutLagBounded
  <1>1. IInv => BlackoutLagBounded
    <2> SUFFICES ASSUME IInv, outcome = "PASSED", ~ otherFeeds
                 PROVE  \E t \in 0 .. now : t >= now - MaxQuoteAge /\ OutsideBlackout(t)
      BY DEF BlackoutLagBounded
    <2>1. sessionReceived /\ sessionAllows /\ quoteAge <= MaxQuoteAge /\ quoteAge < AgeCap
            /\ quoteAge \in Nat /\ now \in Nat
      BY SessionGateAssumption DEF IInv, PassedOnWhatIsHeld, TypeOK
    <2>2. PICK t \in 0 .. now : t >= now - quoteAge /\ sessionAllows = AllowsEntry(t)
      BY <2>1 DEF IInv, PhaseIsAsOldAsQuote
    <2>3. t >= now - MaxQuoteAge
      BY <2>1, <2>2, SessionGateAssumption
    <2>4. OutsideBlackout(t)
      BY <2>1, <2>2, WholeMinutesAreSafe
    <2> QED
      BY <2>3, <2>4
  <1> QED
    BY <1>1, InductiveInvariant, PTL

\* The documented freshness of the underlying holds as long as it is the only feed: the
\* counterexamples of UnderlyingFresh all need another one.
UnderlyingFreshAlone == ~ otherFeeds => UnderlyingFresh

THEOREM FreshWhileAlone == Spec => []UnderlyingFreshAlone
  <1>1. IInv => UnderlyingFreshAlone
    BY DEF IInv, PassedOnWhatIsHeld, PhaseIsAsOldAsQuote, UnderlyingFreshAlone, UnderlyingFresh
  <1> QED
    BY <1>1, InductiveInvariant, PTL
=============================================================================
