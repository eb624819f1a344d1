------------------------- MODULE GatedSkeletonProofs -------------------------
(***************************************************************************)
(* Proofs about GatedSkeleton, for every size of the window, all prices    *)
(* and thresholds, and any number of quotes.                               *)
(***************************************************************************)
EXTENDS GatedSkeleton, SequenceTheorems, TLAPS

Heard == Seq(Mids)
Tags  == {"TREND", "CHOP", "PIN_RISK", "UNKNOWN"}

-----------------------------------------------------------------------------
(* The window and the tag.                                                  *)

\* Appending a quote adds it at the end and keeps the others.
LEMMA Appended ==
    ASSUME NEW h \in Heard, NEW mid \in Mids
    PROVE  /\ Append(h, mid) \in Heard
           /\ Len(h) \in Nat /\ Len(Append(h, mid)) = Len(h) + 1
           /\ Append(h, mid)[Len(h) + 1] = mid
           /\ \A i \in 1 .. Len(h) : Append(h, mid)[i] = h[i]
           /\ Append(h, mid) # <<>> /\ Last(Append(h, mid)) = mid
           /\ Head(Append(h, mid)) = IF h = <<>> THEN mid ELSE Head(h)
  BY AppendProperties, EmptySeq, LenProperties DEF Heard, Last

\* What the window of a run of quotes consists of.
LEMMA WindowIs ==
    ASSUME NEW h \in Heard
    PROVE  LET first == IF Len(h) > WindowSize THEN Len(h) - WindowSize + 1 ELSE 1
           IN  /\ Window(h) \in Heard
               /\ Len(h) \in Nat /\ first \in Nat \ {0}
               /\ Len(Window(h)) = Len(h) - first + 1
               /\ \A i \in 1 .. Len(h) - first + 1 : Window(h)[i] = h[first + i - 1]
  <1> DEFINE first == IF Len(h) > WindowSize THEN Len(h) - WindowSize + 1 ELSE 1
  <1>1. Len(h) \in Nat /\ first \in Nat \ {0} /\ first <= Len(h) + 1
    BY LenProperties, GatedSkeletonAssumption DEF Heard
  <1>2. \A i \in first .. Len(h) : h[i] \in Mids
    <2> TAKE i \in first .. Len(h)
    <2>1. i \in 1 .. Len(h)
      BY <1>1
    <2> QED
      BY <2>1, ElementOfSeq DEF Heard
  <1> HIDE DEF first
  <1>3. /\ SubSeq(h, first, Len(h)) \in Seq(Mids)
        /\ Len(SubSeq(h, first, Len(h))) = IF first <= Len(h) THEN Len(h) - first + 1 ELSE 0
        /\ \A i \in 1 .. Len(h) - first + 1 : SubSeq(h, first, Len(h))[i] = h[first + i - 1]
    BY <1>1, <1>2, SubSeqProperties
  <1>4. Window(h) = SubSeq(h, first, Len(h))
    BY DEF Window, first
  <1> QED
    BY <1>1, <1>3, <1>4 DEF first, Heard

\* Pushing a price on the deque is moving the window by one.
LEMMA PushMovesWindow ==
    ASSUME NEW h \in Heard, NEW mid \in Mids
    PROVE  Pushed(Window(h), mid) = Window(Append(h, mid))
  <1> DEFINE n    == Len(h)
             w    == Window(h)
             h2   == Append(h, mid)
             w2   == Window(h2)
             all  == Append(w, mid)
             p    == Pushed(w, mid)
  <1>1. WindowSize \in Nat \ {0}
    BY GatedSkeletonAssumption
  <1>2. /\ n \in Nat /\ h2 \in Heard /\ Len(h2) = n + 1 /\ h2[n + 1] = mid
        /\ \A i \in 1 .. n : h2[i] = h[i]
    BY Appended
  <1>3. /\ w \in Heard
        /\ Len(w) = IF n > WindowSize THEN WindowSize ELSE n
        /\ \A i \in 1 .. Len(w) : w[i] = IF n > WindowSize THEN h[n - WindowSize + i] ELSE h[i]
    <2> DEFINE first == IF n > WindowSize THEN n - WindowSize + 1 ELSE 1
    <2>1. /\ w \in Heard /\ Len(w) = n - first + 1
          /\ \A i \in 1 .. n - first + 1 : w[i] = h[first + i - 1]
      BY WindowIs
    <2> HIDE DEF w, n
    <2> QED
      BY <1>1, <1>2, <2>1
  <1>4. /\ w2 \in Heard
        /\ Len(w2) = IF n + 1 > WindowSize THEN WindowSize ELSE n + 1
        /\ \A i \in 1 .. Len(w2) :
              w2[i] = IF n + 1 > WindowSize THEN h2[n + 1 - WindowSize + i] ELSE h2[i]
    <2> DEFINE first == IF n + 1 > WindowSize THEN n + 1 - WindowSize + 1 ELSE 1
    <2>1. /\ w2 \in Heard /\ Len(w2) = n + 1 - first + 1
          /\ \A i \in 1 .. n + 1 - first + 1 : w2[i] = h2[first + i - 1]
      <3> HIDE DEF h2, n
      <3>1. h2 \in Heard /\ Len(h2) = n + 1 /\ n \in Nat /\ WindowSize \in Nat
        BY <1>1, <1>2
      <3> DEFINE start == IF Len(h2) > WindowSize THEN Len(h2) - WindowSize + 1 ELSE 1
      <3>2. /\ Window(h2) \in Heard /\ Len(Window(h2)) = Len(h2) - start + 1
            /\ \A i \in 1 .. Len(h2) - start + 1 : Window(h2)[i] = h2[start + i - 1]
        BY <3>1, WindowIs
      <3>3. start = first /\ first \in Nat
        BY <3>1
      <3> HIDE DEF start, first
      <3> QED
        BY <3>1, <3>2, <3>3
    <2> HIDE DEF w2, h2, n
    <2> QED
      BY <1>1, <1>2, <2>1
  <1>5. /\ all \in Heard /\ Len(all) = Len(w) + 1 /\ all[Len(w) + 1] = mid
        /\ \A i \in 1 .. Len(w) : all[i] = w[i]
    BY <1>3, Appended
  <1>6. p = IF Len(all) > WindowSize THEN Tail(all) ELSE all
    BY DEF Pushed
  <1>7. /\ Tail(all) \in Heard /\ Len(Tail(all)) = Len(all) - 1
        /\ \A i \in 1 .. Len(Tail(all)) : Tail(all)[i] = all[i + 1]
    <2>1. all # <<>>
      BY <1>3, <1>5, Appended
    <2> HIDE DEF all
    <2> QED
      BY <1>5, <2>1, HeadTailProperties DEF Heard
  <1> HIDE DEF n, w, h2, w2, all, p
  <1>8. CASE Len(all) > WindowSize
    <2>1. Len(w) = WindowSize /\ n >= WindowSize /\ p = Tail(all) /\ Len(p) = WindowSize
            /\ Len(w2) = WindowSize
      BY <1>1, <1>2, <1>3, <1>4, <1>5, <1>6, <1>7, <1>8
    <2>2. ASSUME NEW i \in 1 .. WindowSize
          PROVE  p[i] = w2[i]
      <3>1. p[i] = all[i + 1] /\ w2[i] = h2[n + 1 - WindowSize + i]
        BY <1>1, <1>2, <1>4, <1>7, <2>1
      <3>2. CASE i = WindowSize
        BY <1>1, <1>2, <1>5, <2>1, <3>1, <3>2
      <3>3. CASE i # WindowSize
        <4>1. i + 1 \in 1 .. Len(w) /\ n + 1 - WindowSize + i \in 1 .. n
          BY <1>1, <1>2, <2>1, <3>3
        <4>2. all[i + 1] = w[i + 1] /\ h2[n + 1 - WindowSize + i] = h[n + 1 - WindowSize + i]
          BY <1>2, <1>5, <4>1
        <4>3. w[i + 1] = h[n - WindowSize + (i + 1)]
          BY <1>1, <1>2, <1>3, <2>1, <4>1
        <4>4. n - WindowSize + (i + 1) = n + 1 - WindowSize + i
          BY <1>1, <1>2
        <4> QED
          BY <3>1, <4>2, <4>3, <4>4
      <3> QED
        BY <3>2, <3>3
    <2>3. p \in Seq(Mids) /\ w2 \in Seq(Mids) /\ Len(p) = Len(w2)
      BY <1>4, <1>7, <2>1 DEF Heard
    <2> QED
      BY <2>1, <2>2, <2>3, SeqEqual DEF p, w, w2, h2
  <1>9. CASE ~ Len(all) > WindowSize
    <2>1. Len(w) = n /\ n < WindowSize /\ p = all /\ Len(p) = n + 1 /\ Len(w2) = n + 1
      BY <1>1, <1>2, <1>3, <1>4, <1>5, <1>6, <1>9
    <2>2. ASSUME NEW i \in 1 .. n + 1
          PROVE  p[i] = w2[i]
      <3>1. w2[i] = h2[i]
        BY <1>1, <1>2, <1>4, <2>1
      <3>2. CASE i = n + 1
        BY <1>2, <1>5, <2>1, <3>1, <3>2
      <3>3. CASE i # n + 1
        <4>1. i \in 1 .. n
          BY <1>2, <3>3
        <4> QED
          BY <1>1, <1>2, <1>3, <1>5, <2>1, <3>1, <4>1
      <3> QED
        BY <3>2, <3>3
    <2>3. p \in Seq(Mids) /\ w2 \in Seq(Mids) /\ Len(p) = Len(w2)
      BY <1>4, <1>5, <2>1 DEF Heard
    <2> QED
      BY <2>1, <2>2, <2>3, SeqEqual DEF p, w, w2, h2
  <1> QED
    BY <1>8, <1>9

\* The tag is one of four, and none of them is the tag of an actor that has heard nothing.
LEMMA TagKnown ==
    ASSUME NEW mid, NEW open, NEW window
    PROVE  ComputeRegimeTag(mid, open, window) \in Tags /\ None \notin Tags
  BY DEF ComputeRegimeTag, Tags, None

\* round() moves a price by half a strike at most.
LEMMA RoundedByHalf ==
    ASSUME NEW mid \in Nat
    PROVE  2 * Apart(mid, RoundStrike(mid)) <= StrikeStep /\ Apart(mid, RoundStrike(mid)) \in Nat
  <1> DEFINE q == mid \div StrikeStep
             r == mid % StrikeStep
  <1>1. StrikeStep \in Nat \ {0}
    BY RegimeTagsAssumption
  <1>2. q \in Int /\ r \in 0 .. StrikeStep - 1 /\ mid = StrikeStep * q + r
    BY <1>1
  <1>3. \/ RoundStrike(mid) = StrikeStep * (q + 1) /\ 2 * r >= StrikeStep
        \/ RoundStrike(mid) = StrikeStep * q /\ 2 * r <= StrikeStep
    BY <1>1, <1>2 DEF RoundStrike
  <1> HIDE DEF q, r
  <1>4. CASE RoundStrike(mid) = StrikeStep * (q + 1) /\ 2 * r >= StrikeStep
    <2>1. RoundStrike(mid) \in Int /\ RoundStrike(mid) = mid + (StrikeStep - r)
      BY <1>1, <1>2, <1>4
    <2> QED
      BY <1>1, <1>2, <1>4, <2>1 DEF Apart
  <1>5. CASE RoundStrike(mid) = StrikeStep * q /\ 2 * r <= StrikeStep
    <2>1. RoundStrike(mid) \in Int /\ RoundStrike(mid) = mid - r
      BY <1>1, <1>2, <1>5
    <2> QED
      BY <1>1, <1>2, <1>5, <2>1 DEF Apart
  <1> QED
    BY <1>3, <1>4, <1>5

\* From the price on where half a strike is within the proximity, the tag is known.
LEMMA HighPriceTagged ==
    ASSUME NEW mid \in Nat \ {0}, NEW open, NEW window, 2 * PinProximity * mid >= 1000 * StrikeStep
    PROVE  ComputeRegimeTag(mid, open, window) # "UNKNOWN"
  <1> DEFINE a == Apart(mid, RoundStrike(mid))
             b == PinProximity * mid
  <1>1. 2 * a <= StrikeStep /\ a \in Nat /\ StrikeStep \in Nat
    BY RoundedByHalf, RegimeTagsAssumption
  <1>2. b \in Nat /\ 2 * b >= 1000 * StrikeStep
    <2>1. PinProximity \in Nat
      BY RegimeTagsAssumption
    <2>2. 2 * PinProximity * mid = 2 * b
      BY <2>1
    <2> QED
      BY <2>1, <2>2
  <1> HIDE DEF a, b
  <1>3. 1000 * a <= b
    BY <1>1, <1>2
  <1>4. Pinned(mid)
    BY <1>3 DEF Pinned, a, b
  <1> QED
    BY <1>4 DEF ComputeRegimeTag

-----------------------------------------------------------------------------
(* The invariant.                                                           *)

TypeOK ==
    /\ toCall \in SUBSET Subscribers
    /\ heard \in Heard
    /\ allowed \in BOOLEAN /\ firstAllowed \in BOOLEAN
    /\ evaluated \in BOOLEAN
    /\ sessionReceived \in BOOLEAN /\ regimeReceived \in BOOLEAN /\ pendingTick \in BOOLEAN

\* The RegimeActor has seen the run of quotes h, and what it published last is the tag of h.
HasSeen(h) ==
    /\ prices = Window(h)
    /\ h = <<>> => openPrice = 0 /\ lastTag = None /\ ~ regimeReceived
    /\ h # <<>> => /\ openPrice = Head(h) /\ regimeReceived
                   /\ lastTag = TagOf(h) /\ regimeTag = TagOf(h)

\* It lags by the last quote as long as it is still to be called.
RegimeFollows ==
    IF "RegimeActor" \in toCall
    THEN \E h \in Heard, mid \in Mids : heard = Append(h, mid) /\ HasSeen(h)
    ELSE HasSeen(heard)

\* During the first quote, what the strategy has received tells who has been called.
FirstQuote ==
    /\ heard = <<>> => /\ toCall = {} /\ ~ evaluated
                       /\ ~ sessionReceived /\ ~ regimeReceived /\ ~ pendingTick
    /\ Len(heard) = 1 =>
          /\ firstAllowed = allowed
          /\ sessionReceived <=> "SessionActor" \notin toCall
          /\ sessionReceived => sessionAllows = firstAllowed
          /\ pendingTick <=> "GatedSkeletonStrategy" \notin toCall

\* The evaluation is done by the first who completes what it waits for, so with the first
\* quote, and it is done once.
JudgedOnFirst ==
    /\ evaluated => report = Report(firstAllowed, TagOf(<<Head(heard)>>))
    /\ sessionReceived /\ regimeReceived /\ pendingTick => evaluated
    /\ Len(heard) > 1 => evaluated

IInv == TypeOK /\ RegimeFollows /\ FirstQuote /\ JudgedOnFirst

\* A run of quotes that has one more than another has at least one.
LEMMA HeardLength ==
    ASSUME NEW h \in Heard
    PROVE  Len(h) \in Nat /\ (h = <<>> <=> Len(h) = 0)
  BY EmptySeq DEF Heard

\* With one quote only, the tag of the run is the tag of its first quote.
LEMMA SingleQuote ==
    ASSUME NEW h \in Heard, Len(h) = 1
    PROVE  h = <<Head(h)>>
  <1>1. h \in Seq(Mids) /\ h # <<>>
    BY HeardLength DEF Heard
  <1>2. Head(h) \in Mids /\ Head(h) = h[1]
    BY <1>1, HeadTailProperties
  <1>3. <<Head(h)>> \in Seq(Mids) /\ Len(<<Head(h)>>) = 1 /\ <<Head(h)>>[1] = h[1]
    BY <1>2
  <1>4. \A i \in 1 .. Len(h) : h[i] = <<Head(h)>>[i]
    BY <1>3
  <1> HIDE DEF Heard
  <1> QED
    BY <1>1, <1>3, <1>4, SeqEqual

\* What _maybe_evaluate_gates leaves behind, for whichever handler calls it.
LEMMA EvaluateGatesJudges ==
    ASSUME IInv, EvaluateGates, heard # <<>>,
           heard' = heard, firstAllowed' = firstAllowed, requireChain' = requireChain,
           Len(heard) = 1 /\ sessionReceived' /\ regimeReceived' /\ pendingTick' =>
               sessionAllows' = firstAllowed /\ regimeTag' = TagOf(heard),
           \/ evaluated
           \/ Len(heard) = 1
    PROVE  evaluated' \in BOOLEAN /\ JudgedOnFirst'
  <1> DEFINE judged == Report(firstAllowed, TagOf(<<Head(heard)>>))
  <1>1. evaluated \in BOOLEAN /\ heard \in Heard /\ JudgedOnFirst
          /\ sessionReceived \in BOOLEAN
    BY DEF IInv, TypeOK
  <1>2. Report(firstAllowed, TagOf(<<Head(heard)>>))' = judged
    BY DEF Report, GateContext
  <1>3. CASE evaluated \/ ~ sessionReceived' \/ ~ regimeReceived' \/ ~ pendingTick'
    <2>1. UNCHANGED verdict
      BY <1>3 DEF EvaluateGates
    <2>2. Len(heard) > 1 => evaluated
      BY <1>1 DEF JudgedOnFirst
    <2> QED
      BY <1>1, <1>2, <1>3, <2>1, <2>2 DEF JudgedOnFirst, verdict
  <1>4. CASE ~ (evaluated \/ ~ sessionReceived' \/ ~ regimeReceived' \/ ~ pendingTick')
    <2>1. Len(heard) = 1 /\ heard = <<Head(heard)>>
      BY <1>1, <1>4, SingleQuote
    <2>2. evaluated' = TRUE /\ report' = Report(sessionAllows', regimeTag')
      BY <1>4 DEF EvaluateGates
    <2>3. report' = judged
      BY <1>4, <2>1, <2>2
    <2> QED
      BY <1>2, <2>2, <2>3 DEF JudgedOnFirst
  <1> QED
    BY <1>3, <1>4

\* What the RegimeActor knows after the next quote.
LEMMA SeesNext ==
    ASSUME NEW h \in Heard, NEW mid \in Mids, HasSeen(h),
           LET open == IF openPrice = 0 THEN mid ELSE openPrice
               tag  == ComputeRegimeTag(mid, open, Pushed(prices, mid))
           IN  /\ openPrice' = open
               /\ prices' = Pushed(prices, mid)
               /\ lastTag' = tag
               /\ IF tag # lastTag THEN regimeTag' = tag /\ regimeReceived' = TRUE
                                   ELSE regimeTag' = regimeTag /\ regimeReceived' = regimeReceived
    PROVE  HasSeen(Append(h, mid))'
  <1> DEFINE h2   == Append(h, mid)
             open == IF openPrice = 0 THEN mid ELSE openPrice
             tag  == ComputeRegimeTag(mid, open, Pushed(prices, mid))
  <1>1. h2 # <<>> /\ Last(h2) = mid /\ Head(h2) = IF h = <<>> THEN mid ELSE Head(h)
    BY Appended
  <1>2. Pushed(prices, mid) = Window(h2)
    BY PushMovesWindow DEF HasSeen
  <1>3. open = Head(h2)
    <2>1. h # <<>> => Head(h) # 0
      BY HeadTailProperties, GatedSkeletonAssumption DEF Heard
    <2> QED
      BY <1>1, <2>1 DEF HasSeen
  <1> HIDE DEF h2
  <1>4. tag = TagOf(h2)
    BY <1>1, <1>2, <1>3 DEF TagOf
  <1>5. tag # None
    BY TagKnown
  <1> HIDE DEF tag
  <1>6. regimeReceived' /\ regimeTag' = tag
    BY <1>5 DEF HasSeen, tag
  <1>7. openPrice' = Head(h2) /\ prices' = Window(h2) /\ lastTag' = tag
    BY <1>2, <1>3 DEF tag
  <1> QED
    BY <1>1, <1>4, <1>6, <1>7 DEF HasSeen, h2

\* Between two quotes, and in every step, the invariant holds.
LEMMA InductiveInvariant == Spec => []IInv
  <1>1. Init => IInv
    <2> SUFFICES ASSUME Init
                 PROVE  IInv
      OBVIOUS
    <2>1. TypeOK
      BY EmptySeq DEF Init, TypeOK, Heard
    <2>2. Window(<<>>) = <<>> /\ Len(<<>>) = 0
      <3>1. <<>> \in Heard /\ Len(<<>>) = 0
        BY EmptySeq DEF Heard
      <3>2. Window(<<>>) \in Heard /\ Len(Window(<<>>)) = 0
        BY <3>1, WindowIs, GatedSkeletonAssumption
      <3> QED
        BY <3>1, <3>2, HeardLength
    <2> QED
      BY <2>1, <2>2 DEF Init, IInv, RegimeFollows, HasSeen, FirstQuote, JudgedOnFirst
  <1>2. IInv /\ [Next]_vars => IInv'
    <2> SUFFICES ASSUME IInv, [Next]_vars
                 PROVE  IInv'
      OBVIOUS
    <2>0. TypeOK /\ RegimeFollows /\ FirstQuote /\ JudgedOnFirst
            /\ Len(heard) \in Nat /\ (heard = <<>> <=> Len(heard) = 0)
      BY HeardLength DEF IInv, TypeOK
    <2>a. ASSUME toCall # {}
          PROVE  heard # <<>> /\ (evaluated \/ Len(heard) = 1)
      BY <2>0, <2>a DEF FirstQuote, JudgedOnFirst
    <2>b. ASSUME UNCHANGED <<regimeActor, regimeTag, regimeReceived, heard>>,
                 "RegimeActor" \in toCall' <=> "RegimeActor" \in toCall
          PROVE  RegimeFollows'
      BY <2>0, <2>b DEF RegimeFollows, HasSeen, regimeActor
    <2>c. ASSUME "RegimeActor" \notin toCall, heard # <<>>
          PROVE  regimeReceived /\ regimeTag = TagOf(heard)
      BY <2>0, <2>c DEF RegimeFollows, HasSeen
    <2>d. ASSUME Len(heard) = 1, regimeReceived
          PROVE  "RegimeActor" \notin toCall
      <3> SUFFICES ASSUME "RegimeActor" \in toCall
                   PROVE  FALSE
        OBVIOUS
      <3>1. PICK h \in Heard, mid \in Mids : heard = Append(h, mid) /\ HasSeen(h)
        BY <2>0 DEF RegimeFollows
      <3>2. Len(h) \in Nat /\ Len(heard) = Len(h) + 1
        BY <3>1, Appended
      <3>3. h = <<>>
        BY <2>d, <3>2, HeardLength
      <3> QED
        BY <2>d, <3>1, <3>3 DEF HasSeen
    <2>1. CASE QuoteArrives
      <3>1. PICK mid \in Mids : heard' = Append(heard, mid)
        BY <2>1 DEF QuoteArrives
      <3>2. /\ heard' \in Heard /\ Len(heard') = Len(heard) + 1
            /\ heard' # <<>> /\ Head(heard') = IF heard = <<>> THEN mid ELSE Head(heard)
        BY <2>0, <3>1, Appended DEF TypeOK
      <3>3. /\ toCall = {} /\ toCall' = Subscribers /\ allowed' \in BOOLEAN
            /\ firstAllowed' = IF heard = <<>> THEN allowed' ELSE firstAllowed
            /\ UNCHANGED <<requireChain, regimeActor, context, verdict>>
        BY <2>1 DEF QuoteArrives
      <3>4. TypeOK'
        BY <2>0, <3>2, <3>3 DEF TypeOK, context, verdict
      <3>5. RegimeFollows'
        <4>1. HasSeen(heard) /\ "RegimeActor" \in toCall' /\ heard \in Heard
          BY <2>0, <3>3 DEF RegimeFollows, Subscribers, TypeOK
        <4>2. ASSUME NEW h \in Heard, HasSeen(h)
              PROVE  HasSeen(h)'
          BY <3>3, <4>2 DEF HasSeen, regimeActor, context
        <4>3. PICK h \in Heard : h = heard
          BY <4>1
        <4>4. heard' = Append(h, mid) /\ HasSeen(h)'
          BY <3>1, <4>1, <4>2, <4>3
        <4> QED
          BY <4>1, <4>4 DEF RegimeFollows
      <3>6. FirstQuote'
        <4>1. Len(heard') = 1 => heard = <<>>
          <5>1. Len(heard) \in Nat /\ Len(heard') = Len(heard) + 1
            BY <2>0, <3>2
          <5> DEFINE n == Len(heard)
                     m == Len(heard')
          <5>2. m = 1 => n = 0
            <6>1. n \in Nat /\ m = n + 1
              BY <5>1
            <6> HIDE DEF n, m
            <6> QED
              BY <6>1
          <5> QED
            BY <2>0, <5>2
        <4>2. heard = <<>> => ~ sessionReceived /\ ~ pendingTick
          BY <2>0 DEF FirstQuote
        <4> QED
          BY <3>2, <3>3, <4>1, <4>2 DEF FirstQuote, Subscribers, context
      <3>7. JudgedOnFirst'
        <4>1. heard = <<>> => ~ evaluated /\ ~ sessionReceived
          BY <2>0 DEF FirstQuote
        <4>2. heard # <<>> => evaluated
          <5> SUFFICES ASSUME heard # <<>>, ~ evaluated
                       PROVE  FALSE
            OBVIOUS
          <5>1. Len(heard) = 1
            BY <2>0 DEF JudgedOnFirst
          <5>2. sessionReceived /\ pendingTick /\ regimeReceived
            BY <2>0, <2>c, <3>3, <5>1 DEF FirstQuote
          <5> QED
            BY <2>0, <5>2 DEF JudgedOnFirst
        <4>3. Len(heard') > 1 => heard # <<>>
          BY <2>0, <3>2
        <4>4. heard # <<>> => (Report(firstAllowed, TagOf(<<Head(heard)>>)))'
                                = Report(firstAllowed, TagOf(<<Head(heard)>>))
          BY <3>2, <3>3 DEF Report, GateContext
        <4> QED
          BY <2>0, <3>3, <4>1, <4>2, <4>3, <4>4 DEF JudgedOnFirst, context, verdict
      <3> QED
        BY <3>4, <3>5, <3>6, <3>7 DEF IInv
    <2>2. CASE SessionActorOnQuoteTick
      <3>1. /\ "SessionActor" \in toCall /\ toCall' = toCall \ {"SessionActor"}
            /\ sessionAllows' = allowed /\ sessionReceived' = TRUE
            /\ UNCHANGED <<regimeTag, regimeReceived, pendingTick>> /\ EvaluateGates
            /\ UNCHANGED <<requireChain, allowed, regimeActor, history>>
        BY <2>2 DEF SessionActorOnQuoteTick, Called, OnSessionPhase
      <3>2. heard # <<>> /\ (evaluated \/ Len(heard) = 1) /\ heard' = heard /\ firstAllowed' = firstAllowed
        BY <2>a, <3>1 DEF history
      <3>3. Len(heard) = 1 /\ regimeReceived' => sessionAllows' = firstAllowed /\ regimeTag' = TagOf(heard)
        BY <2>0, <2>c, <2>d, <3>1, <3>2 DEF FirstQuote
      <3>4. evaluated' \in BOOLEAN /\ JudgedOnFirst'
        BY <3>1, <3>2, <3>3, EvaluateGatesJudges
      <3>5. TypeOK'
        BY <2>0, <3>1, <3>4 DEF TypeOK, history
      <3>6. RegimeFollows'
        BY <2>b, <3>1, <3>2
      <3>7. FirstQuote'
        BY <2>0, <3>1, <3>2 DEF FirstQuote
      <3> QED
        BY <3>4, <3>5, <3>6, <3>7 DEF IInv
    <2>3. CASE RegimeActorOnQuoteTick
      <3> DEFINE mid  == Last(heard)
                 open == IF openPrice = 0 THEN mid ELSE openPrice
                 tag  == ComputeRegimeTag(mid, open, Pushed(prices, mid))
      <3>1. /\ "RegimeActor" \in toCall /\ toCall' = toCall \ {"RegimeActor"}
            /\ openPrice' = open /\ prices' = Pushed(prices, mid) /\ lastTag' = tag
            /\ IF tag # lastTag
               THEN /\ regimeTag' = tag /\ regimeReceived' = TRUE
                    /\ UNCHANGED <<sessionAllows, sessionReceived, pendingTick>> /\ EvaluateGates
               ELSE UNCHANGED <<context, verdict>>
            /\ UNCHANGED <<requireChain, allowed, history>>
        BY <2>3 DEF RegimeActorOnQuoteTick, Called, OnRegimeTag, Publishes
      <3>2. heard # <<>> /\ (evaluated \/ Len(heard) = 1) /\ heard' = heard /\ firstAllowed' = firstAllowed
        BY <2>a, <3>1 DEF history
      <3>3. PICK h \in Heard, m \in Mids : heard = Append(h, m) /\ HasSeen(h)
        BY <2>0, <3>1 DEF RegimeFollows
      <3>4. mid = m
        BY <3>3, Appended
      <3>5. HasSeen(Append(h, m))'
        <4>1. /\ openPrice' = IF openPrice = 0 THEN m ELSE openPrice
              /\ prices' = Pushed(prices, m)
              /\ lastTag' = ComputeRegimeTag(m, IF openPrice = 0 THEN m ELSE openPrice, Pushed(prices, m))
          BY <3>1, <3>4
        <4>2. IF lastTag' # lastTag THEN regimeTag' = lastTag' /\ regimeReceived' = TRUE
                                    ELSE regimeTag' = regimeTag /\ regimeReceived' = regimeReceived
          BY <3>1 DEF context
        <4> QED
          BY <3>3, <4>1, <4>2, SeesNext
      <3>6. HasSeen(heard)'
        BY <3>2, <3>3, <3>5
      <3>7. RegimeFollows'
        BY <3>1, <3>6 DEF RegimeFollows
      <3>8. regimeReceived' /\ regimeTag' = TagOf(heard)
        BY <3>2, <3>6 DEF HasSeen
      <3>9. /\ sessionReceived' = sessionReceived /\ sessionAllows' = sessionAllows
            /\ pendingTick' = pendingTick
        BY <3>1 DEF context
      <3>10. evaluated' \in BOOLEAN /\ JudgedOnFirst'
        <4>1. CASE tag # lastTag
          <5>1. Len(heard) = 1 /\ sessionReceived' => sessionAllows' = firstAllowed
            BY <2>0, <3>9 DEF FirstQuote
          <5> QED
            BY <3>1, <3>2, <3>8, <4>1, <5>1, EvaluateGatesJudges
        <4>2. CASE tag = lastTag
          <5>1. UNCHANGED <<context, verdict>>
            BY <3>1, <4>2
          <5>2. h # <<>>
            BY <3>3, <4>2, TagKnown DEF HasSeen
          <5>3. Len(heard) > 1
            BY <3>3, <5>2, HeardLength, Appended
          <5>4. Report(firstAllowed, TagOf(<<Head(heard)>>))' = Report(firstAllowed, TagOf(<<Head(heard)>>))
            BY <3>1, <3>2 DEF Report, GateContext
          <5> QED
            BY <2>0, <3>2, <5>1, <5>3, <5>4 DEF JudgedOnFirst, verdict, TypeOK
        <4> QED
          BY <4>1, <4>2
      <3>11. TypeOK'
        BY <2>0, <3>1, <3>2, <3>8, <3>9, <3>10 DEF TypeOK, context
      <3>12. FirstQuote'
        BY <2>0, <3>1, <3>2, <3>9 DEF FirstQuote
      <3> QED
        BY <3>7, <3>10, <3>11, <3>12 DEF IInv
    <2>4. CASE StrategyOnQuoteTick
      <3>1. /\ "GatedSkeletonStrategy" \in toCall /\ toCall' = toCall \ {"GatedSkeletonStrategy"}
            /\ pendingTick' = TRUE /\ EvaluateGates
            /\ UNCHANGED <<requireChain, allowed, regimeActor, sessionAllows, sessionReceived,
                           regimeTag, regimeReceived, history>>
        BY <2>4 DEF StrategyOnQuoteTick, Called
      <3>2. heard # <<>> /\ (evaluated \/ Len(heard) = 1) /\ heard' = heard /\ firstAllowed' = firstAllowed
        BY <2>a, <3>1 DEF history
      <3>3. Len(heard) = 1 /\ sessionReceived' /\ regimeReceived'
              => sessionAllows' = firstAllowed /\ regimeTag' = TagOf(heard)
        BY <2>0, <2>c, <2>d, <3>1, <3>2 DEF FirstQuote
      <3>4. evaluated' \in BOOLEAN /\ JudgedOnFirst'
        BY <3>1, <3>2, <3>3, EvaluateGatesJudges
      <3>5. TypeOK'
        BY <2>0, <3>1, <3>4 DEF TypeOK, history
      <3>6. RegimeFollows'
        BY <2>b, <3>1, <3>2
      <3>7. FirstQuote'
        BY <2>0, <3>1, <3>2 DEF FirstQuote
      <3> QED
        BY <3>4, <3>5, <3>6, <3>7 DEF IInv
    <2>5. CASE UNCHANGED vars
      BY <2>5 DEF vars, regimeActor, context, verdict, history, IInv, TypeOK, RegimeFollows, HasSeen,
                  FirstQuote, JudgedOnFirst, Report, GateContext
    <2> QED
      BY <2>1, <2>2, <2>3, <2>4, <2>5 DEF Next
  <1> QED
    BY <1>1, <1>2, PTL DEF Spec

\* Between two quotes the strategy knows the tag of the last WindowSize prices, although the
\* RegimeActor tells it of changes only (regime.py on_quote_tick).
THEOREM TagIsCurrent == Spec => []KnownTagIsCurrent
  <1>1. IInv => KnownTagIsCurrent
    BY DEF IInv, KnownTagIsCurrent, Quiet, RegimeFollows, HasSeen
  <1> QED
    BY <1>1, InductiveInvariant, PTL

\* The skeleton evaluates the first quote and no other, with the phase and the tag of that
\* quote, in whatever order the bus calls its subscribers (gated_skeleton.py).
THEOREM FirstQuoteDecides == Spec => []FirstQuoteIsJudged
  <1>1. IInv => FirstQuoteIsJudged
    <2> SUFFICES ASSUME IInv, Quiet
                 PROVE  evaluated /\ report = Report(firstAllowed, TagOf(<<Head(heard)>>))
      BY DEF FirstQuoteIsJudged
    <2>1. Len(heard) \in Nat /\ Len(heard) # 0 /\ regimeReceived /\ toCall = {}
      BY HeardLength DEF IInv, TypeOK, Quiet, RegimeFollows, HasSeen
    <2>2. Len(heard) = 1 => sessionReceived /\ pendingTick
      BY <2>1 DEF IInv, FirstQuote
    <2> QED
      BY <2>1, <2>2 DEF IInv, JudgedOnFirst
  <1> QED
    BY <1>1, InductiveInvariant, PTL

\* From a price that only the thresholds fix, no quote leaves the market untagged.
THEOREM HighPricesTagged == Spec => []HighPricesArePinned
  <1>1. IInv => HighPricesArePinned
    <2> SUFFICES ASSUME IInv, Quiet, 2 * PinProximity * Last(heard) >= 1000 * StrikeStep
                 PROVE  regimeTag # "UNKNOWN"
      BY DEF HighPricesArePinned
    <2>1. regimeTag = TagOf(heard)
      BY DEF IInv, Quiet, RegimeFollows, HasSeen
    <2>2. Last(heard) \in Nat \ {0}
      <3>1. heard \in Seq(Mids) /\ heard # <<>>
        BY DEF IInv, TypeOK, Quiet, Heard
      <3>2. Len(heard) \in 1 .. Len(heard)
        BY <3>1, EmptySeq
      <3> QED
        BY <3>1, <3>2, ElementOfSeq, GatedSkeletonAssumption DEF Last
    <2> QED
      BY <2>1, <2>2, HighPriceTagged DEF TagOf
  <1> QED
    BY <1>1, InductiveInvariant, PTL
=============================================================================
