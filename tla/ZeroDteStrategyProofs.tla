----------------------- MODULE ZeroDteStrategyProofs -----------------------
(***************************************************************************)
(* Proofs about ZeroDteStrategy, for every set of profiles and regimes and *)
(* every bound.                                                            *)
(***************************************************************************)
EXTENDS ZeroDteStrategy, TLAPS

USE DEF NoIntent

Books == [Orders -> [status : Statuses, open : 0 .. OrderQty]]

-----------------------------------------------------------------------------
(* What the operators on the order book return.                             *)

\* An order of a known status and a remaining quantity within bounds is an order, and
\* it has the two fields it was made of.
LEMMA OrderTyped ==
    ASSUME NEW st \in Statuses, NEW q \in 0 .. OrderQty
    PROVE  /\ Order(st, q) \in [status : Statuses, open : 0 .. OrderQty]
           /\ Order(st, q).status = st
           /\ Order(st, q).open = q
  BY DEF Order

\* A closed order is an order.
LEMMA ClosedTyped ==
    /\ Closed \in [status : Statuses, open : 0 .. OrderQty]
    /\ Closed.status = "closed"
  BY BoundsAssumption DEF Closed, Order, Statuses

\* Sending an order turns an order book into one.
LEMMA SentTyped ==
    ASSUME NEW book \in Books, NEW i, NEW role
    PROVE  Sent(book, i, role) \in Books
  <1>1. Order("working", OrderQty) \in [status : Statuses, open : 0 .. OrderQty]
    BY OrderTyped, BoundsAssumption DEF Statuses
  <1> QED
    BY <1>1 DEF Sent, Books

\* Sending an entry, with or without a bracket, turns an order book into one.
LEMMA EntrySentTyped ==
    ASSUME NEW book \in Books, NEW i \in Intents
    PROVE  EntrySent(book, i) \in Books
  <1>1. CASE profile.plumbing
    BY <1>1, SentTyped DEF EntrySent, Roles
  <1>2. CASE ~ profile.plumbing
    <2>1. Order("working", OrderQty) \in [status : Statuses, open : 0 .. OrderQty]
      BY OrderTyped, BoundsAssumption DEF Statuses
    <2>2. Order("held", OrderQty) \in [status : Statuses, open : 0 .. OrderQty]
      BY OrderTyped, BoundsAssumption DEF Statuses
    <2> QED
      BY <1>2, <2>1, <2>2 DEF EntrySent, Books
  <1> QED
    BY <1>1, <1>2

\* A fill within what the venue may fill turns the order book into one.
LEMMA FilledTyped ==
    ASSUME orders \in Books, NEW o \in Orders, NEW n \in Fillable(o)
    PROVE  Filled(o, n) \in Books
  <1>1. orders[o].open - n \in 0 .. OrderQty
    BY BoundsAssumption DEF Books, Fillable
  <1>2. \A q \in Orders : Order("working", orders[q].open)
                              \in [status : Statuses, open : 0 .. OrderQty]
    BY OrderTyped DEF Books, Statuses
  <1>3. Order("working", orders[o].open - n) \in [status : Statuses, open : 0 .. OrderQty]
    BY <1>1, OrderTyped DEF Statuses
  <1> QED
    BY <1>1, <1>2, <1>3, ClosedTyped DEF Filled, Books

\* The end of an order turns the order book into one.
LEMMA EndedTyped ==
    ASSUME orders \in Books, NEW o \in Orders
    PROVE  Ended(o) \in Books
  BY ClosedTyped DEF Ended, Books
-----------------------------------------------------------------------------
(* Which orders have been sent.                                             *)

WasSent(book, o) == book[o].status # "none"

\* An order is made of an intent and a role.
LEMMA OrderParts ==
    /\ \A i \in Intents, role \in Roles : <<i, role>> \in Orders
    /\ \A o \in Orders : o[1] \in Intents /\ o[2] \in Roles /\ o = <<o[1], o[2]>>
    /\ \A o \in Orders : Parent(o) \in Orders
  BY DEF Orders, Parent, Roles

\* Sending an order makes that order a sent one and no other.
LEMMA SentSends ==
    ASSUME NEW book \in Books, NEW i \in Intents, NEW role \in Roles, NEW o \in Orders
    PROVE  WasSent(Sent(book, i, role), o) <=> WasSent(book, o) \/ o = <<i, role>>
  BY OrderParts, OrderTyped, BoundsAssumption DEF Sent, Books, WasSent, Order

\* Sending an entry makes it a sent one, its bracket perhaps, and no other order.
LEMMA EntrySentSends ==
    ASSUME NEW book \in Books, NEW i \in Intents
    PROVE  /\ WasSent(EntrySent(book, i), <<i, "entry">>)
           /\ \A o \in Orders : /\ WasSent(book, o) => WasSent(EntrySent(book, i), o)
                                /\ o[1] # i \/ o[2] \notin {"entry", "tp", "sl"} =>
                                      (WasSent(EntrySent(book, i), o) <=> WasSent(book, o))
  <1>1. CASE profile.plumbing
    <2>1. EntrySent(book, i) = Sent(book, i, "entry") /\ "entry" \in Roles
      BY <1>1 DEF EntrySent, Roles
    <2>2. \A o \in Orders : WasSent(EntrySent(book, i), o)
                                <=> WasSent(book, o) \/ o = <<i, "entry">>
      BY <2>1, SentSends
    <2>3. <<i, "entry">> \in Orders
      BY <2>1, OrderParts
    <2>4. WasSent(EntrySent(book, i), <<i, "entry">>)
      BY <2>2, <2>3
    <2>5. \A o \in Orders : o[1] # i \/ o[2] \notin {"entry", "tp", "sl"} => o # <<i, "entry">>
      OBVIOUS
    <2> QED
      BY <2>2, <2>4, <2>5
  <1>2. CASE ~ profile.plumbing
    <2> DEFINE new == EntrySent(book, i)
    <2>1. \A o \in Orders :
             new[o] = IF o[1] = i /\ o[2] = "entry" THEN Order("working", OrderQty)
                      ELSE IF o[1] = i /\ o[2] \in {"tp", "sl"} THEN Order("held", OrderQty)
                      ELSE book[o]
      BY <1>2 DEF EntrySent, Role, Bracket
    <2>2. Order("working", OrderQty).status # "none" /\ Order("held", OrderQty).status # "none"
      BY DEF Order
    <2>3. <<i, "entry">> \in Orders /\ <<i, "entry">>[1] = i /\ <<i, "entry">>[2] = "entry"
      BY OrderParts DEF Roles
    <2> HIDE DEF new
    <2>4. WasSent(new, <<i, "entry">>)
      BY <2>1, <2>2, <2>3 DEF WasSent
    <2>5. \A o \in Orders : WasSent(book, o) => WasSent(new, o)
      BY <2>1, <2>2 DEF WasSent
    <2>6. \A o \in Orders : o[1] # i \/ o[2] \notin {"entry", "tp", "sl"} =>
                                (WasSent(new, o) <=> WasSent(book, o))
      BY <2>1 DEF WasSent
    <2> QED
      BY <2>4, <2>5, <2>6 DEF new
  <1> QED
    BY <1>1, <1>2

\* A fill sends no order and forgets none: it may only release a held bracket.
LEMMA FilledSendsNothing ==
    ASSUME orders \in Books, NEW o \in Orders, AtVenue(o), NEW n \in Fillable(o),
           NEW q \in Orders
    PROVE  WasSent(Filled(o, n), q) <=> WasSent(orders, q)
  BY DEF Filled, WasSent, Order, Closed, AtVenue

\* The end of an order sends none and forgets none.
LEMMA EndedSendsNothing ==
    ASSUME orders \in Books, NEW o \in Orders, AtVenue(o), NEW q \in Orders
    PROVE  WasSent(Ended(o), q) <=> WasSent(orders, q)
  BY DEF Ended, WasSent, Order, Closed, AtVenue

-----------------------------------------------------------------------------
(* Type correctness.                                                        *)

\* An entry keeps the types of the state and the orders.
LEMMA SubmitApprovedTyped ==
    ASSUME orders \in Books, NEW i \in Intents, SubmitApprovedIntent(i)
    PROVE  state' \in States /\ orders' \in Books /\ activeIntent' = i
  BY EntrySentTyped DEF SubmitApprovedIntent, States

\* An exit keeps the types of the state and the orders.
LEMMA SubmitExitTyped ==
    ASSUME orders \in Books, SubmitExit
    PROVE  state' \in States /\ orders' \in Books
  BY SentTyped DEF SubmitExit, States

\* Every step keeps every variable within its type.
LEMMA TypeStep ==
    ASSUME TypeOK, [Next]_vars
    PROVE  TypeOK'
  <1> USE DEF TypeOK
  <1>0. orders \in Books
    BY DEF Books
  <1>1. CASE BeginEvaluation
    <2>1. built + 1 \in Intents
      BY <1>1, BoundsAssumption DEF BeginEvaluation, Intents
    <2>2. CASE profile.selector
      BY <1>1, <2>1, <2>2, BoundsAssumption
         DEF BeginEvaluation, QueueForSelector, context, latches, States, Intents
    <2>3. CASE ~ profile.selector
      <3>1. SubmitApprovedIntent(built + 1) /\ UNCHANGED pendingIntent
        BY <1>1, <2>3 DEF BeginEvaluation
      <3>2. state' \in States /\ orders' \in Books /\ activeIntent' = built + 1
        BY <1>0, <2>1, <3>1, SubmitApprovedTyped
      <3> QED
        BY <1>1, <2>1, <3>1, <3>2, BoundsAssumption
           DEF BeginEvaluation, context, latches, Intents, Books
    <2> QED
      BY <2>2, <2>3
  <1>2. ASSUME NEW i \in Intents, OnIntentApproved(i)
        PROVE  TypeOK'
    <2>1. state' \in States /\ orders' \in Books /\ activeIntent' = i
      BY <1>0, <1>2, SubmitApprovedTyped DEF OnIntentApproved
    <2> QED
      BY <1>2, <2>1, BoundsAssumption DEF OnIntentApproved, context, latches, Intents, Books
  <1>3. ASSUME NEW i \in Intents, OnIntentRejected(i)
        PROVE  TypeOK'
    BY <1>3, BoundsAssumption DEF OnIntentRejected, context, latches, States
  <1>4. CASE ManagePosition
    <2>1. CASE FlattenPositions /\ UNCHANGED exitSubmitted
      BY <1>4, <2>1 DEF ManagePosition, FlattenPositions, context
    <2>2. CASE CheckExitTriggers
      BY <1>0, <1>4, <2>2, SubmitExitTyped
         DEF ManagePosition, CheckExitTriggers, context, Books
    <2> QED
      BY <1>4, <2>1, <2>2 DEF ManagePosition
  <1>5. CASE OnOptionGreeks
    BY <1>0, <1>5, SentTyped DEF OnOptionGreeks, context, Books
  <1>6. ASSUME NEW allows \in BOOLEAN, OnSessionPhase(allows)
        PROVE  TypeOK'
    BY <1>6 DEF OnSessionPhase, FlattenPositions, latches
  <1>7. ASSUME NEW tag \in RegimeTags, OnRegimeTag(tag)
        PROVE  TypeOK'
    BY <1>7 DEF OnRegimeTag, latches
  <1>8. ASSUME NEW o \in Orders, OnOrderFilled(o)
        PROVE  TypeOK'
    <2>1. PICK n \in Fillable(o) : orders' = Filled(o, n) /\ position' = position + Side(Role(o)) * n
      BY <1>8 DEF OnOrderFilled
    <2>2. orders' \in Books
      BY <1>0, <2>1, FilledTyped
    <2>3. position' \in Int
      BY <2>1, BoundsAssumption DEF Fillable, Side
    <2>4. state' \in States
      BY <1>8 DEF OnOrderFilled, States
    <2>5. activeIntent' \in 0 .. built
      BY <1>8, BoundsAssumption DEF OnOrderFilled
    <2>6. priced' \in BOOLEAN
      BY <1>8 DEF OnOrderFilled
    <2> QED
      BY <1>8, <2>2, <2>3, <2>4, <2>5, <2>6 DEF OnOrderFilled, context, latches, Books
  <1>9. ASSUME NEW o \in Orders, OnOrderRefused(o)
        PROVE  TypeOK'
    BY <1>0, <1>9, EndedTyped, BoundsAssumption
       DEF OnOrderRefused, context, latches, States, Books
  <1>10. ASSUME NEW o \in Orders, VenueCancels(o)
         PROVE  TypeOK'
    BY <1>0, <1>10, EndedTyped DEF VenueCancels, context, latches, Books
  <1>11. CASE UNCHANGED vars
    BY <1>11 DEF vars, context, latches
  <1> QED
    BY <1>1, <1>2, <1>3, <1>4, <1>5, <1>6, <1>7, <1>8, <1>9, <1>10, <1>11
       DEF Next, OnOptionChain, OnQuoteTick, SelectorAnswers
-----------------------------------------------------------------------------
(* The invariant on the state machine and the ids it holds.                 *)

\* A trade in progress keeps its intent and its price, and an intent is kept for an
\* answer exactly while one is awaited.
LEMMA StateStep ==
    ASSUME IInv, [Next]_vars
    PROVE  PositionManageable' /\ AwaitingExactlyPending'
  <1> USE DEF PositionManageable, AwaitingExactlyPending, InTrade
  <1>0. TypeOK /\ PositionManageable /\ AwaitingExactlyPending /\ TypeOK'
    BY TypeStep DEF IInv
  <1>1. CASE BeginEvaluation
    BY <1>0, <1>1, BoundsAssumption
       DEF BeginEvaluation, QueueForSelector, SubmitApprovedIntent, TypeOK
  <1>2. ASSUME NEW i \in Intents, OnIntentApproved(i)
        PROVE  PositionManageable' /\ AwaitingExactlyPending'
    BY <1>0, <1>2 DEF OnIntentApproved, SubmitApprovedIntent, Intents
  <1>3. ASSUME NEW i \in Intents, OnIntentRejected(i)
        PROVE  PositionManageable' /\ AwaitingExactlyPending'
    BY <1>0, <1>3 DEF OnIntentRejected
  <1>4. CASE ManagePosition
    BY <1>0, <1>4 DEF ManagePosition, FlattenPositions, CheckExitTriggers, SubmitExit
  <1>5. CASE OnOptionGreeks
    BY <1>0, <1>5 DEF OnOptionGreeks
  <1>6. ASSUME NEW allows \in BOOLEAN, OnSessionPhase(allows)
        PROVE  PositionManageable' /\ AwaitingExactlyPending'
    BY <1>0, <1>6 DEF OnSessionPhase, FlattenPositions
  <1>7. ASSUME NEW tag \in RegimeTags, OnRegimeTag(tag)
        PROVE  PositionManageable' /\ AwaitingExactlyPending'
    BY <1>0, <1>7 DEF OnRegimeTag
  <1>8. ASSUME NEW o \in Orders, OnOrderFilled(o)
        PROVE  PositionManageable' /\ AwaitingExactlyPending'
    BY <1>0, <1>8 DEF OnOrderFilled
  <1>9. ASSUME NEW o \in Orders, OnOrderRefused(o)
        PROVE  PositionManageable' /\ AwaitingExactlyPending'
    BY <1>0, <1>9 DEF OnOrderRefused
  <1>10. ASSUME NEW o \in Orders, VenueCancels(o)
         PROVE  PositionManageable' /\ AwaitingExactlyPending'
    BY <1>0, <1>10 DEF VenueCancels
  <1>11. CASE UNCHANGED vars
    BY <1>0, <1>11 DEF vars
  <1> QED
    BY <1>1, <1>2, <1>3, <1>4, <1>5, <1>6, <1>7, <1>8, <1>9, <1>10, <1>11
       DEF Next, OnOptionChain, OnQuoteTick, SelectorAnswers
-----------------------------------------------------------------------------
(* The invariant on the orders.                                             *)

OrderInv == OrdersFollowEntry /\ AtMostOneHedge /\ SentInTurn

\* A step that sends no order, builds no intent and begins no trade keeps OrderInv.
LEMMA QuietStep ==
    ASSUME OrderInv,
           \A o \in Orders : WasSent(orders', o) <=> WasSent(orders, o),
           built' = built,
           pendingIntent' \in {pendingIntent, NoIntent},
           activeIntent \in Intents \/ ~ InTrade,
           InTrade' => InTrade /\ activeIntent' = activeIntent,
           state' \in {"PendingEntry", "InPosition"} => state \in {"PendingEntry", "InPosition"},
           hedgeSubmitted' = hedgeSubmitted
    PROVE  OrderInv'
  <1> USE DEF OrderInv, WasSent, Unsent
  <1>1. \A i \in Intents : i # NoIntent
    BY DEF Intents
  <1>2. OrdersFollowEntry'
    BY OrderParts DEF OrdersFollowEntry
  <1>3. AtMostOneHedge'
    BY OrderParts DEF AtMostOneHedge, Roles
  <1>4. (\A i \in Intents, role \in Roles : i > built \/ i = pendingIntent => Unsent(i, role))'
    BY <1>1, OrderParts DEF SentInTurn
  <1>5. (InTrade => ~ Unsent(activeIntent, "entry"))'
    BY OrderParts DEF SentInTurn, Roles, InTrade
  <1>6. (state \in {"PendingEntry", "InPosition"} => Unsent(activeIntent, "exit"))'
    <2> SUFFICES ASSUME state' \in {"PendingEntry", "InPosition"}
                 PROVE  ~ WasSent(orders', <<activeIntent', "exit">>)
      OBVIOUS
    <2>1. InTrade /\ activeIntent' = activeIntent /\ activeIntent \in Intents
      BY DEF InTrade
    <2>2. ~ WasSent(orders, <<activeIntent, "exit">>)
      BY DEF SentInTurn
    <2>3. <<activeIntent, "exit">> \in Orders
      BY <2>1, OrderParts DEF Roles
    <2> QED
      BY <2>1, <2>2, <2>3
  <1>7. (~ hedgeSubmitted => \A i \in Intents : Unsent(i, "hedge"))'
    BY OrderParts DEF SentInTurn, Roles
  <1> QED
    BY <1>2, <1>3, <1>4, <1>5, <1>6, <1>7 DEF SentInTurn

\* The entry of an intent that had no order so far.
LEMMA EntryStep ==
    ASSUME OrderInv, orders \in Books, NEW i \in Intents,
           \A role \in Roles : Unsent(i, role),
           SubmitApprovedIntent(i),
           built \in Nat, built' \in Nat, built <= built', i <= built', pendingIntent' = NoIntent,
           hedgeSubmitted' = hedgeSubmitted
    PROVE  OrderInv'
  <1> USE DEF OrderInv, WasSent, Unsent
  <1>1. \A o \in Orders : /\ WasSent(orders, o) => WasSent(orders', o)
                          /\ WasSent(orders', o) /\ ~ WasSent(orders, o) =>
                                 o[1] = i /\ o[2] \in {"entry", "tp", "sl"}
    <2>1. orders' = orders \/ orders' = EntrySent(orders, i)
      BY DEF SubmitApprovedIntent
    <2>2. CASE orders' = orders
      BY <2>2
    <2>3. CASE orders' = EntrySent(orders, i)
      <3>1. \A o \in Orders : /\ WasSent(orders, o) => WasSent(EntrySent(orders, i), o)
                              /\ o[1] # i \/ o[2] \notin {"entry", "tp", "sl"} =>
                                    (WasSent(EntrySent(orders, i), o) <=> WasSent(orders, o))
        BY EntrySentSends
      <3> QED
        BY <2>3, <3>1
    <2> QED
      BY <2>1, <2>2, <2>3
  <1>2. state' = "PendingEntry" => WasSent(orders', <<i, "entry">>)
    BY EntrySentSends DEF SubmitApprovedIntent
  <1>3. state' = "Flat" => orders' = orders
    BY DEF SubmitApprovedIntent
  <1>4. activeIntent' = i /\ state' \in {"PendingEntry", "Flat"}
    BY DEF SubmitApprovedIntent
  <1>5. OrdersFollowEntry'
    BY <1>1, <1>2, <1>3, <1>4, OrderParts DEF OrdersFollowEntry, Parent
  <1>6. \A j \in Intents : WasSent(orders', <<j, "hedge">>) <=> WasSent(orders, <<j, "hedge">>)
    BY <1>1, OrderParts DEF Roles
  <1>7. AtMostOneHedge'
    BY <1>6 DEF AtMostOneHedge
  <1>8. (\A j \in Intents, role \in Roles : j > built \/ j = pendingIntent => Unsent(j, role))'
    <2> SUFFICES ASSUME NEW j \in Intents, NEW role \in Roles, j > built'
                 PROVE  ~ WasSent(orders', <<j, role>>)
      BY DEF Intents
    <2>1. j > built /\ j # i
      BY DEF Intents
    <2>2. ~ WasSent(orders, <<j, role>>)
      BY <2>1 DEF SentInTurn
    <2> QED
      BY <1>1, <2>1, <2>2, OrderParts
  <1>9. (InTrade => ~ Unsent(activeIntent, "entry"))'
    BY <1>2, <1>4 DEF InTrade
  <1>10. (state \in {"PendingEntry", "InPosition"} => Unsent(activeIntent, "exit"))'
    BY <1>1, <1>4, OrderParts DEF Roles
  <1>11. (~ hedgeSubmitted => \A j \in Intents : Unsent(j, "hedge"))'
    BY <1>6 DEF SentInTurn
  <1> QED
    BY <1>5, <1>7, <1>8, <1>9, <1>10, <1>11 DEF SentInTurn

\* Leaving a position: the exit of the intent in the trade.
LEMMA ExitStep ==
    ASSUME OrderInv, InTrade, activeIntent \in Intents, activeIntent <= built,
           activeIntent # pendingIntent, built \in Nat,
           orders \in Books, SubmitExit,
           UNCHANGED <<built, pendingIntent, activeIntent, hedgeSubmitted>>
    PROVE  OrderInv'
  <1> USE DEF OrderInv, WasSent, Unsent
  <1>1. \A o \in Orders : /\ WasSent(orders, o) => WasSent(orders', o)
                          /\ WasSent(orders', o) /\ ~ WasSent(orders, o) =>
                                 o = <<activeIntent, "exit">>
    BY SentSends DEF SubmitExit, Roles
  <1>2. state' \in {"Exiting", "Flat"}
    BY DEF SubmitExit
  <1>3. WasSent(orders, <<activeIntent, "entry">>)
    BY DEF SentInTurn
  <1>4. OrdersFollowEntry'
    BY <1>1, <1>3, OrderParts DEF OrdersFollowEntry, Parent
  <1>5. \A j \in Intents : WasSent(orders', <<j, "hedge">>) <=> WasSent(orders, <<j, "hedge">>)
    BY <1>1, OrderParts DEF Roles
  <1>6. AtMostOneHedge'
    BY <1>5 DEF AtMostOneHedge
  <1>7. (\A j \in Intents, role \in Roles : j > built \/ j = pendingIntent => Unsent(j, role))'
    <2> SUFFICES ASSUME NEW j \in Intents, NEW role \in Roles, j > built \/ j = pendingIntent
                 PROVE  ~ WasSent(orders', <<j, role>>)
      OBVIOUS
    <2>1. j # activeIntent
      BY DEF Intents
    <2>2. ~ WasSent(orders, <<j, role>>)
      BY DEF SentInTurn
    <2> QED
      BY <1>1, <2>1, <2>2, OrderParts
  <1>8. (InTrade => ~ Unsent(activeIntent, "entry"))'
    BY <1>1, <1>3, OrderParts DEF Roles
  <1>9. (state \in {"PendingEntry", "InPosition"} => Unsent(activeIntent, "exit"))'
    BY <1>2
  <1>10. (~ hedgeSubmitted => \A j \in Intents : Unsent(j, "hedge"))'
    BY <1>5 DEF SentInTurn
  <1> QED
    BY <1>4, <1>6, <1>7, <1>8, <1>9, <1>10 DEF SentInTurn

\* The one hedge.
LEMMA HedgeStep ==
    ASSUME OrderInv, TypeOK, activeIntent \in Intents, activeIntent # pendingIntent,
           OnOptionGreeks
    PROVE  OrderInv'
  <1> USE DEF OrderInv, WasSent, Unsent
  <1>1. orders \in Books /\ built \in Nat
    BY BoundsAssumption DEF TypeOK, Books
  <1>2. \A o \in Orders : /\ WasSent(orders, o) => WasSent(orders', o)
                          /\ WasSent(orders', o) /\ ~ WasSent(orders, o) =>
                                 o = <<activeIntent, "hedge">>
    BY <1>1, SentSends DEF OnOptionGreeks, Roles
  <1>3. /\ UNCHANGED <<built, pendingIntent, activeIntent, state>>
        /\ hedgeSubmitted' /\ InTrade
        /\ \A j \in Intents : ~ WasSent(orders, <<j, "hedge">>)
    BY DEF OnOptionGreeks, SentInTurn, InTrade
  <1>4. OrdersFollowEntry'
    BY <1>2, <1>3, OrderParts DEF OrdersFollowEntry, Parent, SentInTurn
  <1>5. AtMostOneHedge'
    BY <1>2, <1>3, OrderParts DEF AtMostOneHedge, Roles
  <1>6. (\A j \in Intents, role \in Roles : j > built \/ j = pendingIntent => Unsent(j, role))'
    <2> SUFFICES ASSUME NEW j \in Intents, NEW role \in Roles, j > built \/ j = pendingIntent
                 PROVE  ~ WasSent(orders', <<j, role>>)
      BY <1>3
    <2>1. j # activeIntent
      BY <1>1 DEF TypeOK, Intents
    <2>2. ~ WasSent(orders, <<j, role>>)
      BY DEF SentInTurn
    <2> QED
      BY <1>2, <2>1, <2>2, OrderParts
  <1>7. (InTrade => ~ Unsent(activeIntent, "entry"))'
    BY <1>2, <1>3, OrderParts DEF Roles, SentInTurn
  <1>8. (state \in {"PendingEntry", "InPosition"} => Unsent(activeIntent, "exit"))'
    BY <1>2, <1>3, OrderParts DEF Roles, SentInTurn
  <1> QED
    BY <1>3, <1>4, <1>5, <1>6, <1>7, <1>8 DEF SentInTurn
\* Every step keeps OrderInv.
LEMMA OrderStep ==
    ASSUME IInv, [Next]_vars
    PROVE  OrderInv'
  <1>0. /\ TypeOK /\ PositionManageable /\ AwaitingExactlyPending /\ OrderInv
        /\ TypeOK' /\ PositionManageable' /\ AwaitingExactlyPending'
    BY TypeStep, StateStep DEF IInv, OrderInv
  <1>a. /\ orders \in Books /\ built \in Nat /\ built' \in Nat
        /\ activeIntent \in Nat /\ activeIntent <= built
        /\ pendingIntent \in Nat /\ pendingIntent <= built
    BY <1>0, BoundsAssumption DEF TypeOK, Books
  <1>b. activeIntent \in Intents \/ ~ InTrade
    BY <1>0, BoundsAssumption DEF TypeOK, PositionManageable, Intents
  <1>c. InTrade => activeIntent # pendingIntent
    BY <1>0 DEF PositionManageable, AwaitingExactlyPending, InTrade
  <1>d. state \in {"PendingEntry", "InPosition"} => InTrade
    BY DEF InTrade
  <1>1. CASE BeginEvaluation
    <2>1. /\ built' = built + 1 /\ built + 1 \in Intents
          /\ UNCHANGED latches /\ state = "Flat"
      BY <1>a, <1>1, BoundsAssumption DEF BeginEvaluation, Intents
    <2>2. CASE profile.selector
      <3>1. /\ orders' = orders /\ state' = "PendingApproval"
            /\ pendingIntent' = built + 1 /\ hedgeSubmitted' = hedgeSubmitted
        BY <1>1, <2>2 DEF BeginEvaluation, QueueForSelector, latches
      <3>2. ~ InTrade'
        BY <3>1 DEF InTrade
      <3>3. OrdersFollowEntry' /\ AtMostOneHedge'
        BY <1>0, <3>1 DEF OrderInv, OrdersFollowEntry, AtMostOneHedge
      <3>4. \A i \in Intents, role \in Roles : i > built => Unsent(i, role)
        BY <1>0 DEF OrderInv, SentInTurn
      <3>5. (\A i \in Intents, role \in Roles :
                i > built \/ i = pendingIntent => Unsent(i, role))'
        BY <1>a, <2>1, <3>1, <3>4 DEF Unsent, Intents
      <3>6. (~ hedgeSubmitted => \A i \in Intents : Unsent(i, "hedge"))'
        BY <1>0, <3>1 DEF OrderInv, SentInTurn, Unsent
      <3> QED
        BY <3>1, <3>2, <3>3, <3>5, <3>6 DEF OrderInv, SentInTurn
    <2>3. CASE ~ profile.selector
      <3>1. SubmitApprovedIntent(built + 1) /\ pendingIntent' = pendingIntent
        BY <1>1, <2>3 DEF BeginEvaluation
      <3>2. pendingIntent = NoIntent
        BY <1>0, <2>1 DEF AwaitingExactlyPending
      <3>3. \A role \in Roles : Unsent(built + 1, role)
        BY <1>0, <1>a, <2>1 DEF OrderInv, SentInTurn
      <3>4. built <= built' /\ built + 1 <= built' /\ hedgeSubmitted' = hedgeSubmitted
        BY <1>a, <2>1 DEF latches
      <3> QED
        BY <1>0, <1>a, <2>1, <3>1, <3>2, <3>3, <3>4, EntryStep
    <2> QED
      BY <2>2, <2>3
  <1>2. ASSUME NEW i \in Intents, OnIntentApproved(i)
        PROVE  OrderInv'
    <2>1. /\ SubmitApprovedIntent(i) /\ pendingIntent = i /\ pendingIntent' = NoIntent
          /\ built' = built /\ hedgeSubmitted' = hedgeSubmitted
      BY <1>2 DEF OnIntentApproved, latches
    <2>2. \A role \in Roles : Unsent(i, role)
      BY <1>0, <2>1 DEF OrderInv, SentInTurn
    <2> QED
      BY <1>0, <1>a, <2>1, <2>2, EntryStep
  <1>3. ASSUME NEW i \in Intents, OnIntentRejected(i)
        PROVE  OrderInv'
    <2>1. /\ UNCHANGED <<built, activeIntent, hedgeSubmitted, orders>>
          /\ pendingIntent' = NoIntent /\ state' = "Flat"
      BY <1>3 DEF OnIntentRejected, latches
    <2> QED
      BY <1>0, <1>b, <2>1, QuietStep DEF InTrade
  <1>4. ASSUME InTrade, SubmitExit,
               UNCHANGED <<built, pendingIntent, activeIntent, hedgeSubmitted>>
        PROVE  OrderInv'
    BY <1>0, <1>a, <1>b, <1>c, <1>4, ExitStep
  <1>5. ASSUME UNCHANGED <<state, built, pendingIntent, activeIntent, hedgeSubmitted, orders>>
        PROVE  OrderInv'
    BY <1>0, <1>b, <1>5, QuietStep DEF InTrade
  <1>6. CASE ManagePosition
    <2>1. /\ state = "InPosition"
          /\ FlattenPositions \/ CheckExitTriggers
          /\ UNCHANGED <<built, pendingIntent, activeIntent, hedgeSubmitted>>
      BY <1>6 DEF ManagePosition
    <2>2. CASE CheckExitTriggers
      BY <1>4, <1>d, <2>1, <2>2 DEF CheckExitTriggers
    <2> QED
      BY <1>5, <2>1, <2>2 DEF FlattenPositions
  <1>7. CASE OnOptionGreeks
    <2>1. InTrade
      BY <1>7 DEF OnOptionGreeks, InTrade
    <2> QED
      BY <1>0, <1>b, <1>c, <1>7, <2>1, HedgeStep
  <1>9. ASSUME NEW allows \in BOOLEAN, OnSessionPhase(allows)
        PROVE  OrderInv'
    BY <1>5, <1>9 DEF OnSessionPhase, FlattenPositions, latches
  <1>10. ASSUME NEW tag \in RegimeTags, OnRegimeTag(tag)
         PROVE  OrderInv'
    BY <1>5, <1>10 DEF OnRegimeTag, latches
  <1>11. ASSUME NEW o \in Orders, OnOrderFilled(o)
         PROVE  OrderInv'
    <2>1. PICK n \in Fillable(o) : orders' = Filled(o, n)
      BY <1>11 DEF OnOrderFilled
    <2>2. \A q \in Orders : WasSent(orders', q) <=> WasSent(orders, q)
      BY <1>a, <1>11, <2>1, FilledSendsNothing DEF OnOrderFilled
    <2>3. UNCHANGED <<built, pendingIntent, hedgeSubmitted>>
      BY <1>11 DEF OnOrderFilled, latches
    <2>4. /\ InTrade' => InTrade /\ activeIntent' = activeIntent
          /\ state' \in {"PendingEntry", "InPosition"} => state \in {"PendingEntry", "InPosition"}
      BY <1>11 DEF OnOrderFilled, InTrade
    <2> QED
      BY <1>0, <1>b, <2>2, <2>3, <2>4, QuietStep
  <1>12. ASSUME NEW o \in Orders, OnOrderRefused(o)
         PROVE  OrderInv'
    <2>1. \A q \in Orders : WasSent(orders', q) <=> WasSent(orders, q)
      BY <1>a, <1>12, EndedSendsNothing DEF OnOrderRefused
    <2>2. UNCHANGED <<built, pendingIntent, hedgeSubmitted>>
      BY <1>12 DEF OnOrderRefused, latches
    <2>3. /\ InTrade' => InTrade /\ activeIntent' = activeIntent
          /\ state' \in {"PendingEntry", "InPosition"} => state \in {"PendingEntry", "InPosition"}
      BY <1>12 DEF OnOrderRefused, InTrade
    <2> QED
      BY <1>0, <1>b, <2>1, <2>2, <2>3, QuietStep
  <1>13. ASSUME NEW o \in Orders, VenueCancels(o)
         PROVE  OrderInv'
    <2>1. \A q \in Orders : WasSent(orders', q) <=> WasSent(orders, q)
      BY <1>a, <1>13, EndedSendsNothing DEF VenueCancels
    <2>2. UNCHANGED <<state, built, pendingIntent, activeIntent, hedgeSubmitted>>
      BY <1>13 DEF VenueCancels, latches
    <2> QED
      BY <1>0, <1>b, <2>1, <2>2, QuietStep DEF InTrade
  <1>14. CASE UNCHANGED vars
    BY <1>5, <1>14 DEF vars, latches
  <1> QED
    BY <1>1, <1>2, <1>3, <1>6, <1>7, <1>9, <1>10, <1>11, <1>12, <1>13, <1>14
       DEF Next, OnOptionChain, OnQuoteTick, SelectorAnswers

-----------------------------------------------------------------------------
(* The theorems.                                                            *)

\* IInv holds at the start and is kept by every step.
THEOREM InductiveInvariant == Spec => []IInv
  <1>1. Init => IInv
    <2> SUFFICES ASSUME Init
                 PROVE  IInv
      OBVIOUS
    <2>1. orders \in Books /\ \A o \in Orders : ~ WasSent(orders, o)
      <3>1. "none" \in Statuses /\ 0 \in 0 .. OrderQty
        BY BoundsAssumption DEF Statuses
      <3>2. /\ Order("none", 0) \in [status : Statuses, open : 0 .. OrderQty]
            /\ Order("none", 0).status = "none"
        BY <3>1, OrderTyped
      <3> QED
        BY <3>2 DEF Init, Books, WasSent
    <2>2. TypeOK
      <3>1. /\ sessionAllows \in BOOLEAN /\ sessionReceived \in BOOLEAN
            /\ flattenSignal \in BOOLEAN /\ regimeReceived \in BOOLEAN
            /\ priced \in BOOLEAN /\ exitSubmitted \in BOOLEAN /\ hedgeSubmitted \in BOOLEAN
        BY DEF Init
      <3>2. profile \in Profiles /\ state \in States /\ regimeTag \in RegimeTags
        BY RegimesAssumption DEF Init, States
      <3>3. /\ built \in 0 .. MaxIntents /\ position \in Int
            /\ pendingIntent \in 0 .. built /\ activeIntent \in 0 .. built
        BY BoundsAssumption DEF Init
      <3> QED
        BY <2>1, <3>1, <3>2, <3>3 DEF TypeOK, Books
    <2>3. PositionManageable /\ AwaitingExactlyPending
      BY DEF Init, PositionManageable, AwaitingExactlyPending, InTrade
    <2>4. OrdersFollowEntry /\ AtMostOneHedge
      BY <2>1, OrderParts DEF OrdersFollowEntry, AtMostOneHedge, WasSent, Roles
    <2>5. SentInTurn
      BY <2>1, OrderParts DEF Init, SentInTurn, InTrade, WasSent, Unsent, Roles
    <2> QED
      BY <2>2, <2>3, <2>4, <2>5 DEF IInv
  <1>2. IInv /\ [Next]_vars => IInv'
    BY TypeStep, StateStep, OrderStep DEF IInv, OrderInv
  <1> QED
    BY <1>1, <1>2, PTL DEF Spec

\* Every variable keeps its type.
THEOREM TypeCorrect == Spec => []TypeOK
  BY InductiveInvariant, PTL DEF IInv

\* A strategy in a trade knows the intent it trades, and in a position its price.
THEOREM PositionsAreManageable == Spec => []PositionManageable
  BY InductiveInvariant, PTL DEF IInv

\* A strategy awaits an answer exactly while it keeps the intent the answer is about.
THEOREM AwaitsWhatIsPending == Spec => []AwaitingExactlyPending
  BY InductiveInvariant, PTL DEF IInv

\* No order is at the venue for an intent whose entry was never sent.
THEOREM OrdersFollowTheirEntry == Spec => []OrdersFollowEntry
  BY InductiveInvariant, PTL DEF IInv

\* A strategy hedges once in its life.
THEOREM OneHedge == Spec => []AtMostOneHedge
  BY InductiveInvariant, PTL DEF IInv

\* Every order is sent in its turn, and its turn comes once.
THEOREM OrdersAreSentInTurn == Spec => []SentInTurn
  BY InductiveInvariant, PTL DEF IInv

-----------------------------------------------------------------------------
(* What a step never does.                                                  *)

\* A held order never comes back, and no order grows, from one book to the next.
NoneResent(book, next) ==
    \A o \in Orders : book[o].status \notin {"none", "held"}
                        => next[o].status # "held" /\ next[o].open <= book[o].open

\* Sending an order that was never sent resends none.
LEMMA SentResendsNone ==
    ASSUME NEW book \in Books, NEW i \in Intents, NEW role \in Roles,
           ~ WasSent(book, <<i, role>>)
    PROVE  NoneResent(book, Sent(book, i, role))
  <1>1. \A o \in Orders : Sent(book, i, role)[o] = book[o] \/ o = <<i, role>>
    BY DEF Sent, Books
  <1> QED
    BY <1>1 DEF NoneResent, WasSent, Books

\* Sending the entry of an intent none of whose orders was sent resends none.
LEMMA EntryResendsNone ==
    ASSUME NEW book \in Books, NEW i \in Intents,
           \A role \in Roles : ~ WasSent(book, <<i, role>>)
    PROVE  NoneResent(book, EntrySent(book, i))
  <1>1. CASE profile.plumbing
    BY <1>1, SentResendsNone DEF EntrySent, Roles
  <1>2. CASE ~ profile.plumbing
    <2>1. \A o \in Orders : EntrySent(book, i)[o] = book[o] \/ o[1] = i
      BY <1>2 DEF EntrySent
    <2>2. \A o \in Orders : o[1] = i => ~ WasSent(book, o)
      BY OrderParts
    <2> QED
      BY <2>1, <2>2 DEF NoneResent, WasSent, Books
  <1> QED
    BY <1>1, <1>2

\* A fill resends none.
LEMMA FilledResendsNone ==
    ASSUME orders \in Books, NEW o \in Orders, AtVenue(o), NEW n \in Fillable(o)
    PROVE  NoneResent(orders, Filled(o, n))
  <1>1. /\ orders[o].open - n <= orders[o].open /\ 0 <= orders[o].open
        /\ \A q \in Orders : 0 <= orders[q].open
    BY BoundsAssumption DEF Books, Fillable
  <1> QED
    BY <1>1 DEF NoneResent, Filled, Order, Closed, AtVenue, Books

\* The end of an order resends none.
LEMMA EndedResendsNone ==
    ASSUME orders \in Books, NEW o \in Orders
    PROVE  NoneResent(orders, Ended(o))
  <1>1. \A q \in Orders : Ended(o)[q] = Closed \/ Ended(o)[q] = orders[q]
    BY DEF Ended
  <1>2. Closed.status = "closed" /\ Closed.open = 0
    BY DEF Closed, Order
  <1>3. \A q \in Orders : 0 <= orders[q].open /\ orders[q].open <= orders[q].open
    BY BoundsAssumption DEF Books
  <1> QED
    BY <1>1, <1>2, <1>3 DEF NoneResent

\* An exit resends none: the intent in the trade was not left before.
LEMMA ExitResendsNone ==
    ASSUME orders \in Books, state = "InPosition", SentInTurn, activeIntent \in Intents,
           SubmitExit
    PROVE  NoneResent(orders, orders')
  <1>1. ~ WasSent(orders, <<activeIntent, "exit">>) /\ "exit" \in Roles
    BY DEF SentInTurn, Unsent, WasSent, Roles
  <1>2. orders' \in {orders, Sent(orders, activeIntent, "exit")}
    BY DEF SubmitExit
  <1>3. NoneResent(orders, orders)
    BY BoundsAssumption DEF NoneResent, Books
  <1> QED
    BY <1>1, <1>2, <1>3, SentResendsNone

\* Every step resends none.
LEMMA StepResendsNone ==
    ASSUME IInv, [Next]_vars
    PROVE  NoneResent(orders, orders')
  <1>0. TypeOK /\ PositionManageable /\ AwaitingExactlyPending /\ SentInTurn
    BY DEF IInv
  <1>a. /\ orders \in Books /\ built \in Nat
        /\ \A i \in Intents : i \in Nat
    BY <1>0, BoundsAssumption DEF TypeOK, Books, Intents
  <1>b. UNCHANGED orders => NoneResent(orders, orders')
    BY <1>a, BoundsAssumption DEF NoneResent, Books
  <1>c. state = "InPosition" => activeIntent \in Intents
    BY <1>0, BoundsAssumption DEF TypeOK, PositionManageable, InTrade, Intents
  <1>1. ASSUME NEW i \in Intents, SubmitApprovedIntent(i),
               i > built \/ i = pendingIntent
        PROVE  NoneResent(orders, orders')
    <2>1. \A role \in Roles : ~ WasSent(orders, <<i, role>>)
      BY <1>0, <1>1 DEF SentInTurn, Unsent, WasSent
    <2> QED
      BY <1>a, <1>b, <1>1, <2>1, EntryResendsNone DEF SubmitApprovedIntent
  <1>2. CASE BeginEvaluation
    <2>1. built + 1 \in Intents /\ built + 1 > built
      BY <1>a, <1>2, BoundsAssumption DEF BeginEvaluation, Intents
    <2> QED
      BY <1>b, <1>1, <1>2, <2>1 DEF BeginEvaluation, QueueForSelector
  <1>3. CASE SelectorAnswers
    BY <1>b, <1>1, <1>3 DEF SelectorAnswers, OnIntentApproved, OnIntentRejected
  <1>4. CASE FlattenPositions
    BY <1>b, <1>4 DEF FlattenPositions
  <1>5. CASE ManagePosition
    BY <1>0, <1>a, <1>c, <1>4, <1>5, ExitResendsNone DEF ManagePosition, CheckExitTriggers
  <1>6. CASE OnOptionGreeks
    <2>1. ~ WasSent(orders, <<activeIntent, "hedge">>) /\ "hedge" \in Roles
      BY <1>0, <1>c, <1>6 DEF OnOptionGreeks, SentInTurn, Unsent, WasSent, Roles
    <2> QED
      BY <1>a, <1>b, <1>c, <1>6, <2>1, SentResendsNone DEF OnOptionGreeks
  <1>7. ASSUME NEW allows \in BOOLEAN, OnSessionPhase(allows)
        PROVE  NoneResent(orders, orders')
    BY <1>b, <1>4, <1>7 DEF OnSessionPhase
  <1>8. ASSUME NEW o \in Orders, OnOrderFilled(o)
        PROVE  NoneResent(orders, orders')
    BY <1>a, <1>8, FilledResendsNone DEF OnOrderFilled
  <1>9. ASSUME NEW o \in Orders, OnOrderRefused(o) \/ VenueCancels(o)
        PROVE  NoneResent(orders, orders')
    BY <1>a, <1>9, EndedResendsNone DEF OnOrderRefused, VenueCancels
  <1>10. ASSUME NEW tag \in RegimeTags, OnRegimeTag(tag)
         PROVE  NoneResent(orders, orders')
    BY <1>b, <1>10 DEF OnRegimeTag
  <1>11. CASE UNCHANGED vars
    BY <1>b, <1>11 DEF vars
  <1> QED
    BY <1>2, <1>3, <1>5, <1>6, <1>7, <1>8, <1>9, <1>10, <1>11
       DEF Next, OnOptionChain, OnQuoteTick

\* No handler, at any time, sends an order to the venue a second time.
THEOREM EveryOrderSentOnce == Spec => NoOrderSentTwice
  <1>1. IInv /\ [Next]_vars
            => [\A o \in Orders : orders[o].status \notin {"none", "held"}
                  => orders'[o].status # "held" /\ orders'[o].open <= orders[o].open]_vars
    BY StepResendsNone DEF NoneResent
  <1> QED
    BY <1>1, InductiveInvariant, PTL DEF Spec, NoOrderSentTwice

-----------------------------------------------------------------------------
(* Which intent a fill is booked to.                                        *)

\* The active intent, if there is one, is at least as young as every order sent.
SentBefore == \A o \in Orders : WasSent(orders, o) => activeIntent = NoIntent \/ activeIntent >= o[1]

\* A step that keeps the active intent or drops it, and sends orders of that intent only,
\* keeps SentBefore.
LEMMA SameIntentStep ==
    ASSUME SentBefore,
           activeIntent \in Nat,
           activeIntent' \in {activeIntent, NoIntent},
           \A o \in Orders : WasSent(orders', o) => WasSent(orders, o)
                                 \/ (o[1] = activeIntent /\ activeIntent' = activeIntent)
    PROVE  SentBefore'
  <1> SUFFICES ASSUME NEW o \in Orders, WasSent(orders', o), activeIntent' # NoIntent
               PROVE  activeIntent' >= o[1]
    BY DEF SentBefore
  <1>1. CASE WasSent(orders, o)
    BY <1>1 DEF SentBefore
  <1>2. CASE o[1] = activeIntent /\ activeIntent' = activeIntent
    BY <1>2
  <1> QED
    BY <1>1, <1>2

\* A step that makes the youngest intent the active one establishes SentBefore.
LEMMA YoungestStep ==
    ASSUME SentInTurn', built' \in Nat, activeIntent' = built'
    PROVE  SentBefore'
  <1> SUFFICES ASSUME NEW o \in Orders, WasSent(orders', o)
               PROVE  activeIntent' >= o[1]
    BY DEF SentBefore
  <1>1. o[1] \in Intents /\ o[2] \in Roles /\ o = <<o[1], o[2]>>
    BY OrderParts
  <1>2. ~ (o[1] > built')
    BY <1>1 DEF SentInTurn, Unsent, WasSent
  <1> QED
    BY <1>1, <1>2, BoundsAssumption DEF Intents

\* Every step keeps SentBefore.
LEMMA SentBeforeStep ==
    ASSUME IInv, IInv', SentBefore, [Next]_vars
    PROVE  SentBefore'
  <1>0. /\ orders \in Books
        /\ activeIntent \in Nat /\ built \in Nat /\ built' \in Nat
        /\ pendingIntent # NoIntent => pendingIntent = built
        /\ SentInTurn'
    BY BoundsAssumption DEF IInv, TypeOK, Books, AwaitingExactlyPending
  <1>a. state = "InPosition" => activeIntent \in Intents
    BY BoundsAssumption DEF IInv, TypeOK, PositionManageable, InTrade, Intents
  <1>1. CASE BeginEvaluation
    <2>1. CASE profile.selector
      BY <1>0, <1>1, <2>1, SameIntentStep DEF BeginEvaluation, QueueForSelector
    <2>2. CASE ~ profile.selector
      BY <1>0, <1>1, <2>2, YoungestStep DEF BeginEvaluation, SubmitApprovedIntent
    <2> QED
      BY <2>1, <2>2
  <1>2. ASSUME NEW i \in Intents, OnIntentApproved(i)
        PROVE  SentBefore'
    <2>1. i # NoIntent /\ pendingIntent = i /\ activeIntent' = i /\ built' = built
      BY <1>2 DEF OnIntentApproved, SubmitApprovedIntent, Intents
    <2> QED
      BY <1>0, <2>1, YoungestStep
  <1>3. ASSUME NEW i \in Intents, OnIntentRejected(i)
        PROVE  SentBefore'
    BY <1>0, <1>3, SameIntentStep DEF OnIntentRejected
  <1>4. ASSUME state = "InPosition", SubmitExit, UNCHANGED activeIntent
        PROVE  SentBefore'
    <2>1. \A o \in Orders : WasSent(orders', o) =>
                                WasSent(orders, o) \/ o = <<activeIntent, "exit">>
      BY <1>0, <1>4, <1>a, SentSends DEF SubmitExit, Roles
    <2> QED
      BY <1>0, <1>4, <2>1, SameIntentStep
  <1>5. ASSUME FlattenPositions, UNCHANGED activeIntent
        PROVE  SentBefore'
    BY <1>0, <1>5, SameIntentStep DEF FlattenPositions
  <1>6. CASE ManagePosition
    BY <1>4, <1>5, <1>6 DEF ManagePosition, CheckExitTriggers
  <1>7. CASE OnOptionGreeks
    <2>1. \A o \in Orders : WasSent(orders', o) =>
                                WasSent(orders, o) \/ o = <<activeIntent, "hedge">>
      BY <1>0, <1>7, <1>a, SentSends DEF OnOptionGreeks, Roles
    <2> QED
      BY <1>0, <1>7, <2>1, SameIntentStep DEF OnOptionGreeks
  <1>8. ASSUME NEW allows \in BOOLEAN, OnSessionPhase(allows)
        PROVE  SentBefore'
    BY <1>0, <1>5, <1>8, SameIntentStep DEF OnSessionPhase
  <1>9. ASSUME NEW tag \in RegimeTags, OnRegimeTag(tag)
        PROVE  SentBefore'
    BY <1>0, <1>9, SameIntentStep DEF OnRegimeTag
  <1>10. ASSUME NEW o \in Orders, OnOrderFilled(o)
         PROVE  SentBefore'
    <2>1. PICK n \in Fillable(o) : orders' = Filled(o, n)
      BY <1>10 DEF OnOrderFilled
    <2>2. \A q \in Orders : WasSent(orders', q) <=> WasSent(orders, q)
      BY <1>0, <1>10, <2>1, FilledSendsNothing DEF OnOrderFilled
    <2>3. activeIntent' \in {activeIntent, NoIntent}
      BY <1>10 DEF OnOrderFilled
    <2> QED
      BY <1>0, <2>2, <2>3, SameIntentStep
  <1>11. ASSUME NEW o \in Orders, OnOrderRefused(o) \/ VenueCancels(o)
         PROVE  SentBefore'
    <2>1. \A q \in Orders : WasSent(orders', q) <=> WasSent(orders, q)
      BY <1>0, <1>11, EndedSendsNothing DEF OnOrderRefused, VenueCancels
    <2>2. activeIntent' \in {activeIntent, NoIntent}
      BY <1>11 DEF OnOrderRefused, VenueCancels
    <2> QED
      BY <1>0, <2>1, <2>2, SameIntentStep
  <1>12. CASE UNCHANGED vars
    BY <1>0, <1>12, SameIntentStep DEF vars
  <1> QED
    BY <1>1, <1>2, <1>3, <1>6, <1>7, <1>8, <1>9, <1>10, <1>11, <1>12
       DEF Next, OnOptionChain, OnQuoteTick, SelectorAnswers

\* A fill, whenever it comes and of whatever order, is never booked to a trade that
\* began before the one the order was sent for.
THEOREM BookedForward == Spec => []FillsBookedForward
  <1>1. Init => SentBefore
    BY DEF Init, SentBefore, WasSent, Order
  <1>2. IInv /\ IInv' /\ SentBefore /\ [Next]_vars => SentBefore'
    BY SentBeforeStep
  <1>3. SentBefore => FillsBookedForward
    BY DEF SentBefore, FillsBookedForward, Attributed, WasSent, AtVenue
  <1> QED
    BY <1>1, <1>2, <1>3, InductiveInvariant, PTL DEF Spec

\* What the direct entry rests on besides IInv: the flatten signal is the negation of
\* the session's permission from the first message on, and only a strategy with a
\* selector awaits an answer.
SignalsAgree ==
    /\ sessionReceived => (flattenSignal <=> ~ sessionAllows)
    /\ state = "PendingApproval" => profile.selector

\* Every step keeps SignalsAgree.
LEMMA SignalsStep ==
    ASSUME SignalsAgree, [Next]_vars
    PROVE  SignalsAgree'
  <1> USE DEF SignalsAgree
  <1>1. CASE BeginEvaluation
    BY <1>1 DEF BeginEvaluation, QueueForSelector, SubmitApprovedIntent, context
  <1>2. CASE SelectorAnswers
    BY <1>2 DEF SelectorAnswers, OnIntentApproved, OnIntentRejected, SubmitApprovedIntent, context
  <1>3. CASE ManagePosition
    BY <1>3 DEF ManagePosition, FlattenPositions, CheckExitTriggers, SubmitExit, context
  <1>4. CASE OnOptionGreeks
    BY <1>4 DEF OnOptionGreeks, context
  <1>5. ASSUME NEW allows \in BOOLEAN, OnSessionPhase(allows)
        PROVE  SignalsAgree'
    <2>1. sessionReceived' => (flattenSignal' <=> ~ sessionAllows')
      BY <1>5 DEF OnSessionPhase
    <2>2. state' = state /\ profile' = profile
      BY <1>5 DEF OnSessionPhase, FlattenPositions
    <2> QED
      BY <2>1, <2>2
  <1>6. ASSUME NEW tag \in RegimeTags, OnRegimeTag(tag)
        PROVE  SignalsAgree'
    BY <1>6 DEF OnRegimeTag
  <1>7. ASSUME NEW o \in Orders, OnOrderFilled(o) \/ OnOrderRefused(o) \/ VenueCancels(o)
        PROVE  SignalsAgree'
    BY <1>7 DEF OnOrderFilled, OnOrderRefused, VenueCancels, context
  <1>8. CASE UNCHANGED vars
    BY <1>8 DEF vars, context
  <1> QED
    BY <1>1, <1>2, <1>3, <1>4, <1>5, <1>6, <1>7, <1>8 DEF Next, OnOptionChain, OnQuoteTick

\* Only an evaluation that passed the gates, or an approval, sends an entry.
LEMMA EntriesComeFrom ==
    ASSUME IInv, [Next]_vars, EntrySentNow
    PROVE  BeginEvaluation \/ (SelectorAnswers /\ state = "PendingApproval")
  <1> SUFFICES ASSUME ~ BeginEvaluation, ~ SelectorAnswers
               PROVE  \A i \in Intents : WasSent(orders', <<i, "entry">>)
                                            <=> WasSent(orders, <<i, "entry">>)
    BY DEF EntrySentNow, WasSent, SelectorAnswers, OnIntentApproved, OnIntentRejected
  <1>0. /\ orders \in Books /\ TypeOK /\ PositionManageable
        /\ \A i \in Intents : <<i, "entry">> \in Orders
    BY OrderParts DEF IInv, TypeOK, Books, Roles
  <1>1. state = "InPosition" => activeIntent \in Intents
    BY <1>0, BoundsAssumption DEF TypeOK, PositionManageable, InTrade, Intents
  <1>2. ASSUME state = "InPosition", NEW role \in Roles \ {"entry"}, NEW i \in Intents
        PROVE  WasSent(Sent(orders, activeIntent, role), <<i, "entry">>)
                   <=> WasSent(orders, <<i, "entry">>)
    BY <1>0, <1>1, <1>2, SentSends
  <1>4. ASSUME state = "InPosition", SubmitExit, NEW i \in Intents
        PROVE  WasSent(orders', <<i, "entry">>) <=> WasSent(orders, <<i, "entry">>)
    BY <1>2, <1>4 DEF SubmitExit, Roles
  <1>5. CASE FlattenPositions
    BY <1>5 DEF FlattenPositions
  <1>6. CASE ManagePosition
    BY <1>4, <1>5, <1>6 DEF ManagePosition, CheckExitTriggers
  <1>7. CASE OnOptionGreeks
    BY <1>2, <1>7 DEF OnOptionGreeks, Roles
  <1>8. ASSUME NEW o \in Orders, OnOrderFilled(o) \/ OnOrderRefused(o) \/ VenueCancels(o)
        PROVE  \A i \in Intents : WasSent(orders', <<i, "entry">>)
                                     <=> WasSent(orders, <<i, "entry">>)
    BY <1>0, <1>8, FilledSendsNothing, EndedSendsNothing
       DEF OnOrderFilled, OnOrderRefused, VenueCancels
  <1>9. CASE UNCHANGED orders
    BY <1>9
  <1>10. ASSUME NEW allows \in BOOLEAN, OnSessionPhase(allows)
         PROVE  FlattenPositions \/ UNCHANGED orders
    BY <1>10 DEF OnSessionPhase
  <1>11. ASSUME NEW tag \in RegimeTags, OnRegimeTag(tag)
         PROVE  UNCHANGED orders
    BY <1>11 DEF OnRegimeTag
  <1> QED
    BY <1>5, <1>6, <1>7, <1>8, <1>9, <1>10, <1>11
       DEF Next, OnOptionChain, OnQuoteTick, vars

\* Without a selector no entry leaves while the session forbids one or in a regime
\* that is blocked.
THEOREM DirectEntriesAreGated == Spec => DirectEntryGated
  <1>1. Init => SignalsAgree
    BY DEF Init, SignalsAgree
  <1>2. SignalsAgree /\ [Next]_vars => SignalsAgree'
    BY SignalsStep
  <1>3. IInv /\ SignalsAgree /\ [Next]_vars
           => [EntrySentNow /\ ~ profile.selector
                  => sessionAllows /\ ~ flattenSignal /\ regimeTag \notin BlockedRegimes]_vars
    BY EntriesComeFrom DEF SignalsAgree, BeginEvaluation, ActorsReady, ContextGatesPass
  <1> QED
    BY <1>1, <1>2, <1>3, InductiveInvariant, PTL DEF Spec, DirectEntryGated

-----------------------------------------------------------------------------
(* How short the position may get.                                          *)

ExitSent(i) == WasSent(orders, <<i, "exit">>)

\* What ShortByOneExitAtMost rests on: there is one exit at most, none while the latch is
\* open; without one the position is not short, and with one it has room for what
\* that exit may still sell.
ShortInv ==
    /\ ~ exitSubmitted => \A i \in Intents : ~ ExitSent(i)
    /\ \A i, j \in Intents : ExitSent(i) /\ ExitSent(j) => i = j
    /\ (\A i \in Intents : ~ ExitSent(i)) => position >= 0
    /\ \A i \in Intents : ExitSent(i) => position - orders[<<i, "exit">>].open >= 0 - OrderQty

\* A step that leaves the exits and the position alone keeps ShortInv.
LEMMA ExitsUntouched ==
    ASSUME ShortInv, UNCHANGED <<exitSubmitted, position>>,
           \A i \in Intents : orders'[<<i, "exit">>] = orders[<<i, "exit">>]
    PROVE  ShortInv'
  BY DEF ShortInv, ExitSent, WasSent

\* Other orders that are sent leave the exits alone.
LEMMA ExitsUnlikeEntries ==
    ASSUME NEW book \in Books, NEW i \in Intents
    PROVE  \A k \in Intents : /\ EntrySent(book, i)[<<k, "exit">>] = book[<<k, "exit">>]
                              /\ Sent(book, i, "hedge")[<<k, "exit">>] = book[<<k, "exit">>]
                              /\ k # i => Sent(book, i, "exit")[<<k, "exit">>] = book[<<k, "exit">>]
                              /\ Sent(book, i, "exit")[<<i, "exit">>] = Order("working", OrderQty)
  <1> SUFFICES ASSUME NEW k \in Intents
               PROVE  /\ EntrySent(book, i)[<<k, "exit">>] = book[<<k, "exit">>]
                      /\ Sent(book, i, "hedge")[<<k, "exit">>] = book[<<k, "exit">>]
                      /\ k # i => Sent(book, i, "exit")[<<k, "exit">>] = book[<<k, "exit">>]
                      /\ Sent(book, i, "exit")[<<i, "exit">>] = Order("working", OrderQty)
    OBVIOUS
  <1>1. <<k, "exit">> \in Orders /\ <<i, "exit">> \in Orders
    BY OrderParts DEF Roles
  <1>2. EntrySent(book, i)[<<k, "exit">>] = book[<<k, "exit">>]
    <2>1. CASE profile.plumbing
      BY <1>1, <2>1 DEF EntrySent, Sent, Books
    <2>2. CASE ~ profile.plumbing
      BY <1>1, <2>2 DEF EntrySent, Role, Bracket
    <2> QED
      BY <2>1, <2>2
  <1> QED
    BY <1>1, <1>2 DEF Sent, Books

\* What a fill does to an exit.
LEMMA ExitsAtVenue ==
    ASSUME orders \in Books, NEW o \in Orders, AtVenue(o), NEW n \in Fillable(o), NEW i \in Intents
    PROVE  /\ <<i, "exit">> \in Orders
           /\ orders[<<i, "exit">>].open \in 0 .. OrderQty
           /\ WasSent(Filled(o, n), <<i, "exit">>) <=> ExitSent(i)
           /\ WasSent(Ended(o), <<i, "exit">>) <=> ExitSent(i)
           /\ Filled(o, n)[<<i, "exit">>].open =
                  orders[<<i, "exit">>].open - (IF o = <<i, "exit">> THEN n ELSE 0)
           /\ Ended(o)[<<i, "exit">>].open \in {orders[<<i, "exit">>].open, 0}
  <1>1. <<i, "exit">> \in Orders /\ <<i, "exit">>[2] = "exit"
    BY OrderParts DEF Roles
  <1>2. orders[<<i, "exit">>].open \in 0 .. OrderQty
    BY <1>1 DEF Books
  <1>3. /\ WasSent(Filled(o, n), <<i, "exit">>) <=> ExitSent(i)
        /\ WasSent(Ended(o), <<i, "exit">>) <=> ExitSent(i)
    BY <1>1, FilledSendsNothing, EndedSendsNothing DEF ExitSent
  <1>4. n \in Int /\ orders[o].open \in Int
    BY BoundsAssumption DEF Fillable, Books
  <1>5. CASE o = <<i, "exit">>
    <2>1. Filled(o, n)[<<i, "exit">>] = IF orders[o].open - n = 0 THEN Closed
                                        ELSE Order("working", orders[o].open - n)
      BY <1>1, <1>5 DEF Filled
    <2> QED
      BY <1>1, <1>2, <1>3, <1>4, <1>5, <2>1 DEF Order, Closed, Ended
  <1>6. CASE o # <<i, "exit">>
    <2>1. /\ ~ orders[<<i, "exit">>].status = "held" => Filled(o, n)[<<i, "exit">>] = orders[<<i, "exit">>]
          /\ Filled(o, n)[<<i, "exit">>].open = orders[<<i, "exit">>].open
      BY <1>1, <1>6 DEF Filled, Role, Bracket, Order
    <2>2. Ended(o)[<<i, "exit">>] \in {orders[<<i, "exit">>], Closed}
      BY <1>1 DEF Ended
    <2>3. orders[<<i, "exit">>].open - 0 = orders[<<i, "exit">>].open
      BY <1>2, BoundsAssumption
    <2> QED
      BY <1>1, <1>2, <1>3, <1>6, <2>1, <2>2, <2>3 DEF Order, Closed
  <1> QED
    BY <1>5, <1>6

\* A position that grows keeps ShortInv if the exits keep what they may sell.
LEMMA ShortGrows ==
    ASSUME ShortInv, orders \in Books, position \in Int, OrderQty \in Nat,
           position' \in Int, position' >= position, exitSubmitted' = exitSubmitted,
           \A i \in Intents : ExitSent(i)' <=> ExitSent(i),
           \A i \in Intents : orders'[<<i, "exit">>].open = orders[<<i, "exit">>].open
    PROVE  ShortInv'
  <1>1. ASSUME NEW p \in Int, NEW q \in Int, NEW n \in Int, q >= p
        PROVE  /\ p >= 0 => q >= 0
               /\ p - n >= 0 - OrderQty => q - n >= 0 - OrderQty
    BY <1>1
  <1>2. \A i \in Intents : orders[<<i, "exit">>].open \in Int
    <2>1. \A i \in Intents : orders[<<i, "exit">>].open \in 0 .. OrderQty
      BY OrderParts DEF Books, Roles
    <2>2. \A x \in 0 .. OrderQty : x \in Int
      OBVIOUS
    <2> QED
      BY <2>1, <2>2
  <1>3. \A i \in Intents : ExitSent(i) => position - orders[<<i, "exit">>].open >= 0 - OrderQty
    BY DEF ShortInv
  <1>4. \A i \in Intents : ExitSent(i)' => position' - orders'[<<i, "exit">>].open >= 0 - OrderQty
    BY <1>1, <1>2, <1>3
  <1> QED
    BY <1>1, <1>4 DEF ShortInv

\* A position that is not short keeps ShortInv if the exits keep what they may sell.
LEMMA ShortCovered ==
    ASSUME ShortInv, orders \in Books, OrderQty \in Nat,
           position' \in Int, position' >= 0, exitSubmitted' = exitSubmitted,
           \A i \in Intents : ExitSent(i)' <=> ExitSent(i),
           \A i \in Intents : orders'[<<i, "exit">>].open = orders[<<i, "exit">>].open
    PROVE  ShortInv'
  <1>1. ASSUME NEW q \in Int, NEW n \in 0 .. OrderQty, q >= 0
        PROVE  q - n >= 0 - OrderQty
    BY <1>1
  <1>2. \A i \in Intents : orders[<<i, "exit">>].open \in 0 .. OrderQty
    BY OrderParts DEF Books, Roles
  <1>3. \A i \in Intents : position' - orders'[<<i, "exit">>].open >= 0 - OrderQty
    BY <1>1, <1>2
  <1> QED
    BY <1>3 DEF ShortInv

\* The end of an order keeps ShortInv.
LEMMA ShortEnds ==
    ASSUME ShortInv, orders \in Books, position \in Int, OrderQty \in Nat,
           NEW o \in Orders, OnOrderRefused(o) \/ VenueCancels(o)
    PROVE  ShortInv'
  <1>1. /\ AtVenue(o) /\ orders' = Ended(o)
        /\ UNCHANGED <<exitSubmitted, position>>
    BY DEF OnOrderRefused, VenueCancels, latches
  <1>2. \A i \in Intents : <<i, "exit">> \in Orders
    BY OrderParts DEF Roles
  <1>3. \A i \in Intents : ExitSent(i)' <=> ExitSent(i)
    BY <1>1, <1>2, EndedSendsNothing DEF ExitSent, WasSent
  <1>4. \A i \in Intents : Ended(o)[<<i, "exit">>].open \in {orders[<<i, "exit">>].open, 0}
    BY <1>2 DEF Ended, Closed, Order
  <1>5. ASSUME NEW p \in Int, NEW n \in 0 .. OrderQty, p - n >= 0 - OrderQty
        PROVE  p - 0 >= 0 - OrderQty
    BY <1>5
  <1>6. \A i \in Intents : orders[<<i, "exit">>].open \in 0 .. OrderQty
    BY <1>2 DEF Books
  <1>7. \A i \in Intents : ExitSent(i) => position - orders[<<i, "exit">>].open >= 0 - OrderQty
    BY DEF ShortInv
  <1>8. \A i \in Intents : ExitSent(i) => position - Ended(o)[<<i, "exit">>].open >= 0 - OrderQty
    BY <1>4, <1>5, <1>6, <1>7
  <1> QED
    BY <1>1, <1>3, <1>8 DEF ShortInv

\* ShortInv bounds the position.
LEMMA ShortSuffices ==
    ASSUME IInv, ShortInv
    PROVE  ShortByOneExitAtMost
  <1>0. orders \in Books /\ position \in Int /\ OrderQty \in Nat
    BY BoundsAssumption DEF IInv, TypeOK, Books
  <1>1. CASE \A i \in Intents : ~ ExitSent(i)
    BY <1>0, <1>1 DEF ShortInv, ShortByOneExitAtMost
  <1>2. ASSUME NEW i \in Intents, ExitSent(i)
        PROVE  ShortByOneExitAtMost
    <2>1. orders[<<i, "exit">>].open \in 0 .. OrderQty
      BY <1>0, OrderParts DEF Books, Roles
    <2>2. position - orders[<<i, "exit">>].open >= 0 - OrderQty
      BY <1>2 DEF ShortInv
    <2> QED
      BY <1>0, <2>1, <2>2 DEF ShortByOneExitAtMost
  <1> QED
    BY <1>1, <1>2

\* Every step keeps ShortInv.
LEMMA ShortStep ==
    ASSUME IInv, ShortInv, [Next]_vars
    PROVE  ShortInv'
  <1>0. /\ orders \in Books /\ position \in Int /\ OrderQty \in Nat
        /\ exitSubmitted \in BOOLEAN
        /\ built \in Nat
    BY BoundsAssumption DEF IInv, TypeOK, Books
  <1>a. state = "InPosition" => activeIntent \in Intents
    BY BoundsAssumption DEF IInv, TypeOK, PositionManageable, InTrade, Intents
  <1>1. ASSUME NEW i \in Intents, SubmitApprovedIntent(i), UNCHANGED <<exitSubmitted, position>>
        PROVE  ShortInv'
    <2>1. orders' \in {orders, EntrySent(orders, i)}
      BY <1>1 DEF SubmitApprovedIntent
    <2>2. \A k \in Intents : orders'[<<k, "exit">>] = orders[<<k, "exit">>]
      <3>1. \A k \in Intents : EntrySent(orders, i)[<<k, "exit">>] = orders[<<k, "exit">>]
        BY <1>0, ExitsUnlikeEntries
      <3> QED
        BY <2>1, <3>1
    <2> QED
      BY <1>1, <2>2, ExitsUntouched
  <1>2. ASSUME UNCHANGED <<orders, exitSubmitted, position>>
        PROVE  ShortInv'
    BY <1>2, ExitsUntouched
  <1>3. CASE BeginEvaluation
    <2>1. built + 1 \in Intents
      BY <1>0, <1>3, BoundsAssumption DEF BeginEvaluation, Intents
    <2> QED
      BY <1>1, <1>2, <1>3, <2>1 DEF BeginEvaluation, QueueForSelector, latches
  <1>4. CASE SelectorAnswers
    BY <1>1, <1>2, <1>4 DEF SelectorAnswers, OnIntentApproved, OnIntentRejected, latches
  <1>5. CASE ManagePosition
    <2>1. CASE flattenSignal
      BY <1>2, <1>5, <2>1 DEF ManagePosition, FlattenPositions
    <2>2. CASE ~ flattenSignal
      <3>1. /\ ~ exitSubmitted /\ exitSubmitted' /\ position' = position
            /\ activeIntent \in Intents
            /\ orders' \in {orders, Sent(orders, activeIntent, "exit")}
        BY <1>a, <1>5, <2>2 DEF ManagePosition, CheckExitTriggers, SubmitExit
      <3>2. \A i \in Intents : ~ ExitSent(i)
        BY <3>1 DEF ShortInv
      <3>3. position >= 0
        BY <3>2 DEF ShortInv
      <3>4. CASE orders' = orders
        BY <3>1, <3>2, <3>3, <3>4 DEF ShortInv, ExitSent, WasSent
      <3>5. CASE orders' = Sent(orders, activeIntent, "exit")
        <4>1. \A i \in Intents : i # activeIntent => ~ WasSent(orders', <<i, "exit">>)
          BY <1>0, <3>1, <3>2, <3>5, ExitsUnlikeEntries DEF ExitSent, WasSent
        <4>2. orders'[<<activeIntent, "exit">>] = Order("working", OrderQty)
          BY <1>0, <3>1, <3>5, ExitsUnlikeEntries
        <4>3. /\ WasSent(orders', <<activeIntent, "exit">>)
              /\ orders'[<<activeIntent, "exit">>].open = OrderQty
          BY <4>2 DEF WasSent, Order
        <4>4. position - OrderQty >= 0 - OrderQty
          BY <1>0, <3>3
        <4> QED
          BY <3>1, <4>1, <4>3, <4>4 DEF ShortInv, ExitSent
      <3> QED
        BY <3>1, <3>4, <3>5
    <2> QED
      BY <2>1, <2>2
  <1>6. CASE OnOptionGreeks
    <2>1. activeIntent \in Intents /\ orders' \in {orders, Sent(orders, activeIntent, "hedge")}
      BY <1>a, <1>6 DEF OnOptionGreeks
    <2>2. UNCHANGED <<exitSubmitted, position>>
      BY <1>6 DEF OnOptionGreeks
    <2>3. \A k \in Intents : orders'[<<k, "exit">>] = orders[<<k, "exit">>]
      <3>1. \A k \in Intents : Sent(orders, activeIntent, "hedge")[<<k, "exit">>] = orders[<<k, "exit">>]
        BY <1>0, <2>1, ExitsUnlikeEntries
      <3> QED
        BY <2>1, <3>1
    <2> QED
      BY <2>2, <2>3, ExitsUntouched
  <1>7. ASSUME NEW allows \in BOOLEAN, OnSessionPhase(allows)
        PROVE  ShortInv'
    BY <1>2, <1>7 DEF OnSessionPhase, FlattenPositions, latches
  <1>8. ASSUME NEW tag \in RegimeTags, OnRegimeTag(tag)
        PROVE  ShortInv'
    BY <1>2, <1>8 DEF OnRegimeTag, latches
  <1>9. ASSUME NEW o \in Orders, OnOrderFilled(o)
        PROVE  ShortInv'
    <2>1. PICK n \in Fillable(o) : /\ orders' = Filled(o, n)
                                   /\ position' = position + Side(Role(o)) * n
      BY <1>9 DEF OnOrderFilled
    <2>2. AtVenue(o) /\ exitSubmitted' = exitSubmitted
      BY <1>9 DEF OnOrderFilled, latches
    <2>3. \A i \in Intents : ExitSent(i)' <=> ExitSent(i)
      BY <1>0, <2>1, <2>2, ExitsAtVenue DEF ExitSent, WasSent
    <2>4. n \in Nat /\ (Role(o) \in Bracket => n <= position)
      BY <1>0 DEF Fillable
    <2>5. CASE Role(o) = "exit"
      <3>1. PICK i \in Intents : o = <<i, "exit">>
        BY <2>5, OrderParts DEF Role
      <3>2. position' = position - n
        BY <1>0, <2>1, <2>4, <2>5 DEF Side
      <3>3. ExitSent(i) /\ orders[o].open \in Int
        BY <1>0, <2>2, <3>1 DEF ExitSent, WasSent, AtVenue, Books
      <3>4. orders'[<<i, "exit">>].open = orders[<<i, "exit">>].open - n
        BY <1>0, <2>1, <2>2, <3>1, ExitsAtVenue
      <3>5. position - orders[<<i, "exit">>].open >= 0 - OrderQty
        BY <3>3 DEF ShortInv
      <3>6. (position - n) - (orders[<<i, "exit">>].open - n) = position - orders[<<i, "exit">>].open
        BY <1>0, <2>4, <3>1, <3>3
      <3>7. position' - orders'[<<i, "exit">>].open = position - orders[<<i, "exit">>].open
        BY <3>2, <3>4, <3>6
      <3>8. \A k \in Intents : ExitSent(k) => k = i
        BY <3>3 DEF ShortInv
      <3> QED
        BY <2>2, <2>3, <3>3, <3>5, <3>7, <3>8 DEF ShortInv
    <2>6. CASE Role(o) # "exit"
      <3>1. \A i \in Intents : orders'[<<i, "exit">>].open = orders[<<i, "exit">>].open
        <4> TAKE i \in Intents
        <4>1. o # <<i, "exit">>
          BY <2>6 DEF Role
        <4>2. orders[<<i, "exit">>].open \in Int
          BY <1>0, <2>2, ExitsAtVenue
        <4> QED
          BY <1>0, <2>1, <2>2, <4>1, <4>2, ExitsAtVenue
      <3>2. CASE Role(o) \in {"entry", "hedge"}
        <4>1. position' \in Int /\ position' >= position
          <5>1. position + Side(Role(o)) * n \in Int /\ position + Side(Role(o)) * n >= position
            BY <1>0, <2>4, <3>2 DEF Side
          <5> QED
            BY <2>1, <5>1
        <4> QED
          BY <1>0, <2>2, <2>3, <3>1, <4>1, ShortGrows
      <3>3. CASE Role(o) \in Bracket
        <4>1. position' \in Int /\ position' >= 0
          <5>1. position + Side(Role(o)) * n \in Int /\ position + Side(Role(o)) * n >= 0
            BY <1>0, <2>4, <3>3 DEF Side, Bracket
          <5> QED
            BY <2>1, <5>1
        <4> QED
          BY <1>0, <2>2, <2>3, <3>1, <4>1, ShortCovered
      <3> QED
        BY <2>6, <3>2, <3>3, OrderParts DEF Role, Roles, Bracket
    <2> QED
      BY <2>5, <2>6
  <1>10. ASSUME NEW o \in Orders, OnOrderRefused(o) \/ VenueCancels(o)
         PROVE  ShortInv'
    BY <1>0, <1>10, ShortEnds
  <1>11. CASE UNCHANGED vars
    BY <1>2, <1>11 DEF vars, latches
  <1> QED
    BY <1>3, <1>4, <1>5, <1>6, <1>7, <1>8, <1>9, <1>10, <1>11
       DEF Next, OnOptionChain, OnQuoteTick

\* Over all its trades a strategy is never short by more than the quantity of one exit.
THEOREM ShortIsBounded == Spec => []ShortByOneExitAtMost
  <1>1. Init => ShortInv
    BY DEF Init, ShortInv, ExitSent, WasSent, Order, Orders, Roles
  <1>2. IInv /\ ShortInv /\ [Next]_vars => ShortInv'
    BY ShortStep
  <1>3. IInv /\ ShortInv => ShortByOneExitAtMost
    BY ShortSuffices
  <1> QED
    BY <1>1, <1>2, <1>3, InductiveInvariant, PTL DEF Spec

-----------------------------------------------------------------------------
(* The strategy implements TradeLifecycle.                                  *)

Known == TypeOK /\ PositionManageable /\ AwaitingExactlyPending

\* In a trade the stage of the intent in it follows the state; it is neither unbuilt
\* nor awaiting an answer, and every other intent is out of work.
LEMMA StageInTrade ==
    ASSUME Known, InTrade
    PROVE  /\ activeIntent \in Intents
           /\ activeIntent # pendingIntent
           /\ Stage(activeIntent) = StageOfState[state]
           /\ \A j \in Intents \ {activeIntent} : Stage(j) \in {"unbuilt", "over"}
  <1>1. /\ activeIntent \in Intents /\ activeIntent # pendingIntent
        /\ ~ activeIntent > built
        /\ pendingIntent = NoIntent
    BY BoundsAssumption DEF Known, TypeOK, PositionManageable, AwaitingExactlyPending, InTrade, Intents
  <1>2. state \in DOMAIN StageOfState
    BY DEF InTrade, StageOfState
  <1>3. \A j \in Intents : j # NoIntent
    BY DEF Intents
  <1> QED
    BY <1>1, <1>2, <1>3 DEF Stage

\* Out of a trade only the intent that awaits its answer is in work.
LEMMA StageOutOfTrade ==
    ASSUME Known, ~ InTrade
    PROVE  /\ pendingIntent \in Intents => Stage(pendingIntent) = "proposed"
           /\ \A j \in Intents : j # pendingIntent => Stage(j) = (IF j > built THEN "unbuilt" ELSE "over")
  <1>1. state \notin DOMAIN StageOfState
    BY DEF InTrade, StageOfState
  <1>2. pendingIntent \in Intents => ~ pendingIntent > built
    BY BoundsAssumption DEF Known, TypeOK, Intents
  <1> QED
    BY <1>1, <1>2 DEF Stage

\* A step that moves one intent while no other is in work is a step of the lifecycle.
LEMMA MoveOne ==
    ASSUME NEW i \in Intents, NEW from, NEW to,
           Stage(i) \in from, Stage(i)' = to,
           \A j \in Intents \ {i} : Stage(j) \in {"unbuilt", "over"} /\ Stage(j)' = Stage(j)
    PROVE  Lifecycle!Move(i, from, to)
  BY DEF Lifecycle!Move, Lifecycle!Alone, Lifecycle!Live

\* What an order event or an exit does to the intent in the trade.
LEMMA TradeMoves ==
    ASSUME Known, InTrade, UNCHANGED <<built, pendingIntent>>, state' \in States,
           \/ activeIntent' = activeIntent
           \/ activeIntent' = NoIntent /\ state' = "Flat"
    PROVE  Lifecycle!Move(activeIntent, {StageOfState[state]},
                          IF state' \in DOMAIN StageOfState THEN StageOfState[state'] ELSE "over")
  <1> DEFINE to == IF state' \in DOMAIN StageOfState THEN StageOfState[state'] ELSE "over"
  <1>1. /\ activeIntent \in Intents /\ activeIntent # pendingIntent
        /\ Stage(activeIntent) \in {StageOfState[state]}
        /\ \A j \in Intents \ {activeIntent} : Stage(j) \in {"unbuilt", "over"}
    BY StageInTrade
  <1>2. ~ activeIntent > built /\ "Flat" \notin DOMAIN StageOfState
    BY BoundsAssumption DEF Known, TypeOK, StageOfState
  <1>3. \A i \in Intents : Stage(i)' = IF i > built THEN "unbuilt"
                                       ELSE IF i = pendingIntent THEN "proposed"
                                       ELSE IF i = activeIntent' /\ state' \in DOMAIN StageOfState
                                       THEN StageOfState[state'] ELSE "over"
    BY DEF Stage
  <1>4. \A i \in Intents : i # NoIntent
    BY DEF Intents
  <1>5. \A i \in Intents : i = activeIntent => Stage(i)' = to
    BY <1>1, <1>2, <1>3
  <1>6. \A j \in Intents \ {activeIntent} : Stage(j)' = Stage(j)
    BY <1>2, <1>3, <1>4 DEF Stage
  <1>7. \A i \in Intents : i = activeIntent
                => Lifecycle!Move(i, {StageOfState[state]}, to)
    <2> SUFFICES ASSUME NEW i \in Intents, i = activeIntent
                 PROVE  Lifecycle!Move(i, {StageOfState[state]}, to)
      OBVIOUS
    <2> HIDE DEF to
    <2> QED
      BY <1>1, <1>5, <1>6, MoveOne
  <1> QED
    BY <1>1, <1>7

\* The states of a trade are those that give an intent a stage.
LEMMA TradeStates ==
    /\ InTrade <=> state \in DOMAIN StageOfState
    /\ StageOfState["PendingEntry"] = "entering"
    /\ StageOfState["InPosition"] = "open"
    /\ StageOfState["Exiting"] = "closing"
    /\ "Flat" \notin DOMAIN StageOfState /\ "PendingApproval" \notin DOMAIN StageOfState
    /\ DOMAIN StageOfState = {"PendingEntry", "InPosition", "Exiting"}
  BY DEF InTrade, StageOfState

\* What an evaluation does to the intent it builds.
LEMMA BeginMoves ==
    ASSUME Known, BeginEvaluation
    PROVE  \E i \in Intents : Lifecycle!Propose(i) \/ Lifecycle!Enter(i) \/ Lifecycle!Drop(i)
  <1>0. built + 1 \in Intents
    BY BoundsAssumption DEF Known, TypeOK, BeginEvaluation, Intents
  <1> SUFFICES ASSUME NEW i \in Intents, i = built + 1
               PROVE  Lifecycle!Propose(i) \/ Lifecycle!Enter(i) \/ Lifecycle!Drop(i)
    BY <1>0
  <1>1. /\ built \in Nat /\ pendingIntent = NoIntent /\ i > built
        /\ i # NoIntent /\ ~ InTrade /\ built' = i
        /\ \A j \in Intents : j \in Nat /\ j # NoIntent
    BY BoundsAssumption
       DEF Known, TypeOK, AwaitingExactlyPending, BeginEvaluation, Intents, InTrade
  <1>2. Stage(i) = "unbuilt" /\ \A j \in Intents \ {i} : Stage(j) \in {"unbuilt", "over"}
    BY <1>1, StageOutOfTrade
  <1>3. \A j \in Intents : j > i <=> j > built /\ j # i
    BY <1>1
  <1>4. CASE profile.selector
    <2>1. pendingIntent' = i /\ state' = "PendingApproval" /\ activeIntent' = activeIntent
      BY <1>4 DEF BeginEvaluation, QueueForSelector
    <2>2. Stage(i)' = "proposed"
      BY <1>1, <1>3, <2>1 DEF Stage
    <2>3. \A j \in Intents \ {i} : Stage(j)' = IF j > built THEN "unbuilt" ELSE "over"
      BY <1>1, <1>3, <2>1, TradeStates DEF Stage
    <2>4. \A j \in Intents \ {i} : Stage(j)' = Stage(j)
      BY <1>1, <2>3, StageOutOfTrade
    <2>5. Lifecycle!Move(i, {"unbuilt"}, "proposed")
      BY <1>1, <1>2, <2>2, <2>4, MoveOne
    <2> QED
      BY <1>1, <2>5 DEF Lifecycle!Propose
  <1>5. CASE ~ profile.selector
    <2>1. /\ activeIntent' = i /\ pendingIntent' = NoIntent
          /\ state' \in {"PendingEntry", "Flat"}
      BY <1>1, <1>5 DEF BeginEvaluation, SubmitApprovedIntent
    <2>2. Stage(i)' = IF state' = "PendingEntry" THEN "entering" ELSE "over"
      BY <1>1, <1>3, <2>1, TradeStates DEF Stage
    <2>3. \A j \in Intents \ {i} : Stage(j)' = IF j > built THEN "unbuilt" ELSE "over"
      BY <1>1, <1>3, <2>1, TradeStates DEF Stage
    <2>4. \A j \in Intents \ {i} : Stage(j)' = Stage(j)
      BY <1>1, <2>3, StageOutOfTrade
    <2>5. Lifecycle!Move(i, {"unbuilt", "proposed"}, "entering")
            \/ Lifecycle!Move(i, {"unbuilt", "proposed", "entering", "open"}, "over")
      BY <1>1, <1>2, <2>1, <2>2, <2>4, MoveOne
    <2> QED
      BY <1>1, <2>5 DEF Lifecycle!Enter, Lifecycle!Drop
  <1> QED
    BY <1>4, <1>5

\* What the selector's answer does to the intent it is about.
LEMMA AnswerMoves ==
    ASSUME Known, NEW i \in Intents, OnIntentApproved(i) \/ OnIntentRejected(i)
    PROVE  Lifecycle!Enter(i) \/ Lifecycle!Drop(i)
  <1>1. /\ built \in Nat /\ i = pendingIntent /\ pendingIntent' = NoIntent /\ built' = built
        /\ ~ InTrade /\ ~ i > built
        /\ \A j \in Intents : j # NoIntent
        /\ \/ activeIntent' = i /\ state' \in {"PendingEntry", "Flat"}
           \/ activeIntent' = activeIntent /\ state' = "Flat"
    BY BoundsAssumption
       DEF Known, TypeOK, OnIntentApproved, OnIntentRejected, SubmitApprovedIntent, Intents, InTrade
  <1>2. Stage(i) = "proposed" /\ \A j \in Intents \ {i} : Stage(j) \in {"unbuilt", "over"}
    BY <1>1, StageOutOfTrade
  <1>3. Stage(i)' = IF state' = "PendingEntry" THEN "entering" ELSE "over"
    BY <1>1, TradeStates DEF Stage
  <1>4. \A j \in Intents \ {i} : Stage(j)' = IF j > built THEN "unbuilt" ELSE "over"
    BY <1>1, TradeStates DEF Stage
  <1>5. \A j \in Intents \ {i} : Stage(j)' = Stage(j)
    BY <1>1, <1>4, StageOutOfTrade
  <1>6. Lifecycle!Move(i, {"unbuilt", "proposed"}, "entering")
          \/ Lifecycle!Move(i, {"unbuilt", "proposed", "entering", "open"}, "over")
    BY <1>1, <1>2, <1>3, <1>5, MoveOne
  <1> QED
    BY <1>6 DEF Lifecycle!Enter, Lifecycle!Drop

\* Every step of the strategy is a step of the lifecycle or leaves every stage alone.
LEMMA LifecycleStep ==
    ASSUME IInv, [Next]_vars
    PROVE  \/ Lifecycle!Next
           \/ \A i \in Intents : Stage(i)' = Stage(i)
  <1>0. Known /\ TypeOK'
    BY TypeStep DEF IInv, Known
  <1>1. ASSUME UNCHANGED <<built, pendingIntent, activeIntent, state>>
        PROVE  \A i \in Intents : Stage(i)' = Stage(i)
    BY <1>1 DEF Stage
  <1>2. ASSUME InTrade, UNCHANGED <<built, pendingIntent>>,
               \/ activeIntent' = activeIntent
               \/ activeIntent' = NoIntent /\ state' = "Flat",
               <<state, state'>> \in {<<"PendingEntry", "InPosition">>, <<"PendingEntry", "Flat">>,
                                     <<"InPosition", "Exiting">>, <<"InPosition", "Flat">>,
                                     <<"Exiting", "Flat">>}
        PROVE  Lifecycle!Next
    <2>1. Lifecycle!Move(activeIntent, {StageOfState[state]},
                         IF state' \in DOMAIN StageOfState THEN StageOfState[state'] ELSE "over")
      BY <1>0, <1>2, TradeMoves DEF TypeOK
    <2>2. activeIntent \in Intents
      BY <1>0, <1>2, StageInTrade
    <2>3. CASE state = "PendingEntry" /\ state' = "InPosition"
      BY <2>1, <2>2, <2>3, TradeStates DEF Lifecycle!Next, Lifecycle!Open
    <2>4. CASE state \in {"PendingEntry", "InPosition"} /\ state' = "Flat"
      BY <2>1, <2>2, <2>4, TradeStates
         DEF Lifecycle!Next, Lifecycle!Drop, Lifecycle!Move
    <2>5. CASE state = "InPosition" /\ state' = "Exiting"
      BY <2>1, <2>2, <2>5, TradeStates DEF Lifecycle!Next, Lifecycle!Close
    <2>6. CASE state = "Exiting" /\ state' = "Flat"
      BY <2>1, <2>2, <2>6, TradeStates DEF Lifecycle!Next, Lifecycle!Finish
    <2> QED
      BY <1>2, <2>3, <2>4, <2>5, <2>6
  <1>3. CASE BeginEvaluation
    BY <1>0, <1>3, BeginMoves DEF Lifecycle!Next
  <1>4. CASE SelectorAnswers
    BY <1>0, <1>4, AnswerMoves DEF SelectorAnswers, Lifecycle!Next
  <1>5. ASSUME FlattenPositions \/ (state = "InPosition" /\ CheckExitTriggers),
               UNCHANGED <<built, pendingIntent, activeIntent>>
        PROVE  Lifecycle!Next \/ \A i \in Intents : Stage(i)' = Stage(i)
    BY <1>1, <1>2, <1>5 DEF FlattenPositions, CheckExitTriggers, SubmitExit, InTrade
  <1>6. CASE ManagePosition
    BY <1>5, <1>6 DEF ManagePosition
  <1>7. CASE OnOptionGreeks
    BY <1>1, <1>7 DEF OnOptionGreeks
  <1>8. ASSUME NEW allows \in BOOLEAN, OnSessionPhase(allows)
        PROVE  Lifecycle!Next \/ \A i \in Intents : Stage(i)' = Stage(i)
    BY <1>1, <1>5, <1>8 DEF OnSessionPhase
  <1>9. ASSUME NEW tag \in RegimeTags, OnRegimeTag(tag)
        PROVE  \A i \in Intents : Stage(i)' = Stage(i)
    BY <1>1, <1>9 DEF OnRegimeTag
  <1>10. ASSUME NEW o \in Orders, OnOrderFilled(o) \/ OnOrderRefused(o)
         PROVE  Lifecycle!Next \/ \A i \in Intents : Stage(i)' = Stage(i)
    BY <1>1, <1>2, <1>10 DEF OnOrderFilled, OnOrderRefused, InTrade
  <1>11. ASSUME NEW o \in Orders, VenueCancels(o)
         PROVE  \A i \in Intents : Stage(i)' = Stage(i)
    BY <1>1, <1>11 DEF VenueCancels
  <1>12. CASE UNCHANGED vars
    BY <1>1, <1>12 DEF vars
  <1> QED
    BY <1>3, <1>4, <1>6, <1>7, <1>8, <1>9, <1>10, <1>11, <1>12
       DEF Next, OnOptionChain, OnQuoteTick

\* The state machine of the strategy implements the life cycle of its intents: one at a
\* time, each moving forward, none taken up again.
THEOREM Refinement == Spec => ImplementsLifecycle
  <1>1. Init => Lifecycle!Init
    BY TradeStates DEF Init, Lifecycle!Init, Stage, Intents, InTrade
  <1>2. IInv /\ [Next]_vars
          => [Lifecycle!Next]_([i \in Intents |-> Stage(i)])
    BY LifecycleStep
  <1> QED
    BY <1>1, <1>2, InductiveInvariant, PTL DEF Spec, ImplementsLifecycle, Lifecycle!Spec

-----------------------------------------------------------------------------
(* What the lifecycle is good for, and so what the strategy inherits from it. *)

\* A step of the lifecycle moves one intent, alone in work, out of a stage that is not the last.
LEMMA LifecycleMoves ==
    ASSUME Lifecycle!Next
    PROVE  \E i \in Intents, from \in SUBSET (Lifecycle!Stages \ {"over"}), to \in Lifecycle!Stages :
               Lifecycle!Move(i, from, to)
  <1>1. PICK i \in Intents :
            Lifecycle!Propose(i) \/ Lifecycle!Enter(i) \/ Lifecycle!Open(i)
            \/ Lifecycle!Close(i) \/ Lifecycle!Finish(i) \/ Lifecycle!Drop(i)
    BY DEF Lifecycle!Next
  <1>2. PICK from \in SUBSET (Lifecycle!Stages \ {"over"}), to \in Lifecycle!Stages :
            Lifecycle!Move(i, from, to)
    BY <1>1 DEF Lifecycle!Propose, Lifecycle!Enter, Lifecycle!Open, Lifecycle!Close,
                Lifecycle!Finish, Lifecycle!Drop, Lifecycle!Stages
  <1> QED
    BY <1>2

\* At most one intent of the strategy is in work at any time: awaiting an answer, entering,
\* open or closing.
THEOREM OneAtATime == Spec => []Lifecycle!OneLiveIntent
  <1>1. Lifecycle!Init => Lifecycle!OneLiveIntent
    BY DEF Lifecycle!Init, Lifecycle!OneLiveIntent, Lifecycle!Live
  <1>2. Lifecycle!OneLiveIntent /\ [Lifecycle!Next]_([i \in Intents |-> Stage(i)])
          => Lifecycle!OneLiveIntent'
    <2> SUFFICES ASSUME Lifecycle!OneLiveIntent,
                        [Lifecycle!Next]_([i \in Intents |-> Stage(i)])
                 PROVE  Lifecycle!OneLiveIntent'
      OBVIOUS
    <2>1. CASE UNCHANGED [i \in Intents |-> Stage(i)]
      BY <2>1 DEF Lifecycle!OneLiveIntent
    <2>2. CASE Lifecycle!Next
      <3>1. PICK i \in Intents, from \in SUBSET (Lifecycle!Stages \ {"over"}),
                 to \in Lifecycle!Stages : Lifecycle!Move(i, from, to)
        BY <2>2, LifecycleMoves
      <3>2. \A j \in Intents : Stage(j)' \in Lifecycle!Live => j = i
        BY <3>1 DEF Lifecycle!Move, Lifecycle!Alone
      <3> QED
        BY <3>2 DEF Lifecycle!OneLiveIntent
    <2> QED
      BY <2>1, <2>2
  <1> QED
    BY <1>1, <1>2, Refinement, PTL DEF ImplementsLifecycle, Lifecycle!Spec

\* An intent of the strategy that is over stays over: no late answer or fill takes it up again.
THEOREM OverStaysOver == Spec => Lifecycle!OverIsFinal
  <1>1. Lifecycle!Next
          => \A i \in Intents : Stage(i) = "over" => Stage(i)' = "over"
    <2> SUFFICES ASSUME Lifecycle!Next, NEW i \in Intents, Stage(i) = "over"
                 PROVE  Stage(i)' = "over"
      OBVIOUS
    <2>1. PICK j \in Intents, from \in SUBSET (Lifecycle!Stages \ {"over"}),
               to \in Lifecycle!Stages : Lifecycle!Move(j, from, to)
      BY LifecycleMoves
    <2>2. i # j
      BY <2>1 DEF Lifecycle!Move
    <2> QED
      BY <2>1, <2>2 DEF Lifecycle!Move
  <1>2. [Lifecycle!Next]_([i \in Intents |-> Stage(i)])
          => [Lifecycle!OverStays]_([i \in Intents |-> Stage(i)])
    BY <1>1 DEF Lifecycle!OverStays
  <1> QED
    BY <1>2, Refinement, PTL DEF ImplementsLifecycle, Lifecycle!Spec, Lifecycle!OverIsFinal
=============================================================================
