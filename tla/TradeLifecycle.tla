--------------------------- MODULE TradeLifecycle ---------------------------
(***************************************************************************)
(* What one strategy promises about the trade intents it builds, whatever  *)
(* venue, selector or market data it runs with: it works on one intent at  *)
(* a time, an intent only ever moves forward, and an intent that is over   *)
(* is never taken up again.                                                *)
(*                                                                         *)
(* This is the abstract specification that ZeroDteStrategy (one strategy   *)
(* with its orders) and SelectorSystem (several strategies behind the      *)
(* SelectorActor) are shown to implement.  It is the life of an intent     *)
(* that docs/design/state-diagram.puml draws as                            *)
(* Evaluating -> PendingEntry -> InPosition -> Exiting -> Flat, with the   *)
(* PENDING_APPROVAL state of models/enums.py added.                        *)
(***************************************************************************)
CONSTANT Intents         \* the intents a strategy may build in its life

VARIABLE stage           \* stage[i]: how far intent i has come

Stages == {"unbuilt", "proposed", "entering", "open", "closing", "over"}
Live   == {"proposed", "entering", "open", "closing"}

TypeOK == stage \in [Intents -> Stages]

Init == stage = [i \in Intents |-> "unbuilt"]

\* Only intent i may be in work.
Alone(i) == \A j \in Intents \ {i} : stage[j] \notin Live

Move(i, from, to) ==
    /\ stage[i] \in from
    /\ Alone(i)
    /\ stage' = [stage EXCEPT ![i] = to]

Propose(i) == Move(i, {"unbuilt"}, "proposed")             \* sent to the selector
Enter(i)   == Move(i, {"unbuilt", "proposed"}, "entering")  \* entry order sent
Open(i)    == Move(i, {"entering"}, "open")
Close(i)   == Move(i, {"open"}, "closing")
Finish(i)  == Move(i, {"closing"}, "over")
Drop(i)    == Move(i, {"unbuilt", "proposed", "entering", "open"}, "over")

Next == \E i \in Intents :
            \/ Propose(i) \/ Enter(i) \/ Open(i)
            \/ Close(i)   \/ Finish(i) \/ Drop(i)

Spec == Init /\ [][Next]_stage

-----------------------------------------------------------------------------
\* At most one intent is in work at a time.
OneLiveIntent == \A i, j \in Intents : stage[i] \in Live /\ stage[j] \in Live => i = j

\* An intent that is over stays over.
OverStays   == \A i \in Intents : stage[i] = "over" => stage'[i] = "over"
OverIsFinal == [][OverStays]_stage
=============================================================================
